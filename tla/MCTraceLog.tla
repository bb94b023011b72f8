------------------------------ MODULE MCTraceLog ------------------------------
(* Instances of TraceLog for TLC.  Worker threads are interchangeable.        *)
EXTENDS TraceLog, TLC

CONSTANTS t1, t2

Perms == Permutations(Loggers)
===============================================================================
