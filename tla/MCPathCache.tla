----------------------------- MODULE MCPathCache -----------------------------
(* Instances of PathCache for TLC.  Threads, paths and entries are            *)
(* interchangeable.                                                           *)
EXTENDS PathCache, TLC

CONSTANTS t1, t2, p1, p2, e1, e2, e3, e4

Perms == Permutations(Threads) \cup Permutations(Paths) \cup Permutations(Entries)
===============================================================================
