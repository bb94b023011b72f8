------------------------------ MODULE MCConnPool ------------------------------
(* Instances of ConnPool for TLC.  Threads, connections and descriptors are   *)
(* interchangeable in every run that checks no temporal property.            *)
EXTENDS ConnPool, TLC

CONSTANTS t1, t2, c1, c2, c3, d1, d2, p

Perms == Permutations(Threads) \cup Permutations(Conns) \cup Permutations(Descs)
===============================================================================
