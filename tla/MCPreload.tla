------------------------------ MODULE MCPreload ------------------------------
(* Instances of Preload for TLC.  Workers and paths are interchangeable.      *)
EXTENDS Preload, TLC

CONSTANTS w1, w2, p1, p2

Perms == Permutations(Workers) \cup Permutations(Paths)
===============================================================================
