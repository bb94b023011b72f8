----------------------------- MODULE MCLazyUpload -----------------------------
(* Instances of LazyUpload for TLC.  Handles, descriptors, workers and files   *)
(* are interchangeable.                                                       *)
EXTENDS LazyUpload, TLC

CONSTANTS f1, f2, h1, h2, d1, d2, d3, w1

Perms == Permutations(Files) \cup Permutations(Handles) \cup Permutations(Descs)
===============================================================================
