--------------------------- MODULE WholeFileCache ---------------------------
(***************************************************************************)
(* What the preload cache promises: for each path it holds nothing or one  *)
(* copy, of one version of the file or, if the file was written during the *)
(* download, a mix; a copy is published in one step and only where there   *)
(* is none, and no later download is written over it: it is only moved     *)
(* with its file, truncated or dropped.                                    *)
(***************************************************************************)
CONSTANTS Paths, Versions, None, Mixed

VARIABLE entry   \* for each path the contents of the copy, or None

Init == entry \in [Paths -> Versions \cup {None}]

Publish(p, v) ==
  /\ entry[p] = None
  /\ entry' = [entry EXCEPT ![p] = v]

\* A truncation leaves the copy without the rest of its version.
Cut(p) ==
  /\ entry[p] # None
  /\ entry' = [entry EXCEPT ![p] = Mixed]

\* Eviction and clearing drop several entries at once.
Drop(S) == entry' = [p \in Paths |-> IF p \in S THEN None ELSE entry[p]]

Move(from, to) ==
  /\ entry[from] # None
  /\ entry' = [entry EXCEPT ![to] = entry[from], ![from] = None]

Next ==
  \/ \E p \in Paths, v \in Versions \cup {Mixed} : Publish(p, v)
  \/ \E p \in Paths : Cut(p)
  \/ \E S \in SUBSET Paths : Drop(S)
  \/ \E from, to \in Paths : from # to /\ Move(from, to)

Spec == Init /\ [][Next]_entry
=============================================================================
