----------------------------- MODULE MCRunLoop ------------------------------
(***************************************************************************)
(* Instances of RunLoop for TLC.  "base" is the tree the run starts from,   *)
(* "broken" a change the gate fails on, "good" one it passes on.            *)
(***************************************************************************)
EXTENDS RunLoop

(* A clean repository: every change shows in the porcelain text.             *)
CleanSnapshot == [t \in Trees |-> t]

(* A file already dirty at run start: the agent's edits to it leave the      *)
(* porcelain text as it was.                                                 *)
DirtySnapshot == [t \in Trees |-> "M f"]
=============================================================================
