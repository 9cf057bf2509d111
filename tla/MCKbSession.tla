----------------------------- MODULE MCKbSession -----------------------------
(* Two commands that match one cue, a listing that matches another, the gate *)
(* a third; a group with a long error or two long texts does not fit a digest.  *)
EXTENDS KbSession

CONSTANTS bash1, bash2, list, checks, e1, e2, e3

MCEntryOf ==
  [c \in Calls |-> IF c \in {bash1, bash2} THEN e1 ELSE IF c = list THEN e2 ELSE e3]
MCTextGroups ==
  {[sizes |-> <<6>>, spoke |-> FALSE], [sizes |-> <<6, 6>>, spoke |-> TRUE]}
=============================================================================
