------------------------------- MODULE MCExec -------------------------------
(* The instance of Exec for TLC.  The kids differ in nothing but their name, *)
(* yet liveness is checked, so no symmetry is declared.                      *)
EXTENDS Exec
=============================================================================
