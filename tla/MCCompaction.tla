---------------------------- MODULE MCCompaction -----------------------------
(* Turns with no call, one, or two, the checks first.                        *)
EXTENDS Compaction

MCBatches ==
  {<<>>, <<"bash">>, <<"run_checks">>, <<"run_checks", "bash">>}
=============================================================================
