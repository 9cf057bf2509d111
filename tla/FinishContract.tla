--------------------------- MODULE FinishContract ---------------------------
(***************************************************************************)
(* What the agent loop promises about how a run ends, with none of its      *)
(* machinery: an agent works on a tree; at most one finish claim is ever    *)
(* accepted, on evidence about the tree at that moment; an accepted claim   *)
(* is the run's outcome and nothing replaces it; without one the run gives  *)
(* up and says why.                                                         *)
(*                                                                          *)
(* This is the contract of the module documentation of engine.rs ("the      *)
(* agent claimed, the checks verified, and work demonstrably happened") as  *)
(* the code keeps it: the evidence is about the tree at acceptance, and the *)
(* agent may still Work between acceptance and the end of its batch.        *)
(***************************************************************************)
EXTENDS FinishClaims

VARIABLES tree, finish, outcome
contractVars == <<tree, finish, outcome>>

(* The evidence a disposition must carry to be accepted on tree t.           *)
Justified(d, t) ==
  /\ d.kind \in {"done", "already_satisfied"} =>
       /\ ~AnswerMode
       /\ d.checked = HasChecks
       /\ HasChecks => t \in GreenTrees
  /\ d.kind \in EvidenceKinds /\ d.change # "unobservable" =>
       (d.change = "unchanged" <=> Snapshot[t] = Snapshot[Baseline])
  /\ d.kind = "done"   => d.change # "unchanged"
  /\ d.kind = "answer" => AnswerMode /\ d.change # "changed"
  /\ d.kind = "answer_schema_exhausted" => AnswerMode

Init ==
  /\ tree = Baseline
  /\ finish = NoFinish
  /\ outcome = Running

Work ==
  /\ outcome = Running
  /\ tree' \in Trees
  /\ UNCHANGED <<finish, outcome>>

Accept ==
  /\ outcome = Running
  /\ finish = NoFinish
  /\ \E d \in Accepted : Justified(d, tree) /\ finish' = d
  /\ UNCHANGED <<tree, outcome>>

Conclude ==
  /\ outcome = Running
  /\ finish # NoFinish
  /\ outcome' = finish
  /\ UNCHANGED <<tree, finish>>

GiveUp ==
  /\ outcome = Running
  /\ finish = NoFinish
  /\ outcome' \in GiveUps
  /\ UNCHANGED <<tree, finish>>

Next == Work \/ Accept \/ Conclude \/ GiveUp

Spec == Init /\ [][Next]_contractVars
=============================================================================
