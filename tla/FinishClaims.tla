---------------------------- MODULE FinishClaims ----------------------------
(***************************************************************************)
(* What a `finish` call may claim, and the evidence the harness can collect *)
(* about the working tree when it decides such a claim.                     *)
(*                                                                          *)
(* A working tree is a member of Trees; two trees may have the same         *)
(* Snapshot, the text of `git status --porcelain` together with HEAD that   *)
(* exec::observe_tree reads.  A gate that ends inside its timeout passes    *)
(* exactly on GreenTrees; a gate that is killed at its timeout fails.  The  *)
(* gate itself is taken to leave the tree as it found it.                   *)
(***************************************************************************)
EXTENDS Integers

CONSTANTS
  Trees,             \* the states the workspace can be in
  Baseline,          \* the one the run starts from
  GreenTrees,        \* those on which the gate command exits 0
  Snapshot,          \* [Trees -> snapshots]: what observe_tree can tell apart
  BaselineObserved,  \* whether the observation at run start succeeded
  HasChecks,         \* whether RunConfig::checks is Some
  AnswerMode         \* whether RunConfig::answer_schema is Some

ASSUME ClaimsAssumption ==
  /\ Baseline \in Trees
  /\ GreenTrees \subseteq Trees
  /\ BaselineObserved \in BOOLEAN
  /\ HasChecks \in BOOLEAN
  /\ AnswerMode \in BOOLEAN

-----------------------------------------------------------------------------
(* Dispositions.  Every one is a record of the same shape: its kind, whether *)
(* a gate report backs it, and the change evidence it carries.               *)

ChangeEvidence == {"changed", "unchanged", "unobservable"}

Disposition(kind, checked, change) ==
  [kind |-> kind, checked |-> checked, change |-> change]

Plain(kind) == Disposition(kind, FALSE, "none")

NoFinish == Plain("none")
Running  == Plain("running")

(* Kinds that carry evidence; kinds the model may declare without proof.     *)
EvidenceKinds == {"done", "already_satisfied", "answer"}
DeclaredKinds == {"blocked", "failed", "answer_schema_exhausted"}

(* A Done, AlreadySatisfied or Answer: what the loop counts as a success.    *)
CleanSuccess(d) == d.kind \in EvidenceKinds

Accepted ==
  [kind : EvidenceKinds, checked : BOOLEAN, change : ChangeEvidence]
    \cup {Plain(kind) : kind \in DeclaredKinds}

(* How a run ends when no finish call was accepted.                          *)
GiveUps ==
  {Plain(kind) : kind \in {"budget_exhausted", "max_iterations", "backend_error",
                           "truncated", "stopped_without_finish",
                           "finish_discipline"}}

-----------------------------------------------------------------------------
(* Evidence.                                                                 *)

(* exec::classify_change: either observation may fail, and then the claim is *)
(* taken on trust; otherwise the two snapshots are compared.                 *)
Changes(t) ==
  {"unobservable"} \cup
    {c \in {"changed", "unchanged"} :
       /\ BaselineObserved
       /\ c = "unchanged" <=> Snapshot[t] = Snapshot[Baseline]}

(* Mutant: the exit code is not looked at.                                   *)
GateRunsIgnoringExit(t) == BOOLEAN

(* ChecksRunner::run: green needs exit 0 and no timeout.                     *)
GateRuns(t) == {passed \in BOOLEAN : passed => t \in GreenTrees}

(* verify_against_checks: with no checks configured the verdict is green.    *)
Verdicts(t) == IF HasChecks THEN GateRuns(t) ELSE {TRUE}

(* The `run_checks` tool is registered only when checks are configured; a    *)
(* call to it is an unknown-tool error otherwise.                            *)
RunChecksResults(t) == IF HasChecks THEN GateRuns(t) ELSE {FALSE}
=============================================================================
