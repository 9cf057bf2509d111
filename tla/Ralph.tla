-------------------------------- MODULE Ralph --------------------------------
(***************************************************************************)
(* ralph::run_ralph: passes of the agent loop with a fresh context each,    *)
(* around one git work tree.  A green pass is committed, with a bounded     *)
(* number of retries when a pre-commit hook rewrites the tree; any other    *)
(* work is reverted.  A stop command and four breakers end the loop.        *)
(*                                                                          *)
(* pc is the next command of an iteration: the "pass" itself, "observe" the *)
(* tree, "stage", "commit", "probe", "restage", "reset", "clean", the       *)
(* "stop" command, the "breakers"; then the loop is "over".                 *)
(*                                                                          *)
(* A tree is the version of its tracked code, of its notes file, and        *)
(* whether a file no commit has is there.  What the agent, a hook and the   *)
(* stop command do to it is theirs to choose.                               *)
(***************************************************************************)
EXTENDS Integers, Sequences, FiniteSets

CONSTANTS
  Codes, Notes,      \* versions of the code and of the notes file
  MaxOuter,          \* max_outer_iterations
  MaxDoOvers,        \* max_do_overs
  MaxBackendErrors,  \* max_backend_errors
  StuckK,            \* stuck_k
  MaxCommitRetries   \* MAX_COMMIT_RETRIES

ASSUME RalphAssumption ==
  /\ MaxOuter \in Nat \ {0} /\ MaxDoOvers \in Nat \ {0}
  /\ MaxBackendErrors \in Nat \ {0} /\ StuckK \in Nat \ {0}
  /\ MaxCommitRetries \in Nat

VARIABLES
  head, index, work,  \* the last commit, the staging area, the work tree
  pc,
  i,                  \* iterations behind
  outcome,            \* of the inner run
  madeChanges, progressEmpty,
  committed, commitFailed, commitRetries,
  doOvers, backendErrors, stuck,
  iterations,         \* the report
  terminal,
  vouched             \* observation: the tree the gate, then the hook, left

git      == <<head, index, work>>
pass     == <<outcome, madeChanges, progressEmpty, committed, commitFailed, commitRetries>>
counters == <<doOvers, backendErrors, stuck>>
vars == <<git, pc, i, pass, counters, iterations, terminal, vouched>>

Trees == [code : Codes, notes : Notes, extra : BOOLEAN]

NoTree == [code |-> "none"]

Outcomes == {"done", "already_satisfied", "backend_error", "failed"}

Init ==
  /\ head \in Trees /\ index = head /\ work \in Trees
  /\ pc = "pass" /\ i = 0
  /\ outcome = "failed" /\ madeChanges = FALSE /\ progressEmpty = TRUE
  /\ committed = FALSE /\ commitFailed = FALSE /\ commitRetries = 0
  /\ doOvers = 0 /\ backendErrors = 0 /\ stuck = 0
  /\ iterations = <<>> /\ terminal = "none" /\ vouched = NoTree

(* Mutant: a claim that there was nothing to do is taken for a green pass.   *)
DoneOrSatisfied == outcome \in {"done", "already_satisfied"}

IsGreen == outcome = "done"
IsBackendError == outcome = "backend_error"

-----------------------------------------------------------------------------
(* One pass of the agent, which may stage and commit by itself.              *)
RunInner ==
  /\ pc = "pass"
  /\ outcome' \in Outcomes
  /\ work' \in Trees
  /\ \/ head' = head /\ index' \in {index, work'}
     \/ head' = work' /\ index' = work'
  /\ vouched' = IF outcome' = "done" THEN work' ELSE NoTree
  /\ pc' = "observe"
  /\ UNCHANGED <<i, madeChanges, progressEmpty, committed, commitFailed, commitRetries,
                 counters, iterations, terminal>>

(* Mutant: only a pass that is not green is reverted.                        *)
RevertsRedOnly(changes, failed) == changes /\ ~IsGreen

Reverts(changes, failed) == changes /\ (~IsGreen \/ failed)

Behind(changes, failed) == IF Reverts(changes, failed) THEN "reset" ELSE "stop"

(* git status is not empty; the same without the notes file.                 *)
Dirty == work # index \/ index # head

Progress(tree) == <<tree.code, tree.extra>>
ProgressDirty == Progress(work) # Progress(index) \/ Progress(index) # Progress(head)

Observe ==
  /\ pc = "observe"
  /\ madeChanges' = Dirty
  /\ progressEmpty' = ~ProgressDirty
  /\ committed' = FALSE /\ commitFailed' = FALSE /\ commitRetries' = 0
  /\ pc' = IF IsGreen /\ Dirty THEN "stage" ELSE Behind(Dirty, FALSE)
  /\ UNCHANGED <<git, i, outcome, counters, iterations, terminal, vouched>>

-----------------------------------------------------------------------------
(* The commit of a green pass.                                               *)

Stage ==
  /\ pc = "stage"
  /\ index' = work
  /\ pc' = "commit"
  /\ UNCHANGED <<head, work, i, pass, counters, iterations, terminal, vouched>>

(* The pre-commit hook rewrites the tree or leaves it, and may stage it.     *)
Hook ==
  /\ work' \in Trees
  /\ index' \in {index, work'}

CommitAccepted ==
  /\ pc = "commit"
  /\ Hook
  /\ index' # head
  /\ head' = index'
  /\ vouched' = IF index' = index THEN vouched ELSE work'
  /\ committed' = TRUE
  /\ pc' = Behind(madeChanges, FALSE)
  /\ UNCHANGED <<i, outcome, madeChanges, progressEmpty, commitFailed, commitRetries,
                 counters, iterations, terminal>>

RetryLeft == commitRetries < MaxCommitRetries

(* git commit exits nonzero: the hook objects, or nothing is staged.         *)
CommitRejected ==
  /\ pc = "commit"
  /\ Hook
  /\ vouched' = IF work' = work THEN vouched ELSE work'
  /\ commitFailed' = ~RetryLeft
  /\ pc' = IF RetryLeft THEN "probe" ELSE Behind(madeChanges, TRUE)
  /\ UNCHANGED <<head, i, outcome, madeChanges, progressEmpty, committed, commitRetries,
                 counters, iterations, terminal>>

(* The tree differs from what is staged: the hook has rewritten it.          *)
ProbeRetries ==
  /\ pc = "probe" /\ work # index
  /\ pc' = "restage"
  /\ UNCHANGED <<git, i, pass, counters, iterations, terminal, vouched>>

(* It does not, or the probe cannot tell.                                    *)
ProbeGivesUp ==
  /\ pc = "probe"
  /\ commitFailed' = TRUE
  /\ pc' = Behind(madeChanges, TRUE)
  /\ UNCHANGED <<git, i, outcome, madeChanges, progressEmpty, committed, commitRetries,
                 counters, iterations, terminal, vouched>>

(* Mutant: the retry is not counted.                                         *)
RestageUncounted ==
  /\ pc = "restage"
  /\ index' = work
  /\ pc' = "commit"
  /\ UNCHANGED <<head, work, i, pass, counters, iterations, terminal, vouched>>

Restage ==
  /\ pc = "restage"
  /\ index' = work
  /\ commitRetries' = commitRetries + 1
  /\ pc' = "commit"
  /\ UNCHANGED <<head, work, i, outcome, madeChanges, progressEmpty, committed,
                 commitFailed, counters, iterations, terminal, vouched>>

-----------------------------------------------------------------------------
(* The revert: a file neither committed nor staged outlives the reset.       *)

Reset ==
  /\ pc = "reset"
  /\ index' = head
  /\ work' = [head EXCEPT !.extra = @ \/ (work.extra /\ ~index.extra)]
  /\ pc' = "clean"
  /\ UNCHANGED <<head, i, pass, counters, iterations, terminal, vouched>>

Clean ==
  /\ pc = "clean"
  /\ work' = index
  /\ pc' = "stop"
  /\ UNCHANGED <<head, index, i, pass, counters, iterations, terminal, vouched>>

-----------------------------------------------------------------------------
(* The end of an iteration.                                                  *)

End(kind) == terminal' = kind /\ pc' = "over"

(* A git command fails, or the stop command or a commit does not start:      *)
(* the iteration is not reported.                                            *)
HardError ==
  /\ pc \in {"observe", "stage", "commit", "restage", "reset", "clean", "stop"}
  /\ End("error")
  /\ UNCHANGED <<git, i, pass, counters, iterations, vouched>>

(* The stop command may leave files behind; a timeout counts as not met.     *)
StopCommand ==
  /\ pc = "stop"
  /\ work' \in {work, [work EXCEPT !.extra = TRUE]}
  /\ iterations' = Append(iterations,
       [outcome |-> outcome, madeChanges |-> madeChanges, committed |-> committed,
        progress |-> ~progressEmpty])
  /\ \/ End("stop_condition_met")
     \/ pc' = "breakers" /\ UNCHANGED terminal
  /\ UNCHANGED <<head, index, i, pass, counters, vouched>>

FailedPass == (IsGreen /\ commitFailed) \/ (~IsGreen /\ ~IsBackendError)

(* Mutant: any green pass that did not fail starts the count anew.           *)
GreenStartsAnew ==
  IF FailedPass THEN doOvers + 1 ELSE IF IsGreen THEN 0 ELSE doOvers

NextDoOvers ==
  IF IsGreen /\ committed THEN 0
  ELSE IF FailedPass THEN doOvers + 1 ELSE doOvers

NextBackendErrors == IF IsBackendError THEN backendErrors + 1 ELSE 0

NextStuck ==
  IF ~IsGreen \/ ~(committed \/ ~madeChanges) THEN stuck
  ELSE IF progressEmpty THEN stuck + 1 ELSE 0

(* The first breaker that trips, in their order.                             *)
Verdict ==
  IF NextDoOvers >= MaxDoOvers THEN "do_overs"
  ELSE IF NextBackendErrors >= MaxBackendErrors THEN "backend_errors"
  ELSE IF NextStuck >= StuckK THEN "stuck"
  ELSE IF i + 1 >= MaxOuter THEN "max_iterations"
  ELSE "none"

(* A counter behind the breaker that trips is set as well: nobody reads it.  *)
Count ==
  /\ pc = "breakers"
  /\ doOvers' = NextDoOvers
  /\ backendErrors' = NextBackendErrors
  /\ stuck' = NextStuck
  /\ UNCHANGED <<git, pass, iterations, vouched>>

Break == Count /\ Verdict # "none" /\ End(Verdict) /\ UNCHANGED i

TimeBudgetExhausted == Count /\ Verdict = "none" /\ End("time_budget") /\ UNCHANGED i

NextIteration ==
  Count /\ Verdict = "none" /\ i' = i + 1 /\ pc' = "pass" /\ UNCHANGED terminal

Over == pc = "over" /\ UNCHANGED vars

-----------------------------------------------------------------------------
Commit == Stage \/ CommitAccepted \/ CommitRejected \/ ProbeRetries \/ ProbeGivesUp \/ Restage

Revert == Reset \/ Clean

Breakers == Break \/ TimeBudgetExhausted \/ NextIteration

Next ==
  RunInner \/ Observe \/ Commit \/ Revert \/ StopCommand \/ Breakers \/ HardError \/ Over

Spec == Init /\ [][Next]_vars /\ WF_vars(Next)

-----------------------------------------------------------------------------
(* Properties.                                                               *)

GitType == {head, index, work} \subseteq Trees /\ vouched \in Trees \cup {NoTree}
ControlType ==
  /\ pc \in {"pass", "observe", "stage", "commit", "probe", "restage", "reset", "clean",
             "stop", "breakers", "over"}
  /\ i \in 0..(MaxOuter - 1)
  /\ terminal \in {"none", "error", "stop_condition_met", "do_overs", "backend_errors",
                   "stuck", "max_iterations", "time_budget"}
PassType ==
  /\ outcome \in Outcomes
  /\ madeChanges \in BOOLEAN /\ progressEmpty \in BOOLEAN
  /\ committed \in BOOLEAN /\ commitFailed \in BOOLEAN
  /\ commitRetries \in 0..MaxCommitRetries
CountersType ==
  /\ doOvers \in 0..MaxDoOvers /\ backendErrors \in 0..MaxBackendErrors
  /\ stuck \in 0..StuckK
Pass == [outcome : Outcomes, madeChanges : BOOLEAN, committed : BOOLEAN, progress : BOOLEAN]

(* Every variable stays in its range; a green pass takes at most             *)
(* MAX_COMMIT_RETRIES + 1 commits and no counter runs past its breaker.      *)
TypeOK ==
  /\ GitType /\ ControlType /\ PassType /\ CountersType
  /\ iterations \in Seq(Pass)

(* "The harness commits ONLY green": each commit of the loop is exactly the  *)
(* tree the agent's green claim was about, as the hook rewrote it since.     *)
(* Nothing of a pass that was not green is ever in a commit of the loop.     *)
CommitsVouched ==
  [][head' # head => RunInner \/ (IsGreen /\ head' = vouched')]_vars

(* The objective is judged on what is committed: when the stop command runs  *)
(* the tree is HEAD's, unless a hook rewrote it while accepting the commit.  *)
(* So no do-over's work, staged or untracked, counts or lives on.            *)
ObjectiveOnHead ==
  pc = "stop" => index = head /\ (committed \/ work = head)

(* The counts a reader of the report would make.                             *)
DidOver(p) ==
  \/ p.outcome = "done" /\ p.madeChanges /\ ~p.committed
  \/ p.outcome \notin {"done", "backend_error"}
Kept(p) == p.outcome = "done" /\ ~DidOver(p)

DoOverCount ==
  Cardinality({k \in DOMAIN iterations :
    /\ DidOver(iterations[k])
    /\ \A j \in DOMAIN iterations : j > k => ~iterations[j].committed})
BackendErrorRun ==
  Cardinality({k \in DOMAIN iterations :
    \A j \in k..Len(iterations) : iterations[j].outcome = "backend_error"})
StuckCount ==
  Cardinality({k \in DOMAIN iterations :
    /\ Kept(iterations[k]) /\ ~iterations[k].progress
    /\ \A j \in DOMAIN iterations :
         j > k => ~(Kept(iterations[j]) /\ iterations[j].progress)})

(* The report explains its terminal: the breaker named is the first, in the  *)
(* documented order, whose count is reached, and reached by the last pass;   *)
(* an error leaves its own pass out of the report.                           *)
TerminalExplained ==
  /\ terminal = "do_overs" =>
       DoOverCount = MaxDoOvers /\ DidOver(iterations[Len(iterations)])
  /\ terminal = "backend_errors" =>
       BackendErrorRun = MaxBackendErrors /\ DoOverCount < MaxDoOvers
  /\ terminal = "stuck" =>
       /\ StuckCount = StuckK /\ Kept(iterations[Len(iterations)])
       /\ DoOverCount < MaxDoOvers
  /\ terminal \in {"max_iterations", "time_budget"} \/ pc = "pass" =>
       /\ DoOverCount < MaxDoOvers /\ BackendErrorRun < MaxBackendErrors
       /\ StuckCount < StuckK
  /\ terminal = "max_iterations" => Len(iterations) = MaxOuter
  /\ terminal = "error" => Len(iterations) = i

(* The loop ends, whatever the agent, the hooks and the stop command do.     *)
Termination == <>(terminal # "none")
=============================================================================
