------------------------------ MODULE RunLoop -------------------------------
(***************************************************************************)
(* The agent loop, engine::run_loop_body: one call to Engine::run from the  *)
(* seeded conversation to its LoopOutcome.                                  *)
(*                                                                          *)
(* The model (the LLM) is the environment: every turn it may stop, be cut   *)
(* off, or ask for up to MaxCalls tool calls, chosen one at a time.  The    *)
(* backend may fail in the ways BackendError has.  The loop is sequential,  *)
(* so pc is the place run_loop_body has reached:                            *)
(*   "top"   the head of the for loop, and the checks after it              *)
(*   "turn"  the retry loop around ModelBackend::turn                       *)
(*   "stop"  a turn without tool calls                                      *)
(*   "calls" the per-call loop; left calls of the batch are still to run    *)
(*   "end"   the LoopOutcome has been returned                              *)
(***************************************************************************)
EXTENDS FinishClaims, Sequences

CONSTANTS
  MaxIterations,  \* RunConfig::max_iterations
  MaxNudges,      \* RunConfig::max_nudges; 0 disables finish recovery
  StaticK,        \* RunConfig::static_tree_k
  MaxRetries,     \* RunConfig::max_retries
  CompactOn,      \* compaction enabled and the backend advertises a window
  WallBudget,     \* whether RunConfig::wall_clock_secs # 0
  TokenBudget,    \* RunConfig::token_budget; 0 is unbounded
  BeliefCheck,    \* whether the memory may inject a belief check
  StreakCap,      \* ANSWER_SCHEMA_REJECTION_STREAK_CAP
  ErrorLists,     \* the lists of schema errors a bad answer can produce
  MaxCost,        \* bound: billed tokens of one turn
  MaxCalls        \* bound: tool calls in one turn

ASSUME RunLoopAssumption ==
  /\ MaxIterations \in Nat /\ MaxNudges \in Nat /\ StaticK \in Nat
  /\ MaxRetries \in Nat /\ TokenBudget \in Nat
  /\ MaxCost \in Nat /\ MaxCalls \in Nat
  /\ StreakCap \in Nat \ {0}
  /\ CompactOn \in BOOLEAN /\ WallBudget \in BOOLEAN /\ BeliefCheck \in BOOLEAN
  /\ "ok" \notin ErrorLists /\ "none" \notin ErrorLists

VARIABLES
  pc, left, injected,             \* control
  iterations, attempt, compacted, \* the pass and its model call
  consumed,                       \* budget_consumed_now(..).tokens
  tree,                           \* the workspace
  lastGateGreen, treeDirty, mutated, sinceChange,  \* finish recovery
  nudges, awaiting, statuses,     \* nudges_fired, nudge_awaiting_status, |nudge_statuses|
  streak, prevErrors,             \* the answer-schema streak
  finish,                         \* the disposition accepted in this batch
  rejection,                      \* the last FinishRejection of this turn
  recovery,                       \* RunRecord::recovery_facts
  outcome                         \* the disposition the run returns

(* Observations kept for the properties; the loop never reads them.          *)
VARIABLES
  stray,     \* an error-reporting call changed the tree: "no", "since" the last
             \* run_checks, or "before" it
  trail,     \* the tree changed after a finish was accepted
  verdicts   \* the last StreakCap schema verdicts: an error list or "ok"

control  == <<pc, left, injected>>
pass     == <<iterations, attempt, compacted, consumed>>
latch    == <<lastGateGreen, treeDirty, mutated>>
nudging  == <<sinceChange, nudges, awaiting, statuses>>
schema   == <<streak, prevErrors, verdicts>>
work     == <<tree, stray, trail>>
verdict  == <<finish, rejection>>
result   == <<recovery, outcome>>
vars == <<control, pass, latch, nudging, schema, work, verdict, result>>

NoErrors == "none"
NoFacts == [kept |-> FALSE, green |-> FALSE, dirty |-> FALSE, statuses |-> 0]

Init ==
  /\ pc = "top" /\ left = 0 /\ injected = FALSE
  /\ iterations = 0 /\ attempt = 0 /\ compacted = FALSE /\ consumed = 0
  /\ tree = Baseline
  /\ lastGateGreen = FALSE /\ treeDirty = FALSE /\ mutated = FALSE
  /\ sinceChange = 0 /\ nudges = 0 /\ awaiting = FALSE /\ statuses = 0
  /\ streak = 0 /\ prevErrors = NoErrors
  /\ finish = NoFinish /\ rejection = "none"
  /\ recovery = NoFacts /\ outcome = Running
  /\ stray = "no" /\ trail = FALSE /\ verdicts = <<>>

-----------------------------------------------------------------------------
(* Terminals.                                                                *)

(* Mutant: the facts of this pass instead of the run's.                      *)
FactsOfThisPass(n) ==
  [kept |-> TRUE, green |-> lastGateGreen, dirty |-> mutated, statuses |-> n]

(* RecoveryFacts as every recovery terminal writes them, n being the number  *)
(* of nudge replies on record by then.                                       *)
Facts(n) ==
  [kept |-> TRUE, green |-> lastGateGreen, dirty |-> treeDirty, statuses |-> n]

Return(disposition, facts) ==
  /\ pc' = "end"
  /\ outcome' = disposition
  /\ recovery' = facts

-----------------------------------------------------------------------------
(* The head of the loop, and the same checks once more behind it.            *)

(* Mutant: consuming exactly the limit is no breach.                         *)
BreachedPastLimit(used, limit) == limit # 0 /\ used > limit

(* engine::budget_breached: 0 is the unbounded sentinel.                     *)
BudgetBreached(used, limit) == limit # 0 /\ used >= limit

(* The wall clock may be found expired at any consult when it is armed.      *)
WallClockExhausted ==
  /\ pc = "top" /\ WallBudget
  /\ Return(Plain("budget_exhausted"), Facts(statuses))
  /\ UNCHANGED <<left, injected, pass, latch, nudging, schema, work, verdict>>

TokensExhausted ==
  /\ pc = "top" /\ BudgetBreached(consumed, TokenBudget)
  /\ Return(Plain("budget_exhausted"), Facts(statuses))
  /\ UNCHANGED <<left, injected, pass, latch, nudging, schema, work, verdict>>

(* Threshold compaction needs a completed turn to have measured.             *)
StartPass ==
  /\ pc = "top" /\ ~BudgetBreached(consumed, TokenBudget)
  /\ iterations < MaxIterations
  /\ iterations' = iterations + 1
  /\ attempt' = 0
  /\ compacted' \in {c \in BOOLEAN : c => CompactOn /\ iterations > 0}
  /\ pc' = "turn"
  /\ UNCHANGED <<left, injected, consumed, latch, nudging, schema, work,
                 verdict, result>>

IterationCap ==
  /\ pc = "top" /\ ~BudgetBreached(consumed, TokenBudget)
  /\ iterations = MaxIterations
  /\ Return(Plain("max_iterations"),
            IF lastGateGreen THEN Facts(statuses) ELSE NoFacts)
  /\ UNCHANGED <<left, injected, pass, latch, nudging, schema, work, verdict>>

-----------------------------------------------------------------------------
(* The model call and its retries.                                           *)

MayIntercept == CompactOn /\ ~compacted
MayRetry == attempt < MaxRetries

(* A transient error inside the retry budget: sleep, try again.              *)
Retry ==
  /\ pc = "turn" /\ MayRetry
  /\ attempt' = attempt + 1
  /\ UNCHANGED <<control, iterations, compacted, consumed, latch, nudging,
                 schema, work, verdict, result>>

(* Mutant: every overflow is intercepted, and the call starts over.          *)
InterceptStartsOver ==
  /\ pc = "turn" /\ CompactOn
  /\ compacted' = TRUE
  /\ attempt' = 0
  /\ UNCHANGED <<control, iterations, consumed, latch, nudging, schema, work,
                 verdict, result>>

(* ContextLengthExceeded: compact and try again without spending a retry.    *)
InterceptOverflow ==
  /\ pc = "turn" /\ MayIntercept
  /\ compacted' = TRUE
  /\ UNCHANGED <<control, iterations, attempt, consumed, latch, nudging,
                 schema, work, verdict, result>>

BackendFails ==
  /\ pc = "turn"
  /\ \E error \in {"transient", "overflow", "terminal"} :
       /\ ~(error = "transient" /\ MayRetry)
       /\ ~(error = "overflow" /\ MayIntercept)
  /\ Return(Plain("backend_error"), NoFacts)
  /\ UNCHANGED <<left, injected, pass, latch, nudging, schema, work, verdict>>

(* The turn's tokens are billed, and its calls snapshotted.  A belief check  *)
(* suppresses the whole batch.                                               *)
TurnReturns ==
  /\ pc = "turn"
  /\ \E cost \in 0..MaxCost, n \in 0..MaxCalls, inject \in BOOLEAN :
       /\ inject => BeliefCheck /\ n > 0
       /\ consumed' = consumed + cost
       /\ injected' = inject
       /\ left' = IF inject THEN 0 ELSE n
       /\ pc' = IF n = 0 THEN "stop" ELSE "calls"
  /\ mutated' = FALSE
  /\ rejection' = "none"
  /\ UNCHANGED <<iterations, attempt, compacted, lastGateGreen, treeDirty,
                 nudging, schema, work, finish, result>>

-----------------------------------------------------------------------------
(* A turn without tool calls.                                                *)

(* Mutant: armed by a green gate alone, as before run b0ac3875.              *)
ArmedByGreenOnly == MaxNudges > 0 /\ lastGateGreen

(* stop_terminal_recovery_armed                                              *)
RecoveryArmed == MaxNudges > 0 /\ (lastGateGreen \/ treeDirty)

(* Mutant: the reply of a turn that stops again is dropped.                  *)
StatusesWithoutReply == statuses

(* nudge_statuses once this turn's reply to a nudge is on record.            *)
StatusesWithReply == statuses + IF awaiting THEN 1 ELSE 0

Truncated ==
  /\ pc = "stop"
  /\ Return(Plain("truncated"), NoFacts)
  /\ UNCHANGED <<left, injected, pass, latch, nudging, schema, work, verdict>>

(* A fresh user message; `continue` skips the end-of-iteration bookkeeping.  *)
StopNudge ==
  /\ pc = "stop" /\ RecoveryArmed /\ nudges < MaxNudges
  /\ statuses' = StatusesWithReply
  /\ nudges' = nudges + 1
  /\ awaiting' = TRUE
  /\ pc' = "top"
  /\ UNCHANGED <<left, injected, pass, latch, sinceChange, schema, work,
                 verdict, result>>

StopNudgesExhausted ==
  /\ pc = "stop" /\ RecoveryArmed /\ nudges >= MaxNudges
  /\ statuses' = StatusesWithReply
  /\ Return(Plain("finish_discipline"), Facts(statuses'))
  /\ UNCHANGED <<left, injected, pass, latch, sinceChange, nudges, awaiting,
                 schema, work, verdict>>

StoppedWithoutFinish ==
  /\ pc = "stop" /\ ~RecoveryArmed
  /\ Return(Plain("stopped_without_finish"), NoFacts)
  /\ UNCHANGED <<left, injected, pass, latch, nudging, schema, work, verdict>>

-----------------------------------------------------------------------------
(* The calls of a batch, in order.                                           *)

NextCall == pc = "calls" /\ left > 0 /\ left' = left - 1

(* A tool call leaves everything but the tree and the latch alone.           *)
ToolCall ==
  /\ NextCall
  /\ UNCHANGED <<pc, injected, pass, nudging, schema, verdict, result>>

(* The tree after a call, and what the observations make of the change.      *)
TreeBecomes(t, isError) ==
  /\ tree' = t
  /\ trail' = (trail \/ (finish # NoFinish /\ t # tree))
  /\ stray' = IF isError /\ t # tree THEN "since" ELSE stray

(* Mutant: a mutation leaves an earlier green standing.                      *)
LatchKeepsGreen ==
  /\ mutated' = TRUE
  /\ treeDirty' = TRUE
  /\ UNCHANGED lastGateGreen

(* The latch is written from the result of every executed call.              *)
LatchMutation ==
  /\ mutated' = TRUE
  /\ treeDirty' = TRUE
  /\ lastGateGreen' = FALSE

RunChecksCall ==
  /\ ToolCall
  /\ lastGateGreen' \in RunChecksResults(tree)
  /\ stray' = IF stray = "no" THEN "no" ELSE "before"
  /\ UNCHANGED <<treeDirty, mutated, tree, trail>>

(* edit_file writes atomically: an error means nothing was written.          *)
EditFileCall ==
  /\ ToolCall
  /\ \E t \in Trees : TreeBecomes(t, FALSE)
  /\ LatchMutation

BashSucceeds ==
  /\ ToolCall
  /\ \E t \in Trees : TreeBecomes(t, FALSE)
  /\ LatchMutation

(* A command that exits nonzero or is killed at its timeout may have changed *)
(* the tree first; the latch ignores it.                                     *)
BashFails ==
  /\ ToolCall
  /\ \E t \in Trees : TreeBecomes(t, TRUE)
  /\ UNCHANGED latch

(* Reads, failed edits, denied and unknown calls, and a `finish` behind an   *)
(* accepted one, which is only acknowledged.                                 *)
InertCall ==
  /\ ToolCall
  /\ UNCHANGED <<latch, work>>

-----------------------------------------------------------------------------
(* finish calls: handle_finish_call and what the loop does with its outcome. *)

Claiming ==
  /\ NextCall /\ finish = NoFinish
  /\ UNCHANGED <<pc, injected, pass, latch, nudging, work, result>>

Accept(d) == finish' = d /\ UNCHANGED rejection
Reject(r) == rejection' = r /\ UNCHANGED finish

(* Mutants: leg 3 is not enforced.                                           *)
AnyTreeShows(change) == FALSE
AnyTreeAnswers(change) == FALSE

(* Leg 3 of the completion contract, and its inversion in answer mode.       *)
NoChangeToShow(change) == change = "unchanged"
ChangedUnderAnswer(change) == change = "changed"

ClaimDone ==
  /\ Claiming
  /\ \/ /\ AnswerMode
        /\ Reject("wrong_mode")
     \/ /\ ~AnswerMode
        /\ \E passed \in Verdicts(tree), change \in Changes(tree) :
             \/ ~passed /\ Reject("checks")
             \/ passed /\ NoChangeToShow(change) /\ Reject("no_change")
             \/ /\ passed /\ ~NoChangeToShow(change)
                /\ Accept(Disposition("done", HasChecks, change))
  /\ UNCHANGED schema

ClaimAlreadySatisfied ==
  /\ Claiming
  /\ \/ /\ AnswerMode
        /\ Reject("wrong_mode")
     \/ /\ ~AnswerMode
        /\ \E passed \in Verdicts(tree), change \in Changes(tree) :
             \/ ~passed /\ Reject("checks")
             \/ /\ passed
                /\ Accept(Disposition("already_satisfied", HasChecks, change))
  /\ UNCHANGED schema

(* blocked and failed are taken at their word.                               *)
ClaimDefeat ==
  /\ Claiming
  /\ \E kind \in {"blocked", "failed"} : Accept(Plain(kind))
  /\ UNCHANGED schema

(* A missing or unknown disposition, a missing reason, an answer without a   *)
(* result or outside answer mode.                                            *)
ClaimMalformed ==
  /\ Claiming
  /\ Reject("none")
  /\ UNCHANGED schema

(* The window of verdicts a streak of StreakCap could be made of.            *)
Record(v) ==
  verdicts' = LET all == Append(verdicts, v)
              IN  IF Len(all) > StreakCap THEN Tail(all) ELSE all

(* Mutant: an accumulated total instead of a streak.                         *)
NextTotal(errors) == streak + 1

(* next_answer_schema_streak                                                 *)
NextStreak(errors) == IF errors = prevErrors THEN streak + 1 ELSE 1

ClaimInvalidAnswer ==
  /\ Claiming /\ AnswerMode
  /\ \E errors \in ErrorLists :
       /\ streak' = NextStreak(errors)
       /\ prevErrors' = errors
       /\ Record(errors)
  /\ rejection' = "answer_schema"
  /\ finish' = IF streak' >= StreakCap THEN Plain("answer_schema_exhausted")
                                       ELSE finish

(* The gate, if any, is run and recorded, but only the tree can refuse.      *)
ClaimValidAnswer ==
  /\ Claiming /\ AnswerMode
  /\ \E change \in Changes(tree) :
       IF ChangedUnderAnswer(change)
         THEN Reject("modified_workspace")
         ELSE Accept(Disposition("answer", HasChecks, change))
  /\ streak' = 0
  /\ prevErrors' = NoErrors
  /\ Record("ok")

-----------------------------------------------------------------------------
(* The end of a batch.                                                       *)

BatchDone == pc = "calls" /\ left = 0

StatusesSettled ==
  statuses + IF awaiting /\ ~CleanSuccess(finish) THEN 1 ELSE 0

FinishRun ==
  /\ BatchDone /\ finish # NoFinish
  /\ statuses' = StatusesSettled
  /\ awaiting' = FALSE
  /\ Return(finish, recovery)
  /\ UNCHANGED <<left, injected, pass, latch, sinceChange, nudges, schema,
                 work, verdict>>

(* iters_since_tree_change after this pass.                                  *)
SinceChangeNow ==
  IF injected THEN sinceChange ELSE IF mutated THEN 0 ELSE sinceChange + 1

StaticTrip ==
  /\ MaxNudges > 0 /\ ~injected
  /\ lastGateGreen /\ SinceChangeNow >= StaticK

NextPass ==
  /\ BatchDone /\ finish = NoFinish /\ ~StaticTrip
  /\ statuses' = StatusesSettled
  /\ awaiting' = FALSE
  /\ sinceChange' = SinceChangeNow
  /\ pc' = "top"
  /\ UNCHANGED <<left, injected, pass, latch, nudges, schema, work, verdict,
                 result>>

(* The nudge is appended to the tool results.                                *)
StaticNudge ==
  /\ BatchDone /\ finish = NoFinish /\ StaticTrip /\ nudges < MaxNudges
  /\ statuses' = StatusesSettled
  /\ nudges' = nudges + 1
  /\ awaiting' = TRUE
  /\ sinceChange' = 0
  /\ pc' = "top"
  /\ UNCHANGED <<left, injected, pass, latch, schema, work, verdict, result>>

StaticNudgesExhausted ==
  /\ BatchDone /\ finish = NoFinish /\ StaticTrip /\ nudges >= MaxNudges
  /\ statuses' = StatusesSettled
  /\ awaiting' = FALSE
  /\ sinceChange' = SinceChangeNow
  /\ Return(Plain("finish_discipline"), Facts(statuses'))
  /\ UNCHANGED <<left, injected, pass, latch, nudges, schema, work, verdict>>

(* The future has completed.                                                 *)
Ended == pc = "end" /\ UNCHANGED vars

-----------------------------------------------------------------------------
TopOfLoop == WallClockExhausted \/ TokensExhausted \/ StartPass \/ IterationCap

ModelCall == Retry \/ InterceptOverflow \/ BackendFails \/ TurnReturns

NoCalls == Truncated \/ StopNudge \/ StopNudgesExhausted \/ StoppedWithoutFinish

OneCall ==
  \/ RunChecksCall \/ EditFileCall \/ BashSucceeds \/ BashFails \/ InertCall
  \/ ClaimDone \/ ClaimAlreadySatisfied \/ ClaimDefeat \/ ClaimMalformed
  \/ ClaimInvalidAnswer \/ ClaimValidAnswer

EndOfBatch == FinishRun \/ NextPass \/ StaticNudge \/ StaticNudgesExhausted

Next == TopOfLoop \/ ModelCall \/ NoCalls \/ OneCall \/ EndOfBatch \/ Ended

Spec == Init /\ [][Next]_vars

(* The loop is one sequential future; every await in it is bounded (read     *)
(* timeout of the chat clients, timeout of every command and tool).          *)
FairSpec == Spec /\ WF_vars(Next)

-----------------------------------------------------------------------------
(* Properties.                                                               *)

ControlType ==
  /\ pc \in {"top", "turn", "stop", "calls", "end"}
  /\ left \in 0..MaxCalls /\ injected \in BOOLEAN
PassType ==
  /\ iterations \in 0..MaxIterations /\ attempt \in 0..MaxRetries
  /\ compacted \in BOOLEAN /\ consumed \in Nat
LatchType ==
  lastGateGreen \in BOOLEAN /\ treeDirty \in BOOLEAN /\ mutated \in BOOLEAN
NudgeType ==
  /\ sinceChange \in Nat /\ nudges \in 0..MaxNudges
  /\ awaiting \in BOOLEAN /\ statuses \in Nat
SchemaType ==
  /\ streak \in Nat /\ prevErrors \in ErrorLists \cup {NoErrors}
  /\ verdicts \in Seq(ErrorLists \cup {"ok"})
WorkType ==
  tree \in Trees /\ stray \in {"no", "since", "before"} /\ trail \in BOOLEAN
VerdictType ==
  /\ finish \in Accepted \cup {NoFinish}
  /\ rejection \in {"none", "wrong_mode", "checks", "no_change",
                    "answer_schema", "modified_workspace"}
ResultType ==
  /\ recovery \in [kept : BOOLEAN, green : BOOLEAN, dirty : BOOLEAN, statuses : Nat]
  /\ outcome \in Accepted \cup GiveUps \cup {Running}

(* Every variable stays in its range; counters stay inside their caps.       *)
TypeOK ==
  /\ ControlType /\ PassType /\ LatchType /\ NudgeType
  /\ SchemaType /\ WorkType /\ VerdictType /\ ResultType

(* "A Done value in the outcome always carries proof": a run that ends done  *)
(* with a gate configured ends on a tree the gate passes on, and with change *)
(* evidence that tells the truth about that tree -- unless a later call of   *)
(* the batch that carried the accepted claim changed the tree again.         *)
DoneEvidence ==
  outcome.kind = "done" /\ ~trail =>
    /\ HasChecks => tree \in GreenTrees
    /\ outcome.change = "changed" => Snapshot[tree] # Snapshot[Baseline]
    /\ BaselineObserved /\ Snapshot[tree] = Snapshot[Baseline] =>
         outcome.change = "unobservable"

(* The inverted leg: an answer run that could observe its tree ends on a     *)
(* tree that looks like the one it started from, under the same proviso.     *)
AnswerEvidence ==
  outcome.kind = "answer" /\ ~trail /\ outcome.change # "unobservable" =>
    Snapshot[tree] = Snapshot[Baseline]

(* Every nudge is answered exactly once: a reply is recorded for all nudges  *)
(* but the one still awaiting its reply, and a run is given up for finish    *)
(* discipline only after the agent replied to all MaxNudges of them.         *)
NudgesAccounted ==
  /\ pc \in {"top", "turn", "stop", "calls"} =>
       statuses + (IF awaiting THEN 1 ELSE 0) = nudges
  /\ outcome.kind = "finish_discipline" =>
       /\ nudges = MaxNudges /\ MaxNudges > 0
       /\ recovery.statuses = MaxNudges

(* The latch that arms finish recovery says green only of a tree the gate    *)
(* passes on, unless a call that reported an error changed the tree since    *)
(* the last run_checks.                                                      *)
GateLatchFresh ==
  lastGateGreen => tree \in GreenTrees \/ stray = "since"

(* Work is never forfeited silently: with recovery on, a run that stops      *)
(* without finish on a changed tree got there through a call that reported   *)
(* an error.                                                                 *)
WorkNeverForfeited ==
  outcome.kind = "stopped_without_finish" /\ MaxNudges > 0 /\ tree # Baseline =>
    stray # "no"

(* Recovery facts reach the record whenever a cap ends a run whose last gate *)
(* was green, and they agree with the latch at exit; endings that are not    *)
(* recovery terminals leave none.                                            *)
GreenWorkRecorded ==
  /\ outcome.kind \in {"budget_exhausted", "max_iterations", "finish_discipline"}
       /\ lastGateGreen => recovery.kept
  /\ recovery.kept =>
       /\ outcome.kind \in {"budget_exhausted", "max_iterations", "finish_discipline"}
       /\ recovery.green = lastGateGreen /\ recovery.dirty = treeDirty

(* The budget is consulted before every model call, so a run overshoots it   *)
(* by less than one turn, and never reports the iteration cap over it.       *)
BudgetOvershoot ==
  TokenBudget > 0 =>
    /\ consumed = 0 \/ consumed < TokenBudget + MaxCost
    /\ outcome.kind = "max_iterations" => consumed < TokenBudget

(* The streak counts exactly the trailing identical rejections, so a run is  *)
(* failed as AnswerSchemaExhausted precisely on StreakCap consecutive        *)
(* identical error lists, with no valid payload between them.                *)
SchemaCapExact ==
  (finish.kind = "answer_schema_exhausted") <=>
    /\ Len(verdicts) = StreakCap
    /\ verdicts[1] # "ok"
    /\ \A i \in 1..StreakCap : verdicts[i] = verdicts[1]

(* The run ends: retries, interceptions, nudges and passes are all bounded.  *)
Termination == <>(outcome # Running)

(* The loop keeps the completion contract, whatever its machinery does.      *)
Contract == INSTANCE FinishContract WITH
              tree <- tree, finish <- finish, outcome <- outcome
KeepsContract == Contract!Spec
=============================================================================
