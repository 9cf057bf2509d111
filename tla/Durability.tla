----------------------------- MODULE Durability -----------------------------
(***************************************************************************)
(* What a run leaves behind: the snapshot and the event log a RunStore      *)
(* keeps for each attempt, written by engine::run_loop_body one at a time,  *)
(* with a crash possible between any two writes, and engine::resume, which  *)
(* rebuilds the conversation from them.                                     *)
(*                                                                          *)
(* pc is the next thing the process does: "ask" the model, append the turn  *)
(* ("modelcall", "tick"), "save" it, look at its calls ("stop", "calls"),   *)
(* "run" a logged call, log its "result", append the disposition ("close"), *)
(* save it ("closed"); then it is "over".  "down" is a crashed process.     *)
(*                                                                          *)
(* A message is who wrote it, the calls it makes and the results it brings. *)
(* A turn bills one unit.  Compaction, which only shortens old messages, is *)
(* left out, and so are errors of the store.                                *)
(***************************************************************************)
EXTENDS Integers, Sequences, FiniteSets

CONSTANTS
  MaxAttempts,  \* bound: attempts of the task, one run_id each
  MaxTurns,     \* bound: turns billed over all attempts
  MaxCalls,     \* bound: calls of one turn
  MaxCrashes    \* bound: crashes

ASSUME DurabilityAssumption ==
  /\ MaxAttempts \in Nat \ {0} /\ MaxTurns \in Nat
  /\ MaxCalls \in Nat /\ MaxCrashes \in Nat

VARIABLES
  record,    \* the latest checkpoint of each attempt
  log,       \* the event log of each attempt
  pc, rid,   \* what the process does next, and for which attempt
  messages,  \* its conversation
  results,   \* the results of the batch being run
  accepted,  \* whether a finish of that batch was accepted
  closing,   \* the kind of terminal being written
  carried,   \* initial_consumed
  spent,     \* what this process billed itself
  facts      \* whether its RunRecord holds recovery facts

(* Observations kept for the properties.                                     *)
VARIABLES
  billed,    \* turns the provider charged for
  crashes,
  ran        \* the calls that were executed

store    == <<record, log>>
talk     == <<messages, results, accepted>>
purse    == <<carried, spent>>
ending   == <<closing, facts>>
observed == <<billed, crashes, ran>>
vars == <<store, pc, rid, talk, purse, ending, observed>>

Attempts == 1..MaxAttempts
Calls == (1..MaxTurns) \X (1..MaxCalls)

(* The result of a call is the call it tells the outcome of, or this.        *)
Interrupted == <<0, 0>>
Outcomes == Calls \cup {Interrupted}

Message(from, calls, answers) ==
  [from |-> from, calls |-> calls, results |-> answers]
Answer(call, outcome) == [call |-> call, outcome |-> outcome]

Seed  == Message("user", <<>>, <<>>)
Nudge == Message("user", <<>>, <<>>)

Event(kind, call) == [kind |-> kind, call |-> call]
ModelCall == Event("model_call", Interrupted)
BudgetTick == Event("budget_tick", Interrupted)
DispositionSet == Event("disposition_set", Interrupted)
ToolCallStarted(call) == Event("started", call)
ToolCallResult(outcome) == Event("result", outcome)

NoRecord == [messages |-> <<>>, consumed |-> 0, disposition |-> "none", facts |-> FALSE]
HasRecord(r) == record[r] # NoRecord

Init ==
  /\ record = [r \in Attempts |-> NoRecord]
  /\ log = [r \in Attempts |-> <<>>]
  /\ pc = "ask" /\ rid = 1
  /\ messages = <<Seed>> /\ results = <<>> /\ accepted = FALSE
  /\ closing = "none" /\ facts = FALSE
  /\ carried = 0 /\ spent = 0
  /\ billed = 0 /\ crashes = 0 /\ ran = {}

-----------------------------------------------------------------------------
(* The two writes of a store.                                                *)

AppendEvent(event) == log' = [log EXCEPT ![rid] = Append(@, event)]

(* Mutant: what earlier processes of the run consumed is left out.           *)
SpentHere == spent

BudgetConsumedNow == carried + spent

Checkpoint(conversation, disposition) ==
  record' = [record EXCEPT ![rid] =
              [messages |-> conversation, consumed |-> BudgetConsumedNow,
               disposition |-> disposition, facts |-> facts]]

-----------------------------------------------------------------------------
(* One pass.                                                                 *)

ModelAnswers ==
  /\ pc = "ask" /\ billed < MaxTurns
  /\ \E n \in 0..MaxCalls :
       messages' = Append(messages,
                     Message("assistant", [i \in 1..n |-> <<billed + 1, i>>], <<>>))
  /\ billed' = billed + 1
  /\ spent' = spent + 1
  /\ pc' = "modelcall"
  /\ UNCHANGED <<store, rid, results, accepted, carried, ending, crashes, ran>>

AppendModelCall ==
  /\ pc = "modelcall"
  /\ AppendEvent(ModelCall)
  /\ pc' = "tick"
  /\ UNCHANGED <<record, rid, talk, purse, ending, observed>>

AppendBudgetTick ==
  /\ pc = "tick"
  /\ AppendEvent(BudgetTick)
  /\ pc' = "save"
  /\ UNCHANGED <<record, rid, talk, purse, ending, observed>>

LastMessage == messages[Len(messages)]

(* The mid-iteration checkpoint: the turn is saved before any call runs.     *)
SaveTurn ==
  /\ pc = "save"
  /\ Checkpoint(messages, "none")
  /\ pc' = IF LastMessage.calls = <<>> THEN "stop" ELSE "calls"
  /\ UNCHANGED <<log, rid, talk, purse, ending, observed>>

(* The nudge is pushed and the pass left without a checkpoint.               *)
StopNudge ==
  /\ pc = "stop"
  /\ messages' = Append(messages, Nudge)
  /\ pc' = "ask"
  /\ UNCHANGED <<store, rid, results, accepted, purse, ending, observed>>

BatchOpen == pc = "calls" /\ Len(results) < Len(LastMessage.calls)

NextCall == LastMessage.calls[Len(results) + 1]

(* Answered by the harness: no event is appended for a finish call.          *)
HandleFinish ==
  /\ BatchOpen /\ ~accepted
  /\ results' = Append(results, Answer(NextCall, NextCall))
  /\ accepted' \in BOOLEAN
  /\ UNCHANGED <<store, pc, rid, messages, purse, ending, observed>>

StartCall ==
  /\ BatchOpen
  /\ AppendEvent(ToolCallStarted(NextCall))
  /\ pc' = "run"
  /\ UNCHANGED <<record, rid, talk, purse, ending, observed>>

RunCall ==
  /\ pc = "run"
  /\ ran' = ran \cup {NextCall}
  /\ pc' = "result"
  /\ UNCHANGED <<store, rid, talk, purse, ending, billed, crashes>>

(* Suppressed by a belief check or denied by the memory's advice: logged     *)
(* like a call that ran.                                                     *)
WithholdCall ==
  /\ pc = "run"
  /\ pc' = "result"
  /\ UNCHANGED <<store, rid, talk, purse, ending, observed>>

LogResult ==
  /\ pc = "result"
  /\ AppendEvent(ToolCallResult(NextCall))
  /\ results' = Append(results, Answer(NextCall, NextCall))
  /\ pc' = "calls"
  /\ UNCHANGED <<record, rid, messages, accepted, purse, ending, observed>>

BatchDone ==
  /\ pc = "calls" /\ Len(results) = Len(LastMessage.calls)
  /\ messages' = Append(messages, Message("user", <<>>, results))
  /\ results' = <<>>
  /\ accepted' = FALSE

(* The end-of-iteration checkpoint.                                          *)
SaveResults ==
  /\ BatchDone /\ ~accepted
  /\ Checkpoint(messages', "none")
  /\ pc' = "ask"
  /\ UNCHANGED <<log, rid, purse, ending, observed>>

-----------------------------------------------------------------------------
(* Terminals.  A recovery terminal writes the facts, the others leave them   *)
(* as they are in the record.                                                *)

Close(kind) ==
  /\ closing' = kind
  /\ facts' = (facts \/ kind = "recovery")
  /\ pc' = "close"
  /\ UNCHANGED <<store, rid, purse, observed>>

GiveUp ==
  /\ pc \in {"ask", "stop"}
  /\ \E kind \in {"recovery", "plain"} : Close(kind)
  /\ UNCHANGED talk

FinishRun == BatchDone /\ accepted /\ Close("plain")

FinishDiscipline == BatchDone /\ ~accepted /\ Close("recovery")

AppendDisposition ==
  /\ pc = "close"
  /\ AppendEvent(DispositionSet)
  /\ pc' = "closed"
  /\ UNCHANGED <<record, rid, talk, purse, ending, observed>>

SaveDisposition ==
  /\ pc = "closed"
  /\ Checkpoint(messages, closing)
  /\ pc' = "over"
  /\ UNCHANGED <<log, rid, talk, purse, ending, observed>>

-----------------------------------------------------------------------------
(* reconcile_crash_tail.                                                     *)

ToolEvent(event) == event.kind \in {"started", "result"}

(* Mutant: only the last two events of the log are looked at.                *)
LastCallOnly(events) ==
  {i \in DOMAIN events : ToolEvent(events[i]) /\ i + 1 >= Len(events)}

(* Where the tool events after the last ModelCall are.                       *)
ToolTail(events) ==
  {i \in DOMAIN events :
     /\ ToolEvent(events[i])
     /\ \A j \in DOMAIN events : events[j].kind = "model_call" => j < i}

(* Of the tool events at tail, the Result at j belongs to the Started at i:  *)
(* the log carries no call_id for a Result, so it is that of the last        *)
(* Started before it.                                                        *)
Pair(events, tail, i, j) ==
  /\ events[i].kind = "started" /\ events[j].kind = "result"
  /\ i < j
  /\ \A k \in tail : ~(i < k /\ k < j)

ResultsOf(events, call) ==
  LET tail == ToolTail(events)
  IN  {j \in tail : \E i \in tail :
         Pair(events, tail, i, j) /\ events[i].call = call}

(* Mutant: the results of the tail are given to the calls in order.          *)
OutcomeByPosition(events, calls, k) ==
  LET logged == {j \in ToolTail(events) : events[j].kind = "result"}
  IN  IF k <= Cardinality(logged)
        THEN events[CHOOSE j \in logged :
                      Cardinality({i \in logged : i <= j}) = k].call
        ELSE Interrupted

OutcomeOf(events, calls, k) ==
  LET answering == ResultsOf(events, calls[k])
  IN  IF answering = {} THEN Interrupted
      ELSE events[CHOOSE j \in answering : TRUE].call

(* Mutant: gated on the tail of the log instead of the snapshot.             *)
EndsInStarted(conversation, events) ==
  events # <<>> /\ events[Len(events)].kind = "started"

EndsInCalls(conversation, events) ==
  conversation # <<>> /\ conversation[Len(conversation)].calls # <<>>

(* One result per call of the turn that was cut short.                       *)
Answers(calls, events) ==
  [k \in DOMAIN calls |-> Answer(calls[k], OutcomeOf(events, calls, k))]

(* The conversation a resume of attempt r starts from.                       *)
Reconciled(r) ==
  LET conversation == record[r].messages
  IN  IF EndsInCalls(conversation, log[r])
        THEN Append(conversation,
               Message("user", <<>>,
                       Answers(conversation[Len(conversation)].calls, log[r])))
        ELSE conversation

(* A Started without Result gets one, so that the log is paired again.       *)
Unmatched(events) ==
  LET tail == ToolTail(events)
  IN  \E i \in tail :
        /\ events[i].kind = "started"
        /\ \A j \in tail : ~Pair(events, tail, i, j)

(* Mutant: the log is left as the crash left it.                             *)
LogAsFound(r) == log

RepairedLog(r) ==
  IF EndsInCalls(record[r].messages, log[r]) /\ Unmatched(log[r])
    THEN [log EXCEPT ![r] = Append(@, ToolCallResult(Interrupted))]
    ELSE log

-----------------------------------------------------------------------------
(* Crash and resume.                                                         *)

(* The process dies; only the store survives.                                *)
Crash ==
  /\ pc \notin {"down", "over"} /\ crashes < MaxCrashes
  /\ crashes' = crashes + 1
  /\ pc' = "down"
  /\ messages' = <<>> /\ results' = <<>> /\ accepted' = FALSE
  /\ closing' = "none" /\ facts' = FALSE
  /\ carried' = 0 /\ spent' = 0
  /\ UNCHANGED <<store, rid, billed, ran>>

(* The caller resumes the latest attempt that left a record; in crash mode,   *)
(* one that has not ended.                                                   *)
Latest(r) == HasRecord(r) /\ \A q \in Attempts : q > r => ~HasRecord(q)

Begin(conversation, consumed, kept) ==
  /\ pc' = "ask"
  /\ messages' = conversation
  /\ results' = <<>> /\ accepted' = FALSE
  /\ carried' = consumed /\ spent' = 0
  /\ closing' = "none" /\ facts' = kept
  /\ UNCHANGED <<record, observed>>

(* ResumeMode::Crash: the same attempt, from the reconciled conversation,    *)
(* which stays in memory until the next checkpoint.                          *)
ResumeCrash ==
  /\ pc = "down"
  /\ \E r \in Attempts :
       /\ Latest(r) /\ record[r].disposition = "none"
       /\ log' = RepairedLog(r)
       /\ rid' = r
       /\ Begin(Reconciled(r), record[r].consumed, record[r].facts)

(* ResumeMode::FreshContext: a new attempt from the seed; the record is      *)
(* carried forward, its disposition cleared.                                 *)
ResumeFresh ==
  /\ pc \in {"down", "over"}
  /\ \E r \in Attempts :
       /\ Latest(r) /\ r + 1 \in Attempts
       /\ rid' = r + 1
       /\ Begin(<<Seed>>, record[r].consumed, record[r].facts)
  /\ UNCHANGED log

(* ResumeError::UnknownRunId: nothing was checkpointed, the task is          *)
(* dispatched again under the same run_id.                                   *)
Redispatch ==
  /\ pc = "down" /\ \A r \in Attempts : ~HasRecord(r)
  /\ rid' = 1
  /\ Begin(<<Seed>>, 0, FALSE)
  /\ UNCHANGED log

(* The task is closed for good.                                              *)
Rest == pc = "over" /\ UNCHANGED vars

-----------------------------------------------------------------------------
Turn == ModelAnswers \/ AppendModelCall \/ AppendBudgetTick \/ SaveTurn \/ StopNudge

Batch ==
  \/ HandleFinish \/ StartCall \/ RunCall \/ WithholdCall
  \/ LogResult \/ SaveResults

Terminal == GiveUp \/ FinishRun \/ FinishDiscipline \/ AppendDisposition \/ SaveDisposition

Restart == Crash \/ ResumeCrash \/ ResumeFresh \/ Redispatch

Next == Turn \/ Batch \/ Terminal \/ Restart \/ Rest

Spec == Init /\ [][Next]_vars

-----------------------------------------------------------------------------
(* Properties.                                                               *)

MessageType ==
  [from : {"user", "assistant"}, calls : Seq(Calls),
   results : Seq([call : Calls, outcome : Outcomes])]
EventType ==
  [kind : {"model_call", "budget_tick", "disposition_set", "started", "result"},
   call : Outcomes]
RecordType ==
  [messages : Seq(MessageType), consumed : Nat,
   disposition : {"none", "recovery", "plain"}, facts : BOOLEAN]

StoreType == record \in [Attempts -> RecordType] /\ log \in [Attempts -> Seq(EventType)]
ControlType ==
  /\ pc \in {"ask", "modelcall", "tick", "save", "stop", "calls", "run", "result",
             "close", "closed", "over", "down"}
  /\ rid \in Attempts
TalkType ==
  /\ messages \in Seq(MessageType)
  /\ results \in Seq([call : Calls, outcome : Outcomes])
  /\ accepted \in BOOLEAN
PurseType == carried \in Nat /\ spent \in Nat
EndingType == closing \in {"none", "recovery", "plain"} /\ facts \in BOOLEAN
ObservedType ==
  billed \in 0..MaxTurns /\ crashes \in 0..MaxCrashes /\ ran \subseteq Calls

(* Every variable stays in its range.                                        *)
TypeOK ==
  /\ StoreType /\ ControlType /\ TalkType
  /\ PurseType /\ EndingType /\ ObservedType

(* Whatever crashed when, a request never carries a tool call without its    *)
(* results: each assistant message with calls is followed at once by the     *)
(* message that answers exactly these calls, and results answer nothing else.*)
RequestsPaired ==
  pc = "ask" =>
    \A i \in DOMAIN messages :
      LET answered == IF i = Len(messages) THEN <<>> ELSE messages[i + 1].results
          asked    == messages[i].calls
      IN  /\ Len(answered) = Len(asked)
          /\ \A k \in DOMAIN asked : answered[k].call = asked[k]

(* No result in a request is another call's, and a result other than         *)
(* "interrupted" is that of a call of this history that was executed or      *)
(* answered: the log holds both its events, or neither.                      *)
ResultsTruthful ==
  pc = "ask" =>
    \A i \in DOMAIN messages : \A k \in DOMAIN messages[i].results :
      LET answer == messages[i].results[k]
          logged(kind) == \E j \in DOMAIN log[rid] : log[rid][j] = Event(kind, answer.call)
      IN  /\ answer.outcome \in {answer.call, Interrupted}
          /\ answer.outcome = answer.call => (logged("started") <=> logged("result"))

(* The log is paired whenever a request is sent: every Started is followed   *)
(* by its Result, real or interrupted, so no later resume reads it again.    *)
LogPaired ==
  pc = "ask" =>
    \A i \in DOMAIN log[rid] : log[rid][i].kind = "started" =>
      /\ i < Len(log[rid])
      /\ log[rid][i + 1] \in {ToolCallResult(log[rid][i].call),
                              ToolCallResult(Interrupted)}

(* The log is ahead of the world: a call runs only once its Started is on    *)
(* the log, so a resume always learns that it may have run.                  *)
LogAhead ==
  \A call \in ran : \E r \in Attempts :
    \E i \in DOMAIN log[r] : log[r][i] = ToolCallStarted(call)

(* A crash forgets the tokens of one turn at most, and none are counted      *)
(* twice: what a process believes consumed is what was billed, short of one  *)
(* turn per crash.                                                           *)
TokensAccounted ==
  pc # "down" =>
    /\ BudgetConsumedNow <= billed
    /\ billed <= BudgetConsumedNow + crashes

(* The calls whose outcome a resume of attempt r would know.                 *)
Known(r) ==
  LET conversation == Reconciled(r)
      real(answers) == {k \in DOMAIN answers : answers[k].outcome = answers[k].call}
  IN  UNION {{m.results[k].call : k \in real(m.results)} :
               m \in {conversation[i] : i \in DOMAIN conversation}}

(* The step writes to the store of attempt r.                                *)
Touched(r) == record'[r] # record[r] \/ log'[r] # log[r]

(* store.rs, RunStore: a crash between log and checkpoint reduces to an      *)
(* interrupted step rather than lost state.  A known outcome stays known.    *)
NothingForgotten ==
  [][\A r \in Attempts : Touched(r) => Known(r) \subseteq Known(r)']_vars

(* The one step that forgets: the ModelCall a resumed process appends while  *)
(* the snapshot still ends in the calls it has reconciled in memory.         *)
ForgottenOnlyBehindResume ==
  [][\A r \in Attempts : Touched(r) =>
       \/ Known(r) \subseteq Known(r)'
       \/ /\ AppendModelCall /\ r = rid
          /\ EndsInCalls(record[r].messages, log[r])]_vars
=============================================================================
