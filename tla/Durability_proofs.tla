------------------------- MODULE Durability_proofs --------------------------
(***************************************************************************)
(* Theorems about Durability, for any number of attempts, turns, calls and  *)
(* crashes: types, the account of tokens across crashes, the log being      *)
(* ahead of every execution and complete where a request is sent, requests  *)
(* with a result for every call, results that tell what the log does, and   *)
(* the one write behind which a resume would know less.                     *)
(***************************************************************************)
EXTENDS Durability, SequenceTheorems, TLAPS

USE DurabilityAssumption

AnswerType == [call : Calls, outcome : Outcomes]

(* The messages and events the actions build are of their type.              *)
LEMMA Constructors ==
  /\ Seed \in MessageType /\ Nudge \in MessageType
  /\ \A calls \in Seq(Calls) : Message("assistant", calls, <<>>) \in MessageType
  /\ \A answers \in Seq(AnswerType) : Message("user", <<>>, answers) \in MessageType
  /\ \A call \in Calls, outcome \in Outcomes : Answer(call, outcome) \in AnswerType
  /\ \A outcome \in Outcomes : ToolCallResult(outcome) \in EventType
  /\ \A call \in Calls : ToolCallStarted(call) \in EventType
  /\ ModelCall \in EventType /\ BudgetTick \in EventType
  /\ DispositionSet \in EventType
  /\ Interrupted \in Outcomes /\ Calls \subseteq Outcomes
BY DEF Seed, Nudge, MessageType, Message, AnswerType, Answer, EventType, Event,
       ToolCallResult, ToolCallStarted, ModelCall, BudgetTick, DispositionSet, Outcomes

(* A process at work has a conversation, and while a call is under way the   *)
(* batch still has a call to answer.                                         *)
AtWork ==
  /\ pc # "down" => messages # <<>>
  /\ pc \in {"run", "result"} => Len(results) < Len(LastMessage.calls)

(* What a checkpoint writes is a record, and not the absence of one.         *)
LEMMA CheckpointType ==
  ASSUME TypeOK, NEW conversation \in Seq(MessageType), conversation # <<>>,
         NEW kind \in {"none", "recovery", "plain"}, Checkpoint(conversation, kind)
  PROVE  /\ record' \in [Attempts -> RecordType]
         /\ \A r \in Attempts \ {rid} : record'[r] = record[r]
         /\ record'[rid] # NoRecord
         /\ record'[rid].consumed = carried + spent
<1>1. carried + spent \in Nat /\ rid \in Attempts /\ facts \in BOOLEAN
  BY DEF TypeOK, PurseType, ControlType, EndingType
<1> DEFINE new == [messages |-> conversation, consumed |-> BudgetConsumedNow,
                   disposition |-> kind, facts |-> facts]
<1>2. new \in RecordType
  BY <1>1 DEF RecordType, BudgetConsumedNow
<1>3. new # NoRecord
  BY DEF NoRecord
<1>4. record \in [Attempts -> RecordType] /\ record' = [record EXCEPT ![rid] = new]
  BY DEF TypeOK, StoreType, Checkpoint
<1> QED BY <1>1, <1>2, <1>3, <1>4 DEF BudgetConsumedNow

(* Appending an event keeps the log a log.                                   *)
LEMMA AppendType ==
  ASSUME TypeOK, NEW event \in EventType, AppendEvent(event)
  PROVE  log' \in [Attempts -> Seq(EventType)]
<1>1. log \in [Attempts -> Seq(EventType)] /\ rid \in Attempts
  BY DEF TypeOK, StoreType, ControlType
<1>2. Append(log[rid], event) \in Seq(EventType)
  BY <1>1
<1> QED BY <1>1, <1>2 DEF AppendEvent

(* The last message of a conversation is a message.                          *)
LEMMA LastMessageType ==
  ASSUME TypeOK, messages # <<>>
  PROVE  LastMessage \in MessageType /\ LastMessage.calls \in Seq(Calls)
<1>1. messages \in Seq(MessageType)
  BY DEF TypeOK, TalkType
<1>2. LastMessage \in MessageType
  BY <1>1 DEF LastMessage
<1> QED BY <1>2 DEF MessageType

(* The call a batch is at is a call.                                         *)
LEMMA NextCallType ==
  ASSUME TypeOK, messages # <<>>, Len(results) < Len(LastMessage.calls)
  PROVE  NextCall \in Calls
<1>1. LastMessage.calls \in Seq(Calls) /\ results \in Seq(AnswerType)
  BY LastMessageType DEF TypeOK, TalkType, AnswerType
<1>2. Len(results) + 1 \in 1..Len(LastMessage.calls)
  BY <1>1
<1> QED BY <1>1, <1>2, ElementOfSeq DEF NextCall

(* What reconciliation returns is a conversation.                            *)
LEMMA ReconciledType ==
  ASSUME TypeOK, NEW r \in Attempts
  PROVE  Reconciled(r) \in Seq(MessageType)
<1> DEFINE conversation == record[r].messages
           events == log[r]
           calls == conversation[Len(conversation)].calls
<1>1. conversation \in Seq(MessageType) /\ events \in Seq(EventType)
  BY DEF TypeOK, StoreType, RecordType
<1>2. CASE ~EndsInCalls(conversation, events)
  BY <1>1, <1>2 DEF Reconciled
<1>3. CASE EndsInCalls(conversation, events)
  <2>1. conversation # <<>>
    BY <1>3 DEF EndsInCalls
  <2>2. conversation[Len(conversation)] \in MessageType
    BY <1>1, <2>1
  <2>3. calls \in Seq(Calls)
    BY <2>2 DEF MessageType
  <2>4. \A k \in DOMAIN calls : OutcomeOf(events, calls, k) \in Outcomes
    <3> TAKE k \in DOMAIN calls
    <3>1. CASE ResultsOf(events, calls[k]) = {}
      BY <3>1, Constructors DEF OutcomeOf
    <3>2. CASE ResultsOf(events, calls[k]) # {}
      <4> DEFINE j == CHOOSE j \in ResultsOf(events, calls[k]) : TRUE
      <4>1. j \in ResultsOf(events, calls[k])
        BY <3>2
      <4>2. j \in DOMAIN events
        BY <4>1 DEF ResultsOf, ToolTail
      <4>3. events[j] \in EventType
        <5> HIDE DEF j, events
        <5>1. j \in 1..Len(events)
          BY <1>1, <4>2
        <5> QED BY <1>1, <5>1, ElementOfSeq
      <4>4. events[j].call \in Outcomes
        BY <4>3 DEF EventType
      <4> QED BY <3>2, <4>4 DEF OutcomeOf
    <3> QED BY <3>1, <3>2
  <2>5. Answers(calls, events) \in Seq(AnswerType)
    <3>1. \A k \in 1..Len(calls) : Answer(calls[k], OutcomeOf(events, calls, k)) \in AnswerType
      BY <2>3, <2>4, Constructors
    <3>2. Len(calls) \in Nat /\ DOMAIN calls = 1..Len(calls)
      <4> HIDE DEF calls
      <4> QED BY <2>3, LenProperties
    <3> QED BY <3>1, <3>2 DEF Answers
  <2> QED BY <1>1, <1>3, <2>5, Constructors DEF Reconciled
<1> QED BY <1>2, <1>3

(* The start is typed and at work.                                           *)
LEMMA TypeInit == Init => TypeOK /\ AtWork
<1> SUFFICES ASSUME Init PROVE TypeOK /\ AtWork
  OBVIOUS
<1> USE DEF Init
<1>1. StoreType
  <2>1. NoRecord \in RecordType
    BY DEF NoRecord, RecordType
  <2> QED BY <2>1 DEF StoreType
<1>2. messages \in Seq(MessageType) /\ messages # <<>>
  BY Constructors
<1>3. TalkType
  <2>1. results \in Seq([call : Calls, outcome : Outcomes])
    BY EmptySeq
  <2> QED BY <1>2, <2>1 DEF TalkType
<1>4. ControlType
  BY DEF ControlType, Attempts
<1>5. PurseType /\ EndingType
  BY DEF PurseType, EndingType
<1>6. ObservedType
  BY DEF ObservedType
<1> QED BY <1>1, <1>2, <1>3, <1>4, <1>5, <1>6 DEF TypeOK, AtWork

-----------------------------------------------------------------------------
(* Type correctness, one lemma per group of actions.                         *)

(* The turn, from the request to its checkpoint.                             *)
LEMMA TypeTurn == TypeOK /\ AtWork /\ Turn => TypeOK' /\ AtWork'
<1> SUFFICES ASSUME TypeOK, AtWork, Turn PROVE TypeOK' /\ AtWork'
  OBVIOUS
<1> USE DEF purse, ending, store, talk, observed
<1>1. CASE ModelAnswers
  <2>1. PICK n \in 0..MaxCalls :
          messages' = Append(messages,
                        Message("assistant", [i \in 1..n |-> <<billed + 1, i>>], <<>>))
    BY <1>1 DEF ModelAnswers
  <2>2. [i \in 1..n |-> <<billed + 1, i>>] \in Seq(Calls)
    <3>1. billed + 1 \in 1..MaxTurns
      BY <1>1 DEF ModelAnswers, TypeOK, ObservedType
    <3>2. \A i \in 1..n : <<billed + 1, i>> \in Calls
      BY <3>1 DEF Calls
    <3> QED BY <3>2
  <2>3. messages' \in Seq(MessageType) /\ messages' # <<>>
    <3> DEFINE turn == Message("assistant", [i \in 1..n |-> <<billed + 1, i>>], <<>>)
    <3>1. turn \in MessageType /\ messages' = Append(messages, turn)
      BY <2>1, <2>2, Constructors
    <3>2. messages \in Seq(MessageType)
      BY DEF TypeOK, TalkType
    <3> HIDE DEF turn
    <3> QED BY <3>1, <3>2
  <2>4. TalkType' /\ AtWork'
    BY <1>1, <2>3 DEF ModelAnswers, TypeOK, TalkType, AtWork
  <2>5. PurseType' /\ ControlType' /\ ObservedType'
    BY <1>1 DEF ModelAnswers, TypeOK, PurseType, ControlType, ObservedType
  <2> QED BY <1>1, <2>4, <2>5 DEF ModelAnswers, TypeOK, StoreType, EndingType
<1>2. CASE AppendModelCall
  <2>1. log' \in [Attempts -> Seq(EventType)]
    BY <1>2, AppendType, Constructors DEF AppendModelCall
  <2>2. TalkType' /\ AtWork'
    BY <1>2 DEF AppendModelCall, TypeOK, TalkType, AtWork
  <2>3. ControlType' /\ PurseType' /\ EndingType' /\ ObservedType'
    BY <1>2 DEF AppendModelCall, TypeOK, ControlType, PurseType, EndingType, ObservedType
  <2> QED BY <1>2, <2>1, <2>2, <2>3 DEF AppendModelCall, TypeOK, StoreType
<1>3. CASE AppendBudgetTick
  <2>1. log' \in [Attempts -> Seq(EventType)]
    BY <1>3, AppendType, Constructors DEF AppendBudgetTick
  <2>2. TalkType' /\ AtWork'
    BY <1>3 DEF AppendBudgetTick, TypeOK, TalkType, AtWork
  <2>3. ControlType' /\ PurseType' /\ EndingType' /\ ObservedType'
    BY <1>3 DEF AppendBudgetTick, TypeOK, ControlType, PurseType, EndingType, ObservedType
  <2> QED BY <1>3, <2>1, <2>2, <2>3 DEF AppendBudgetTick, TypeOK, StoreType
<1>4. CASE SaveTurn
  <2>1. messages \in Seq(MessageType) /\ messages # <<>>
    BY <1>4 DEF SaveTurn, TypeOK, TalkType, AtWork
  <2>2. record' \in [Attempts -> RecordType]
    BY <1>4, <2>1, CheckpointType DEF SaveTurn
  <2>3. TalkType' /\ AtWork'
    BY <1>4 DEF SaveTurn, TypeOK, TalkType, AtWork
  <2>4. ControlType' /\ PurseType' /\ EndingType' /\ ObservedType'
    BY <1>4 DEF SaveTurn, TypeOK, ControlType, PurseType, EndingType, ObservedType
  <2> QED BY <1>4, <2>2, <2>3, <2>4 DEF SaveTurn, TypeOK, StoreType
<1>5. CASE StopNudge
  <2>1. messages' \in Seq(MessageType) /\ messages' # <<>>
    BY <1>5, Constructors DEF StopNudge, TypeOK, TalkType
  <2>2. TalkType' /\ AtWork'
    BY <1>5, <2>1 DEF StopNudge, TypeOK, TalkType, AtWork
  <2>3. ControlType' /\ PurseType' /\ EndingType' /\ ObservedType'
    BY <1>5 DEF StopNudge, TypeOK, ControlType, PurseType, EndingType, ObservedType
  <2> QED BY <1>5, <2>2, <2>3 DEF StopNudge, TypeOK, StoreType
<1> QED BY <1>1, <1>2, <1>3, <1>4, <1>5 DEF Turn

(* Finishing a batch pushes its results.                                     *)
LEMMA BatchDoneType ==
  ASSUME TypeOK, BatchDone
  PROVE  TalkType' /\ messages' \in Seq(MessageType) /\ messages' # <<>>
<1>1. results \in Seq(AnswerType) /\ messages \in Seq(MessageType)
  BY DEF TypeOK, TalkType, AnswerType
<1>2. Message("user", <<>>, results) \in MessageType
  BY <1>1, Constructors
<1>3. messages' \in Seq(MessageType) /\ messages' # <<>>
  BY <1>1, <1>2 DEF BatchDone
<1>4. results' \in Seq([call : Calls, outcome : Outcomes])
  BY EmptySeq DEF BatchDone
<1> QED BY <1>3, <1>4 DEF BatchDone, TalkType

(* One more result.                                                          *)
LEMMA ResultsGrow ==
  ASSUME TypeOK, NEW call \in Calls, results' = Append(results, Answer(call, call))
  PROVE  results' \in Seq([call : Calls, outcome : Outcomes])
<1>1. results \in Seq(AnswerType) /\ Answer(call, call) \in AnswerType
  BY Constructors DEF TypeOK, TalkType, AnswerType
<1>2. Append(results, Answer(call, call)) \in Seq(AnswerType)
  BY <1>1
<1> QED BY <1>2 DEF AnswerType

(* The calls of a batch and its checkpoint.                                  *)
LEMMA TypeBatch == TypeOK /\ AtWork /\ Batch => TypeOK' /\ AtWork'
<1> SUFFICES ASSUME TypeOK, AtWork, Batch PROVE TypeOK' /\ AtWork'
  OBVIOUS
<1> USE DEF purse, ending, store, talk, observed
<1>1. CASE HandleFinish
  <2>1. NextCall \in Calls
    BY <1>1, NextCallType DEF HandleFinish, BatchOpen, AtWork
  <2>2. results' \in Seq([call : Calls, outcome : Outcomes])
    BY <1>1, <2>1, ResultsGrow DEF HandleFinish
  <2>3. TalkType' /\ AtWork'
    BY <1>1, <2>2 DEF HandleFinish, BatchOpen, TypeOK, TalkType, AtWork
  <2> QED BY <1>1, <2>3 DEF HandleFinish, TypeOK, StoreType, ControlType, PurseType,
                            EndingType, ObservedType
<1>2. CASE StartCall
  <2>1. NextCall \in Calls
    BY <1>2, NextCallType DEF StartCall, BatchOpen, AtWork
  <2>2. log' \in [Attempts -> Seq(EventType)]
    BY <1>2, <2>1, AppendType, Constructors DEF StartCall
  <2>3. TalkType' /\ AtWork'
    BY <1>2 DEF StartCall, BatchOpen, TypeOK, TalkType, AtWork, LastMessage
  <2>4. ControlType' /\ PurseType' /\ EndingType' /\ ObservedType'
    BY <1>2 DEF StartCall, TypeOK, ControlType, PurseType, EndingType, ObservedType
  <2> QED BY <1>2, <2>2, <2>3, <2>4 DEF StartCall, TypeOK, StoreType
<1>3. CASE RunCall
  <2>1. NextCall \in Calls
    BY <1>3, NextCallType DEF RunCall, AtWork
  <2>2. ObservedType'
    BY <1>3, <2>1 DEF RunCall, TypeOK, ObservedType
  <2>3. TalkType' /\ AtWork'
    BY <1>3 DEF RunCall, TypeOK, TalkType, AtWork, LastMessage
  <2> QED BY <1>3, <2>2, <2>3 DEF RunCall, TypeOK, StoreType, ControlType, PurseType,
                                  EndingType
<1>4. CASE LogResult
  <2>1. NextCall \in Calls
    BY <1>4, NextCallType DEF LogResult, AtWork
  <2>2. log' \in [Attempts -> Seq(EventType)]
    BY <1>4, <2>1, AppendType, Constructors DEF LogResult
  <2>3. results' \in Seq([call : Calls, outcome : Outcomes])
    BY <1>4, <2>1, ResultsGrow DEF LogResult
  <2>4. TalkType' /\ AtWork'
    BY <1>4, <2>3 DEF LogResult, TypeOK, TalkType, AtWork
  <2>5. ControlType' /\ PurseType' /\ EndingType' /\ ObservedType'
    BY <1>4 DEF LogResult, TypeOK, ControlType, PurseType, EndingType, ObservedType
  <2> QED BY <1>4, <2>2, <2>4, <2>5 DEF LogResult, TypeOK, StoreType
<1>5. CASE SaveResults
  <2>1. TalkType' /\ messages' \in Seq(MessageType) /\ messages' # <<>>
    BY <1>5, BatchDoneType DEF SaveResults
  <2>2. record' \in [Attempts -> RecordType]
    BY <1>5, <2>1, CheckpointType DEF SaveResults
  <2>3. ControlType' /\ PurseType' /\ EndingType' /\ ObservedType'
    BY <1>5 DEF SaveResults, TypeOK, ControlType, PurseType, EndingType, ObservedType
  <2>4. AtWork'
    BY <1>5, <2>1 DEF SaveResults, AtWork
  <2> QED BY <1>5, <2>1, <2>2, <2>3, <2>4 DEF SaveResults, TypeOK, StoreType
<1>6. CASE WithholdCall
  BY <1>6 DEF WithholdCall, TypeOK, AtWork, StoreType, ControlType, TalkType, PurseType,
              EndingType, ObservedType, LastMessage
<1> QED BY <1>1, <1>2, <1>3, <1>4, <1>5, <1>6 DEF Batch

(* The terminals.                                                            *)
LEMMA TypeTerminal == TypeOK /\ AtWork /\ Terminal => TypeOK' /\ AtWork'
<1> SUFFICES ASSUME TypeOK, AtWork, Terminal PROVE TypeOK' /\ AtWork'
  OBVIOUS
<1> USE DEF purse, ending, store, talk, observed
<1>1. ASSUME NEW kind \in {"recovery", "plain"}, Close(kind),
             TalkType', messages' # <<>>
      PROVE  TypeOK' /\ AtWork'
  BY <1>1 DEF Close, TypeOK, AtWork, StoreType, ControlType, PurseType, EndingType,
              ObservedType
<1>2. CASE GiveUp
  <2>1. TalkType' /\ messages' # <<>>
    BY <1>2 DEF GiveUp, TypeOK, TalkType, AtWork
  <2> QED BY <1>2, <1>1, <2>1 DEF GiveUp
<1>3. CASE FinishRun \/ FinishDiscipline
  <2>1. TalkType' /\ messages' # <<>>
    BY <1>3, BatchDoneType DEF FinishRun, FinishDiscipline
  <2> QED BY <1>3, <1>1, <2>1 DEF FinishRun, FinishDiscipline
<1>4. CASE AppendDisposition
  <2>1. log' \in [Attempts -> Seq(EventType)]
    BY <1>4, AppendType, Constructors DEF AppendDisposition
  <2>2. TalkType' /\ AtWork'
    BY <1>4 DEF AppendDisposition, TypeOK, TalkType, AtWork
  <2>3. ControlType' /\ PurseType' /\ EndingType' /\ ObservedType'
    BY <1>4 DEF AppendDisposition, TypeOK, ControlType, PurseType, EndingType, ObservedType
  <2> QED BY <1>4, <2>1, <2>2, <2>3 DEF AppendDisposition, TypeOK, StoreType
<1>5. CASE SaveDisposition
  <2>1. messages \in Seq(MessageType) /\ messages # <<>>
        /\ closing \in {"none", "recovery", "plain"}
    BY <1>5 DEF SaveDisposition, TypeOK, TalkType, AtWork, EndingType
  <2>2. record' \in [Attempts -> RecordType]
    BY <1>5, <2>1, CheckpointType DEF SaveDisposition
  <2>3. TalkType' /\ AtWork'
    BY <1>5 DEF SaveDisposition, TypeOK, TalkType, AtWork
  <2>4. ControlType' /\ PurseType' /\ EndingType' /\ ObservedType'
    BY <1>5 DEF SaveDisposition, TypeOK, ControlType, PurseType, EndingType, ObservedType
  <2> QED BY <1>5, <2>2, <2>3, <2>4 DEF SaveDisposition, TypeOK, StoreType
<1> QED BY <1>2, <1>3, <1>4, <1>5 DEF Terminal

(* A process that begins, from a conversation and a record's counters.       *)
LEMMA BeginType ==
  ASSUME TypeOK, NEW conversation \in Seq(MessageType), conversation # <<>>,
         NEW consumed \in Nat, NEW kept \in BOOLEAN, rid' \in Attempts,
         log' \in [Attempts -> Seq(EventType)], Begin(conversation, consumed, kept)
  PROVE  TypeOK' /\ AtWork'
<1> USE DEF observed
<1>1. TalkType'
  BY EmptySeq DEF Begin, TalkType
<1>2. StoreType' /\ ControlType'
  BY DEF Begin, TypeOK, StoreType, ControlType
<1>3. PurseType' /\ EndingType' /\ ObservedType'
  BY DEF Begin, TypeOK, PurseType, EndingType, ObservedType
<1>4. AtWork'
  BY DEF Begin, AtWork
<1> QED BY <1>1, <1>2, <1>3, <1>4 DEF TypeOK

(* Only a process that had a conversation left a record.                     *)
Recorded == \A r \in Attempts : HasRecord(r) => record[r].messages # <<>>

(* A snapshot has a conversation in it.                                      *)
LEMMA RecordedStep ==
  TypeOK /\ AtWork /\ Recorded /\ [Next]_vars => Recorded'
<1> SUFFICES ASSUME TypeOK, AtWork, Recorded, [Next]_vars PROVE Recorded'
  OBVIOUS
<1> USE DEF store
<1>1. CASE UNCHANGED record
  BY <1>1 DEF Recorded, HasRecord
<1>2. ASSUME NEW conversation, conversation # <<>>, NEW kind, Checkpoint(conversation, kind)
      PROVE  Recorded'
  <2>1. record \in [Attempts -> RecordType] /\ rid \in Attempts
    BY DEF TypeOK, StoreType, ControlType
  <2>2. \A r \in Attempts : record'[r] = record[r] \/ record'[r].messages = conversation
    BY <1>2, <2>1 DEF Checkpoint
  <2> QED BY <1>2, <2>2 DEF Recorded, HasRecord
<1>3. CASE SaveTurn
  BY <1>2, <1>3 DEF SaveTurn, AtWork
<1>4. CASE SaveResults
  BY <1>2, <1>4, BatchDoneType DEF SaveResults
<1>5. CASE SaveDisposition
  BY <1>2, <1>5 DEF SaveDisposition, AtWork
<1>6. UNCHANGED record \/ SaveTurn \/ SaveResults \/ SaveDisposition
  BY DEF Next, Turn, Batch, Terminal, Restart, Rest, ModelAnswers, AppendModelCall,
         AppendBudgetTick, StopNudge, HandleFinish, StartCall, RunCall, WithholdCall,
         LogResult,
         GiveUp, FinishRun, FinishDiscipline, AppendDisposition, Close, Crash,
         ResumeCrash, ResumeFresh, Redispatch, Begin, vars
<1> QED BY <1>1, <1>3, <1>4, <1>5, <1>6

(* A crash, and the three ways to go on after it.                            *)
LEMMA TypeRestart ==
  TypeOK /\ AtWork /\ Recorded /\ Restart => TypeOK' /\ AtWork'
<1> SUFFICES ASSUME TypeOK, AtWork, Recorded, Restart PROVE TypeOK' /\ AtWork'
  OBVIOUS
<1> USE DEF store
<1>1. CASE Crash
  <2>1. TalkType'
    BY <1>1, EmptySeq DEF Crash, TalkType
  <2>2. StoreType' /\ ControlType' /\ PurseType'
    BY <1>1 DEF Crash, TypeOK, StoreType, ControlType, PurseType
  <2>3. EndingType' /\ AtWork'
    BY <1>1 DEF Crash, EndingType, AtWork
  <2>4. ObservedType'
    <3>1. crashes \in 0..MaxCrashes /\ crashes < MaxCrashes /\ crashes' = crashes + 1
      BY <1>1 DEF Crash, TypeOK, ObservedType
    <3>2. billed' \in 0..MaxTurns /\ ran' \subseteq Calls
      BY <1>1 DEF Crash, TypeOK, ObservedType
    <3> QED BY <3>1, <3>2 DEF ObservedType
  <2> QED BY <2>1, <2>2, <2>3, <2>4 DEF TypeOK
<1>2. CASE ResumeCrash
  <2>1. PICK r \in Attempts :
          /\ Latest(r) /\ log' = RepairedLog(r) /\ rid' = r
          /\ Begin(Reconciled(r), record[r].consumed, record[r].facts)
    BY <1>2 DEF ResumeCrash
  <2>2. Reconciled(r) \in Seq(MessageType)
    BY ReconciledType
  <2>3. Reconciled(r) # <<>>
    <3>1. record[r].messages \in Seq(MessageType) /\ record[r].messages # <<>>
      BY <2>1 DEF TypeOK, StoreType, RecordType, Recorded, Latest
    <3>2. CASE ~EndsInCalls(record[r].messages, log[r])
      BY <3>1, <3>2 DEF Reconciled
    <3>3. CASE EndsInCalls(record[r].messages, log[r])
      <4>1. \A m : Append(record[r].messages, m) # <<>>
        BY <3>1
      <4> QED BY <3>3, <4>1 DEF Reconciled
    <3> QED BY <3>2, <3>3
  <2>4. record[r].consumed \in Nat /\ record[r].facts \in BOOLEAN
    BY DEF TypeOK, StoreType, RecordType
  <2>5. log' \in [Attempts -> Seq(EventType)]
    <3>1. log \in [Attempts -> Seq(EventType)]
      BY DEF TypeOK, StoreType
    <3>2. Append(log[r], ToolCallResult(Interrupted)) \in Seq(EventType)
      BY <3>1, Constructors
    <3> QED BY <2>1, <3>1, <3>2 DEF RepairedLog
  <2> QED BY <2>1, <2>2, <2>3, <2>4, <2>5, BeginType
<1>3. CASE ResumeFresh
  <2>1. PICK r \in Attempts :
          /\ rid' = r + 1 /\ r + 1 \in Attempts
          /\ Begin(<<Seed>>, record[r].consumed, record[r].facts)
    BY <1>3 DEF ResumeFresh
  <2>2. record[r].consumed \in Nat /\ record[r].facts \in BOOLEAN
    BY DEF TypeOK, StoreType, RecordType
  <2>3. <<Seed>> \in Seq(MessageType) /\ <<Seed>> # <<>>
    BY Constructors
  <2>4. log' \in [Attempts -> Seq(EventType)]
    BY <1>3 DEF ResumeFresh, TypeOK, StoreType
  <2> QED BY <2>1, <2>2, <2>3, <2>4, BeginType
<1>4. CASE Redispatch
  <2>1. <<Seed>> \in Seq(MessageType) /\ <<Seed>> # <<>>
    BY Constructors
  <2>2. log' \in [Attempts -> Seq(EventType)] /\ rid' \in Attempts
    BY <1>4 DEF Redispatch, TypeOK, StoreType, Attempts
  <2> QED BY <1>4, <2>1, <2>2, BeginType DEF Redispatch
<1> QED BY <1>1, <1>2, <1>3, <1>4 DEF Restart

(* A step that changes nothing.                                              *)
LEMMA TypeStutter == TypeOK /\ AtWork /\ UNCHANGED vars => TypeOK' /\ AtWork'
BY DEF TypeOK, AtWork, vars, store, talk, purse, ending, observed, StoreType, ControlType,
       TalkType, PurseType, EndingType, ObservedType, LastMessage

(* What the other theorems rest on.                                          *)
Typed == TypeOK /\ AtWork /\ Recorded

(* Typed is inductive.                                                       *)
LEMMA TypedStep == Typed /\ [Next]_vars => Typed'
BY TypeTurn, TypeBatch, TypeTerminal, TypeRestart, TypeStutter, RecordedStep
   DEF Typed, Next, Rest

(* The start is typed.                                                       *)
LEMMA TypedInit == Init => Typed
BY TypeInit DEF Typed, Init, Recorded, HasRecord

(* Typed holds throughout.                                                   *)
LEMMA TypedAlways == Spec => []Typed
BY TypedInit, TypedStep, PTL DEF Spec

(* Whatever crashes when and is resumed how, every snapshot, log and         *)
(* conversation is well formed: reconciliation never reaches past the ends   *)
(* of a conversation or a log.                                               *)
THEOREM TypeCorrect == Spec => []TypeOK
<1>1. Typed => TypeOK
  BY DEF Typed
<1> QED BY <1>1, TypedAlways, PTL

-----------------------------------------------------------------------------
(* The account of tokens.                                                    *)

(* The latest record counts at least n, and without one nothing has to be.   *)
Covered(n) ==
  /\ \A r \in Attempts : Latest(r) => n <= record[r].consumed
  /\ (\A r \in Attempts : ~HasRecord(r)) => n <= 0

(* The turn that is billed and not yet in a snapshot.                        *)
Unsaved == IF pc \in {"modelcall", "tick", "save"} THEN 1 ELSE 0

(* TokensAccounted says nothing of a crashed process, and what a resume      *)
(* starts from is the latest record: the invariant says what that record     *)
(* counts, before the crash and after it.                                    *)
Account ==
  /\ \A q \in Attempts : q > rid => ~HasRecord(q)
  /\ \A q \in Attempts : record[q].consumed <= billed
  /\ TokensAccounted
  /\ pc # "down" => Covered(carried + spent - Unsaved)
  /\ pc = "down" => Covered(billed - crashes)

(* The counters are numbers.                                                 *)
LEMMA Numbers ==
  ASSUME Typed
  PROVE  /\ carried \in Nat /\ spent \in Nat /\ billed \in Nat /\ crashes \in Nat
         /\ rid \in Attempts /\ Attempts \subseteq Nat
         /\ \A r \in Attempts : record[r].consumed \in Nat
         /\ Unsaved \in {0, 1}
BY DEF Typed, TypeOK, PurseType, ObservedType, ControlType, StoreType, RecordType,
       Attempts, Unsaved

(* The start has consumed nothing.                                           *)
LEMMA AccountInit == Init => Account
BY DEF Init, Account, Covered, TokensAccounted, BudgetConsumedNow, HasRecord, NoRecord,
       Latest, Unsaved, Attempts

(* A step of a live process that neither bills, saves nor begins.            *)
LEMMA AccountKept ==
  ASSUME Typed, Account, UNCHANGED <<record, rid, carried, spent, billed, crashes>>,
         pc # "down", pc' # "down", Unsaved' = Unsaved
  PROVE  Account'
BY DEF Account, Covered, TokensAccounted, BudgetConsumedNow, HasRecord, Latest

(* A checkpoint makes what the process believes consumed the latest record.  *)
LEMMA AccountSaved ==
  ASSUME Typed, Account, pc # "down", pc' # "down", Unsaved' = 0,
         NEW conversation \in Seq(MessageType), conversation # <<>>,
         NEW kind \in {"none", "recovery", "plain"}, Checkpoint(conversation, kind),
         UNCHANGED <<rid, carried, spent, billed, crashes>>
  PROVE  Account'
<1>1. /\ \A r \in Attempts \ {rid} : record'[r] = record[r]
      /\ record'[rid] # NoRecord
      /\ record'[rid].consumed = carried + spent
  BY CheckpointType DEF Typed
<1>2. HasRecord(rid)'
  BY <1>1 DEF HasRecord
<1>3. \A q \in Attempts : q > rid => ~HasRecord(q)'
  BY <1>1, Numbers DEF HasRecord, Account
<1>4. \A r \in Attempts : Latest(r)' => r = rid
  <2> SUFFICES ASSUME NEW r \in Attempts, Latest(r)', r # rid PROVE FALSE
    OBVIOUS
  <2>1. CASE r > rid
    BY <2>1, <1>3 DEF Latest
  <2>2. CASE rid > r
    BY <2>2, <1>2, Numbers DEF Latest
  <2> QED BY <2>1, <2>2, Numbers
<1>5. Covered(carried + spent)'
  BY <1>1, <1>2, <1>4, Numbers DEF Covered
<1>6. TokensAccounted'
  BY DEF Account, TokensAccounted, BudgetConsumedNow
<1>7. carried + spent <= billed
  BY DEF Account, TokensAccounted, BudgetConsumedNow
<1>8. \A q \in Attempts : record'[q].consumed <= billed'
  BY <1>1, <1>7, Numbers DEF Account
<1>9. carried' + spent' - Unsaved' = carried' + spent'
  BY Numbers
<1> QED BY <1>3, <1>5, <1>6, <1>8, <1>9 DEF Account

(* Beginning from the latest record, or from nothing when there is none.     *)
LEMMA AccountBegun ==
  ASSUME Typed, Account, pc \in {"down", "over"}, NEW consumed \in Nat,
         pc' = "ask", carried' = consumed, spent' = 0,
         UNCHANGED <<record, billed, crashes>>,
         \A q \in Attempts : q > rid' => ~HasRecord(q),
         \/ \E r \in Attempts : Latest(r) /\ consumed = record[r].consumed
         \/ (\A r \in Attempts : ~HasRecord(r)) /\ consumed = 0
  PROVE  Account'
<1>1. Covered(billed - crashes)
  <2>1. CASE pc = "down"
    BY <2>1 DEF Account
  <2>2. CASE pc = "over"
    <3>1. Unsaved = 0 /\ Covered(carried + spent) /\ billed - crashes <= carried + spent
      BY <2>2, Numbers DEF Account, Unsaved, TokensAccounted, BudgetConsumedNow
    <3> QED BY <3>1, Numbers DEF Covered
  <2> QED BY <2>1, <2>2
<1>2. billed - crashes <= consumed /\ consumed <= billed
  BY <1>1, Numbers DEF Covered, Account
<1>3. Covered(consumed)'
  <2>1. \A r, q \in Attempts : Latest(r) /\ Latest(q) => r = q
    BY Numbers DEF Latest
  <2> QED BY <2>1, Numbers DEF Covered, Latest, HasRecord
<1>4. TokensAccounted'
  BY <1>2, Numbers DEF TokensAccounted, BudgetConsumedNow
<1>5. carried' + spent' - Unsaved' = consumed /\ pc' # "down"
  BY DEF Unsaved
<1> QED BY <1>3, <1>4, <1>5 DEF Account, HasRecord

(* A turn bills one unit, which its checkpoint saves.                        *)
LEMMA AccountTurn == Typed /\ Account /\ Turn => Account'
<1> SUFFICES ASSUME Typed, Account, Turn PROVE Account'
  OBVIOUS
<1> USE DEF store, purse, observed
<1>1. CASE ModelAnswers
  <2>1. carried' = carried /\ spent' = spent + 1 /\ billed' = billed + 1 /\ crashes' = crashes
    BY <1>1 DEF ModelAnswers
  <2>2. Unsaved = 0 /\ Unsaved' = 1 /\ pc # "down" /\ pc' # "down"
    BY <1>1 DEF ModelAnswers, Unsaved
  <2>3. TokensAccounted'
    BY <2>1, <2>2, Numbers DEF Account, TokensAccounted, BudgetConsumedNow
  <2>4. Covered(carried + spent - Unsaved)'
    <3>1. Covered(carried + spent)
      BY <2>2, Numbers DEF Account
    <3>2. carried' + spent' - Unsaved' = carried + spent
      BY <2>1, <2>2, Numbers
    <3> QED BY <1>1, <3>1, <3>2 DEF ModelAnswers, Covered, Latest, HasRecord
  <2>5. \A q \in Attempts : record'[q].consumed <= billed'
    BY <1>1, <2>1, Numbers DEF ModelAnswers, Account
  <2> QED BY <1>1, <2>2, <2>3, <2>4, <2>5 DEF ModelAnswers, Account, HasRecord
<1>2. CASE AppendModelCall \/ AppendBudgetTick \/ StopNudge
  <2>1. pc # "down" /\ pc' # "down" /\ Unsaved' = Unsaved
    BY <1>2 DEF AppendModelCall, AppendBudgetTick, StopNudge, Unsaved
  <2> QED BY <1>2, <2>1, AccountKept DEF AppendModelCall, AppendBudgetTick, StopNudge
<1>3. CASE SaveTurn
  <2>1. messages \in Seq(MessageType) /\ messages # <<>>
    BY <1>3 DEF SaveTurn, Typed, TypeOK, TalkType, AtWork
  <2>2. pc # "down" /\ pc' # "down" /\ Unsaved' = 0
    BY <1>3 DEF SaveTurn, Unsaved
  <2> QED BY <1>3, <2>1, <2>2, AccountSaved DEF SaveTurn
<1> QED BY <1>1, <1>2, <1>3 DEF Turn

(* Running calls bills nothing.                                              *)
LEMMA AccountBatch == Typed /\ Account /\ Batch => Account'
<1> SUFFICES ASSUME Typed, Account, Batch PROVE Account'
  OBVIOUS
<1> USE DEF store, purse, observed
<1>1. CASE HandleFinish \/ StartCall \/ RunCall \/ WithholdCall \/ LogResult
  <2>1. pc # "down" /\ pc' # "down" /\ Unsaved' = Unsaved
    BY <1>1 DEF HandleFinish, BatchOpen, StartCall, RunCall, WithholdCall, LogResult, Unsaved
  <2> QED BY <1>1, <2>1, AccountKept
          DEF HandleFinish, StartCall, RunCall, WithholdCall, LogResult
<1>2. CASE SaveResults
  <2>1. messages' \in Seq(MessageType) /\ messages' # <<>>
    BY <1>2, BatchDoneType DEF SaveResults, Typed
  <2>2. pc # "down" /\ pc' # "down" /\ Unsaved' = 0
    BY <1>2 DEF SaveResults, BatchDone, Unsaved
  <2> QED BY <1>2, <2>1, <2>2, AccountSaved DEF SaveResults
<1> QED BY <1>1, <1>2 DEF Batch

(* Neither does a terminal.                                                  *)
LEMMA AccountTerminal == Typed /\ Account /\ Terminal => Account'
<1> SUFFICES ASSUME Typed, Account, Terminal PROVE Account'
  OBVIOUS
<1> USE DEF store, purse, observed
<1>1. CASE GiveUp \/ FinishRun \/ FinishDiscipline \/ AppendDisposition
  <2>1. pc # "down" /\ pc' # "down" /\ Unsaved' = Unsaved
    BY <1>1 DEF GiveUp, FinishRun, FinishDiscipline, BatchDone, AppendDisposition, Close,
                Unsaved
  <2> QED BY <1>1, <2>1, AccountKept
          DEF GiveUp, FinishRun, FinishDiscipline, AppendDisposition, Close
<1>2. CASE SaveDisposition
  <2>1. messages \in Seq(MessageType) /\ messages # <<>>
        /\ closing \in {"none", "recovery", "plain"}
    BY <1>2 DEF SaveDisposition, Typed, TypeOK, TalkType, AtWork, EndingType
  <2>2. pc # "down" /\ pc' # "down" /\ Unsaved' = 0
    BY <1>2 DEF SaveDisposition, Unsaved
  <2> QED BY <1>2, <2>1, <2>2, AccountSaved DEF SaveDisposition
<1> QED BY <1>1, <1>2 DEF Terminal

(* A crash loses the unsaved turn; a resume starts from the latest record.   *)
LEMMA AccountRestart == Typed /\ Account /\ Restart => Account'
<1> SUFFICES ASSUME Typed, Account, Restart PROVE Account'
  OBVIOUS
<1> USE DEF store, observed
<1>1. CASE Crash
  <2>1. pc # "down" /\ pc' = "down" /\ crashes' = crashes + 1 /\ billed' = billed
        /\ rid' = rid /\ record' = record
    BY <1>1 DEF Crash
  <2>2. Covered(carried + spent - Unsaved) /\ billed <= carried + spent + crashes
    BY <2>1 DEF Account, TokensAccounted, BudgetConsumedNow
  <2>3. billed' - crashes' <= carried + spent - Unsaved
    BY <2>1, <2>2, Numbers
  <2>4. Covered(billed - crashes)'
    <3>1. billed' - crashes' \in Int /\ carried + spent - Unsaved \in Int
      BY <2>1, Numbers
    <3> QED BY <2>1, <2>2, <2>3, <3>1, Numbers DEF Covered, Latest, HasRecord
  <2> QED BY <2>1, <2>4 DEF Account, TokensAccounted, HasRecord
<1>2. CASE ResumeCrash
  <2>1. PICK r \in Attempts :
          /\ Latest(r) /\ rid' = r
          /\ Begin(Reconciled(r), record[r].consumed, record[r].facts)
    BY <1>2 DEF ResumeCrash
  <2>2. pc = "down"
    BY <1>2 DEF ResumeCrash
  <2> QED BY <2>1, <2>2, AccountBegun, Numbers DEF Begin, Latest
<1>3. CASE ResumeFresh
  <2>1. PICK r \in Attempts :
          /\ Latest(r) /\ rid' = r + 1
          /\ Begin(<<Seed>>, record[r].consumed, record[r].facts)
    BY <1>3 DEF ResumeFresh
  <2>2. pc \in {"down", "over"}
    BY <1>3 DEF ResumeFresh
  <2>3. \A q \in Attempts : q > rid' => ~HasRecord(q)
    BY <2>1, Numbers DEF Latest
  <2> QED BY <2>1, <2>2, <2>3, AccountBegun, Numbers DEF Begin
<1>4. CASE Redispatch
  BY <1>4, AccountBegun DEF Redispatch, Begin
<1> QED BY <1>1, <1>2, <1>3, <1>4 DEF Restart

(* A step that changes nothing.                                              *)
LEMMA AccountStutter == Account /\ UNCHANGED vars => Account'
BY DEF Account, Covered, TokensAccounted, BudgetConsumedNow, Latest, HasRecord, Unsaved,
       vars, store, purse, observed

(* Account is inductive relative to Typed.                                   *)
LEMMA AccountStep == Typed /\ Account /\ [Next]_vars => Account'
BY AccountTurn, AccountBatch, AccountTerminal, AccountRestart, AccountStutter DEF Next, Rest

(* However often the process crashes and whichever way it is resumed, the    *)
(* budget a run believes it has used is never more than was billed, and less *)
(* by one turn per crash at most.                                            *)
THEOREM TokensAccountedCorrect == Spec => []TokensAccounted
<1>1. Account => TokensAccounted
  BY DEF Account
<1> QED BY <1>1, TypedAlways, AccountInit, AccountStep, PTL DEF Spec

-----------------------------------------------------------------------------
(* The log is ahead of every execution.                                      *)

(* The event is on the log of attempt r.                                     *)
Logged(event, r) == \E i \in DOMAIN log[r] : log[r][i] = event

(* The call about to run has been announced.                                 *)
Announced == pc = "run" => Logged(ToolCallStarted(NextCall), rid)

(* An append keeps what was there and adds the event.                        *)
LEMMA AppendLogs ==
  ASSUME Typed, NEW added \in EventType, NEW q \in Attempts,
         log' = [log EXCEPT ![q] = Append(@, added)]
  PROVE  /\ \A r \in Attempts, event \in EventType : Logged(event, r) => Logged(event, r)'
         /\ \E i \in DOMAIN log'[q] : log'[q][i] = added
<1>1. log \in [Attempts -> Seq(EventType)]
  BY DEF Typed, TypeOK, StoreType
<1>2. /\ \A i \in DOMAIN log[q] : i \in DOMAIN log'[q] /\ log'[q][i] = log[q][i]
      /\ Len(log[q]) + 1 \in DOMAIN log'[q]
      /\ log'[q][Len(log[q]) + 1] = added
  <2>1. log[q] \in Seq(EventType) /\ log'[q] = Append(log[q], added)
    BY <1>1
  <2> QED BY <2>1
<1>3. \A r \in Attempts \ {q} : log'[r] = log[r]
  BY <1>1
<1>4. ASSUME NEW event \in EventType, NEW r \in Attempts, Logged(event, r)
      PROVE  Logged(event, r)'
  <2>1. PICK i \in DOMAIN log[r] : log[r][i] = event
    BY <1>4 DEF Logged
  <2>2. i \in DOMAIN log'[r] /\ log'[r][i] = event
    BY <2>1, <1>2, <1>3
  <2> QED BY <2>2 DEF Logged
<1> QED BY <1>2, <1>4

(* No step takes an event off a log.                                         *)
LEMMA LogGrows ==
  Typed /\ [Next]_vars =>
    \A r \in Attempts, event \in EventType : Logged(event, r) => Logged(event, r)'
<1> SUFFICES ASSUME Typed, [Next]_vars
             PROVE  \A r \in Attempts, event \in EventType :
                      Logged(event, r) => Logged(event, r)'
  OBVIOUS
<1> USE DEF store
<1>1. CASE UNCHANGED log
  BY <1>1 DEF Logged
<1>2. ASSUME NEW added \in EventType, AppendEvent(added)
      PROVE  \A r \in Attempts, event \in EventType : Logged(event, r) => Logged(event, r)'
  BY <1>2, AppendLogs DEF AppendEvent, Typed, TypeOK, ControlType
<1>3. CASE AppendModelCall \/ AppendBudgetTick \/ AppendDisposition
  BY <1>2, <1>3, Constructors DEF AppendModelCall, AppendBudgetTick, AppendDisposition
<1>4. CASE StartCall \/ LogResult
  <2>1. NextCall \in Calls
    BY <1>4, NextCallType DEF StartCall, LogResult, BatchOpen, Typed, AtWork
  <2> QED BY <1>2, <1>4, <2>1, Constructors DEF StartCall, LogResult
<1>5. CASE ResumeCrash
  <2>1. PICK r \in Attempts : log' = RepairedLog(r)
    BY <1>5 DEF ResumeCrash
  <2>2. \/ log' = log
        \/ log' = [log EXCEPT ![r] = Append(@, ToolCallResult(Interrupted))]
    BY <2>1 DEF RepairedLog
  <2> QED BY <1>1, <2>2, AppendLogs, Constructors
<1>6. \/ UNCHANGED log \/ AppendModelCall \/ AppendBudgetTick \/ AppendDisposition
      \/ StartCall \/ LogResult \/ ResumeCrash
  BY DEF Next, Turn, Batch, Terminal, Restart, Rest, ModelAnswers, SaveTurn, StopNudge,
         HandleFinish, RunCall, WithholdCall, SaveResults, GiveUp, FinishRun, FinishDiscipline,
         SaveDisposition, Close, Crash, ResumeFresh, Redispatch, vars
<1> QED BY <1>1, <1>3, <1>4, <1>5, <1>6

(* A call is announced by the step that makes it the next to run.            *)
LEMMA AnnouncedStep == Typed /\ Announced /\ [Next]_vars => Announced'
<1> SUFFICES ASSUME Typed, Announced, [Next]_vars, pc' = "run"
             PROVE  Logged(ToolCallStarted(NextCall), rid)'
  BY DEF Announced
<1> USE DEF store, talk
<1>1. CASE StartCall
  <2>1. NextCall \in Calls /\ rid \in Attempts
    BY <1>1, NextCallType
       DEF StartCall, BatchOpen, Typed, AtWork, TypeOK, ControlType
  <2>2. \E i \in DOMAIN log'[rid] : log'[rid][i] = ToolCallStarted(NextCall)
    BY <1>1, <2>1, AppendLogs, Constructors DEF StartCall, AppendEvent
  <2>3. rid' = rid /\ NextCall' = NextCall
    BY <1>1 DEF StartCall, NextCall, LastMessage
  <2> QED BY <2>2, <2>3 DEF Logged, ToolCallStarted, Event
<1>2. CASE UNCHANGED vars
  BY <1>2 DEF vars, Announced, Logged, NextCall, LastMessage, ToolCallStarted, Event
<1>3. StartCall \/ UNCHANGED vars
  BY DEF Next, Turn, Batch, Terminal, Restart, Rest, ModelAnswers, AppendModelCall,
         AppendBudgetTick, SaveTurn, StopNudge, HandleFinish, BatchOpen, RunCall,
         WithholdCall, LogResult, SaveResults, GiveUp, FinishRun, FinishDiscipline,
         AppendDisposition, SaveDisposition, Close, Crash, ResumeCrash, ResumeFresh,
         Redispatch, Begin
<1> QED BY <1>1, <1>2, <1>3

(* What is run has been announced, and stays so.                             *)
LEMMA LogAheadStep == Typed /\ Announced /\ LogAhead /\ [Next]_vars => LogAhead'
<1> SUFFICES ASSUME Typed, Announced, LogAhead, [Next]_vars, NEW call \in ran'
             PROVE  (\E r \in Attempts : Logged(ToolCallStarted(call), r))'
  BY DEF LogAhead, Logged
<1>1. CASE call \in ran
  <2>1. PICK r \in Attempts : Logged(ToolCallStarted(call), r)
    BY <1>1 DEF LogAhead, Logged
  <2>2. Logged(ToolCallStarted(call), r)'
    <3>1. \A event \in EventType : Logged(event, r) => Logged(event, r)'
      BY LogGrows
    <3>2. ToolCallStarted(call) \in EventType
      BY <1>1, Constructors DEF Typed, TypeOK, ObservedType
    <3> QED BY <2>1, <3>1, <3>2 DEF Logged, ToolCallStarted, Event
  <2> QED BY <2>2
<1>2. CASE call \notin ran
  <2>1. RunCall /\ call = NextCall
    BY <1>2 DEF Next, Turn, Batch, Terminal, Restart, Rest, RunCall, ModelAnswers,
           AppendModelCall, AppendBudgetTick, SaveTurn, StopNudge, HandleFinish,
           StartCall, WithholdCall, LogResult, SaveResults, GiveUp, FinishRun,
           FinishDiscipline, AppendDisposition, SaveDisposition, Close, Crash,
           ResumeCrash, ResumeFresh, Redispatch, Begin, observed, vars
  <2>2. Logged(ToolCallStarted(call), rid) /\ rid \in Attempts
    BY <2>1 DEF RunCall, Announced, Typed, TypeOK, ControlType
  <2>3. log' = log
    BY <2>1 DEF RunCall, store
  <2> QED BY <2>2, <2>3 DEF Logged, ToolCallStarted, Event
<1> QED BY <1>1, <1>2

(* No call runs before its Started is on the log, so a resume never takes an *)
(* executed call for one that was not tried.  The announcement is made for   *)
(* the call at hand and no step in between moves to another one.             *)
THEOREM LogAheadCorrect == Spec => []LogAhead
<1>1. Init => Announced /\ LogAhead
  BY DEF Init, Announced, LogAhead
<1> QED BY <1>1, TypedAlways, AnnouncedStep, LogAheadStep, PTL DEF Spec

-----------------------------------------------------------------------------
(* Requests are paired.                                                      *)

(* The answers are to the calls that were asked, one each, in order.         *)
Answering(asked, answers) ==
  /\ Len(answers) = Len(asked)
  /\ \A k \in DOMAIN asked : answers[k].call = asked[k]

(* Every message but the last is answered by the one after it.               *)
Conversation(conversation) ==
  \A i \in 1..(Len(conversation) - 1) :
    Answering(conversation[i].calls, conversation[i + 1].results)

AtBatch == pc \in {"calls", "run", "result"}
BeforeBatch == pc \in {"ask", "stop", "modelcall", "tick", "save"}

(* The results of a batch are those of its first calls.                      *)
InBatch ==
  /\ AtBatch => /\ Len(results) <= Len(LastMessage.calls)
                /\ \A k \in DOMAIN results :
                     results[k] = Answer(LastMessage.calls[k], LastMessage.calls[k])
  /\ BeforeBatch => results = <<>>
  /\ pc \in {"ask", "stop"} => LastMessage.calls = <<>>

(* While a batch runs, the snapshot is the conversation that asked for it.   *)
SavedTurn == AtBatch => record[rid].messages = messages /\ LastMessage.calls # <<>>

(* What is sent and what is saved are conversations.                         *)
Conversations ==
  Conversation(messages) /\ \A r \in Attempts : Conversation(record[r].messages)

(* The elements of a sequence that grew by one.                              *)
LEMMA Grown ==
  ASSUME NEW S, NEW s \in Seq(S), NEW e \in S
  PROVE  /\ Len(Append(s, e)) = Len(s) + 1 /\ Len(s) \in Nat
         /\ DOMAIN Append(s, e) = 1..(Len(s) + 1) /\ DOMAIN s = 1..Len(s)
         /\ \A i \in 1..Len(s) : Append(s, e)[i] = s[i]
         /\ Append(s, e)[Len(s) + 1] = e
         /\ Append(s, e) # <<>> /\ Append(s, e) \in Seq(S)
OBVIOUS

(* What a step does to the snapshots: at most that of the attempt at work    *)
(* changes, and then to the conversation of the moment.                      *)
LEMMA RecordSteps ==
  ASSUME Typed, [Next]_vars, NEW r \in Attempts
  PROVE  \/ record'[r] = record[r]
         \/ /\ r = rid /\ rid' = rid /\ log' = log
            /\ record'[r].messages = messages'
            /\ SaveTurn \/ SaveResults \/ SaveDisposition
<1> USE DEF store, talk
<1>1. ASSUME NEW conversation, NEW kind, Checkpoint(conversation, kind)
      PROVE  record'[r] = record[r] \/ (r = rid /\ record'[r].messages = conversation)
  <2>1. record \in [Attempts -> RecordType] /\ rid \in Attempts
    BY DEF Typed, TypeOK, StoreType, ControlType
  <2> DEFINE new == [messages |-> conversation, consumed |-> BudgetConsumedNow,
                     disposition |-> kind, facts |-> facts]
  <2>2. record' = [record EXCEPT ![rid] = new] /\ new.messages = conversation
    BY <1>1 DEF Checkpoint
  <2> HIDE DEF new
  <2> QED BY <2>1, <2>2
<1>2. CASE SaveTurn
  BY <1>1, <1>2 DEF SaveTurn
<1>3. CASE SaveResults
  BY <1>1, <1>3 DEF SaveResults
<1>4. CASE SaveDisposition
  BY <1>1, <1>4 DEF SaveDisposition
<1>5. UNCHANGED record \/ SaveTurn \/ SaveResults \/ SaveDisposition
  BY DEF Next, Turn, Batch, Terminal, Restart, Rest, ModelAnswers, AppendModelCall,
         AppendBudgetTick, StopNudge, HandleFinish, StartCall, RunCall, WithholdCall,
         LogResult, GiveUp, FinishRun, FinishDiscipline, AppendDisposition, Close, Crash,
         ResumeCrash, ResumeFresh, Redispatch, Begin, vars
<1> QED BY <1>2, <1>3, <1>4, <1>5

(* A batch starts right after its turn was saved.                            *)
LEMMA SavedTurnStep ==
  Typed /\ SavedTurn /\ [Next]_vars => SavedTurn'
<1> SUFFICES ASSUME Typed, SavedTurn, [Next]_vars, AtBatch' PROVE SavedTurn'
  BY DEF SavedTurn
<1> USE DEF store, talk
<1>1. CASE SaveTurn
  <2>1. record'[rid].messages = messages
    BY <1>1 DEF SaveTurn, Checkpoint, Typed, TypeOK, StoreType, ControlType
  <2> QED BY <1>1, <2>1 DEF SaveTurn, SavedTurn, AtBatch, LastMessage
<1>2. CASE HandleFinish \/ StartCall \/ RunCall \/ WithholdCall \/ LogResult
  BY <1>2 DEF HandleFinish, StartCall, RunCall, WithholdCall, LogResult, BatchOpen,
              SavedTurn, AtBatch, LastMessage
<1>3. CASE UNCHANGED vars
  BY <1>3 DEF vars, SavedTurn, AtBatch, LastMessage
<1>4. \/ SaveTurn \/ HandleFinish \/ StartCall \/ RunCall \/ WithholdCall \/ LogResult
      \/ UNCHANGED vars
  BY DEF Next, Turn, Batch, Terminal, Restart, Rest, ModelAnswers, AppendModelCall,
         AppendBudgetTick, StopNudge, SaveResults, GiveUp, FinishRun, FinishDiscipline,
         AppendDisposition, SaveDisposition, Close, Crash, ResumeCrash, ResumeFresh,
         Redispatch, Begin, AtBatch
<1> QED BY <1>1, <1>2, <1>3, <1>4

(* What is said when no call is open.                                        *)
LEMMA LastAppended ==
  ASSUME Typed, NEW m \in MessageType, messages' = Append(messages, m)
  PROVE  LastMessage' = m
<1>1. messages \in Seq(MessageType)
  BY DEF Typed, TypeOK, TalkType
<1>2. messages'[Len(messages) + 1] = m /\ Len(messages') = Len(messages) + 1
  BY <1>1, Grown
<1> QED BY <1>2 DEF LastMessage

(* Results are collected call by call.                                       *)
LEMMA InBatchStep == Typed /\ InBatch /\ [Next]_vars => InBatch'
<1> SUFFICES ASSUME Typed, InBatch, [Next]_vars PROVE InBatch'
  OBVIOUS
<1> USE DEF store, talk, AtBatch, BeforeBatch
<1>1. CASE SaveTurn
  <2>1. results = <<>> /\ UNCHANGED <<messages, results>>
    BY <1>1 DEF SaveTurn, InBatch
  <2>2. LastMessage.calls \in Seq(Calls)
    BY <1>1, LastMessageType DEF SaveTurn, Typed, AtWork
  <2>3. Len(LastMessage.calls) \in Nat /\ LastMessage' = LastMessage
    BY <2>1, <2>2 DEF LastMessage
  <2> QED BY <1>1, <2>1, <2>3 DEF SaveTurn, InBatch, LastMessage
<1>2. CASE HandleFinish \/ LogResult
  <2>1. results \in Seq(AnswerType) /\ LastMessage.calls \in Seq(Calls)
    BY <1>2, LastMessageType
       DEF HandleFinish, LogResult, BatchOpen, Typed, AtWork, TypeOK, TalkType, AnswerType
  <2>2. Len(results) < Len(LastMessage.calls)
    BY <1>2 DEF HandleFinish, LogResult, BatchOpen, Typed, AtWork
  <2>3. NextCall \in Calls
    BY <1>2, <2>2, NextCallType DEF HandleFinish, LogResult, BatchOpen, Typed, AtWork
  <2>4. results' = Append(results, Answer(NextCall, NextCall))
        /\ Answer(NextCall, NextCall) \in AnswerType
        /\ messages' = messages /\ pc' = "calls"
    BY <1>2, <2>3, Constructors DEF HandleFinish, LogResult, BatchOpen
  <2>5. LastMessage' = LastMessage
    BY <2>4 DEF LastMessage
  <2>6. /\ Len(results') = Len(results) + 1 /\ DOMAIN results' = 1..(Len(results) + 1)
        /\ \A k \in 1..Len(results) : results'[k] = results[k]
        /\ results'[Len(results) + 1] = Answer(NextCall, NextCall)
        /\ DOMAIN results = 1..Len(results) /\ Len(results) \in Nat
        /\ Len(LastMessage.calls) \in Nat
    <3>1. Len(LastMessage.calls) \in Nat
      BY <2>1
    <3> HIDE DEF NextCall, Answer
    <3> QED BY <2>1, <2>4, <3>1, Grown
  <2>7. \A k \in DOMAIN results :
          results[k] = Answer(LastMessage.calls[k], LastMessage.calls[k])
    BY <1>2 DEF InBatch, HandleFinish, LogResult, BatchOpen
  <2>8. \A k \in DOMAIN results' :
          results'[k] = Answer(LastMessage.calls[k], LastMessage.calls[k])
    BY <2>6, <2>7 DEF NextCall
  <2> QED BY <2>2, <2>4, <2>5, <2>6, <2>8 DEF InBatch
<1>3. CASE StartCall \/ RunCall \/ WithholdCall
  BY <1>3 DEF StartCall, RunCall, WithholdCall, BatchOpen, InBatch, LastMessage
<1>4. CASE SaveResults
  <2>1. results' = <<>> /\ pc' = "ask"
    BY <1>4 DEF SaveResults, BatchDone
  <2>2. Message("user", <<>>, results) \in MessageType
    BY Constructors DEF Typed, TypeOK, TalkType, AnswerType
  <2>3. LastMessage' = Message("user", <<>>, results)
    BY <1>4, <2>2, LastAppended DEF SaveResults, BatchDone
  <2> QED BY <2>1, <2>3 DEF InBatch, Message
<1>5. CASE StopNudge
  <2>1. LastMessage' = Nudge
    BY <1>5, Constructors, LastAppended DEF StopNudge
  <2> QED BY <1>5, <2>1 DEF StopNudge, InBatch, Nudge, Message
<1>6. CASE ModelAnswers \/ AppendModelCall \/ AppendBudgetTick
  BY <1>6 DEF ModelAnswers, AppendModelCall, AppendBudgetTick, InBatch
<1>7. CASE ResumeCrash
  <2>1. PICK r \in Attempts : messages' = Reconciled(r) /\ pc' = "ask" /\ results' = <<>>
                              /\ HasRecord(r)
    BY <1>7 DEF ResumeCrash, Begin, Latest
  <2>2. record[r].messages \in Seq(MessageType) /\ record[r].messages # <<>>
        /\ log[r] \in Seq(EventType)
    BY <2>1 DEF Typed, TypeOK, StoreType, RecordType, Recorded
  <2>3. LastMessage'.calls = <<>>
    <3>1. CASE EndsInCalls(record[r].messages, log[r])
      <4> DEFINE answer == Message("user", <<>>,
                   Answers(record[r].messages[Len(record[r].messages)].calls, log[r]))
      <4>1. Reconciled(r) = Append(record[r].messages, answer)
        BY <3>1 DEF Reconciled
      <4>2. answer.calls = <<>>
        BY DEF Message
      <4> HIDE DEF answer
      <4>3. Append(record[r].messages, answer)[Len(record[r].messages) + 1] = answer
            /\ Len(Append(record[r].messages, answer)) = Len(record[r].messages) + 1
        BY <2>2
      <4> QED BY <2>1, <4>1, <4>2, <4>3 DEF LastMessage
    <3>2. CASE ~EndsInCalls(record[r].messages, log[r])
      BY <2>1, <2>2, <3>2 DEF Reconciled, EndsInCalls, LastMessage
    <3> QED BY <3>1, <3>2
  <2> QED BY <2>1, <2>3 DEF InBatch
<1>8. CASE ResumeFresh \/ Redispatch
  <2>1. messages' = <<Seed>> /\ pc' = "ask" /\ results' = <<>>
    BY <1>8 DEF ResumeFresh, Redispatch, Begin
  <2>2. LastMessage' = Seed
    BY <2>1 DEF LastMessage
  <2> QED BY <2>1, <2>2 DEF InBatch, Seed, Message
<1>9. CASE UNCHANGED vars
  BY <1>9 DEF vars, InBatch, LastMessage
<1>10. CASE pc' \notin {"calls", "run", "result"} \cup {"ask", "stop", "modelcall", "tick", "save"}
  BY <1>10 DEF InBatch
<1>11. \/ SaveTurn \/ HandleFinish \/ LogResult \/ StartCall \/ RunCall \/ WithholdCall
       \/ SaveResults \/ StopNudge \/ ModelAnswers \/ AppendModelCall \/ AppendBudgetTick
       \/ ResumeCrash \/ ResumeFresh \/ Redispatch \/ UNCHANGED vars
       \/ pc' \in {"close", "closed", "over", "down"}
  BY DEF Next, Turn, Batch, Terminal, Restart, Rest, GiveUp, FinishRun, FinishDiscipline,
         AppendDisposition, SaveDisposition, Close, Crash
<1> QED BY <1>1, <1>2, <1>3, <1>4, <1>5, <1>6, <1>7, <1>8, <1>9, <1>10, <1>11

(* A message that answers the last one may follow it.                        *)
LEMMA ConversationGrows ==
  ASSUME NEW c \in Seq(MessageType), NEW m \in MessageType, Conversation(c),
         c # <<>> => Answering(c[Len(c)].calls, m.results)
  PROVE  Conversation(Append(c, m))
<1>1. /\ Len(Append(c, m)) = Len(c) + 1 /\ Len(c) \in Nat
      /\ \A i \in 1..Len(c) : Append(c, m)[i] = c[i]
      /\ Append(c, m)[Len(c) + 1] = m
  BY Grown
<1> SUFFICES ASSUME NEW i \in 1..Len(c)
             PROVE  Answering(Append(c, m)[i].calls, Append(c, m)[i + 1].results)
  BY <1>1 DEF Conversation
<1>2. CASE i = Len(c)
  BY <1>1, <1>2
<1>3. CASE i # Len(c)
  <2>1. i \in 1..(Len(c) - 1) /\ i + 1 \in 1..Len(c)
    BY <1>1, <1>3
  <2> QED BY <1>1, <2>1 DEF Conversation
<1> QED BY <1>2, <1>3

(* A message without calls is answered by one without results.               *)
LEMMA NothingAsked == Answering(<<>>, <<>>)
BY DEF Answering

(* Each call of the turn that was cut short gets one answer, its own.        *)
LEMMA AnswersAnswer ==
  ASSUME NEW calls \in Seq(Calls), NEW events
  PROVE  Answering(calls, Answers(calls, events))
<1>1. DOMAIN calls = 1..Len(calls) /\ Len(calls) \in Nat
  OBVIOUS
<1>2. DOMAIN Answers(calls, events) = 1..Len(calls)
      /\ Answers(calls, events) = [k \in 1..Len(calls) |->
                                     Answer(calls[k], OutcomeOf(events, calls, k))]
  BY <1>1 DEF Answers
<1>3. Len(Answers(calls, events)) = Len(calls)
  BY <1>1, <1>2
<1> QED BY <1>1, <1>2, <1>3 DEF Answering, Answer

(* The conversation a resume starts from, in its two cases.                  *)
LEMMA ReconciledCases ==
  ASSUME Typed, NEW r \in Attempts
  PROVE  LET conversation == record[r].messages
             calls == conversation[Len(conversation)].calls
             closing_message == Message("user", <<>>, Answers(calls, log[r]))
         IN  /\ conversation \in Seq(MessageType) /\ log[r] \in Seq(EventType)
             /\ \/ /\ ~EndsInCalls(conversation, log[r])
                   /\ Reconciled(r) = conversation
                \/ /\ EndsInCalls(conversation, log[r])
                   /\ conversation # <<>> /\ calls \in Seq(Calls)
                   /\ closing_message \in MessageType
                   /\ Reconciled(r) = Append(conversation, closing_message)
<1> DEFINE conversation == record[r].messages
           calls == conversation[Len(conversation)].calls
           closing_message == Message("user", <<>>, Answers(calls, log[r]))
<1>1. conversation \in Seq(MessageType) /\ log[r] \in Seq(EventType)
  BY DEF Typed, TypeOK, StoreType, RecordType
<1>2. CASE ~EndsInCalls(conversation, log[r])
  BY <1>1, <1>2 DEF Reconciled
<1>3. CASE EndsInCalls(conversation, log[r])
  <2>1. conversation # <<>>
    BY <1>3 DEF EndsInCalls
  <2>2. conversation[Len(conversation)] \in MessageType
    <3> HIDE DEF conversation
    <3> QED BY <1>1, <2>1
  <2>3. calls \in Seq(Calls)
    BY <2>2 DEF MessageType
  <2>4. Reconciled(r) = Append(conversation, closing_message)
    BY <1>3 DEF Reconciled
  <2>5. Reconciled(r) \in Seq(MessageType)
    BY ReconciledType DEF Typed
  <2>6. closing_message \in MessageType
    <3>1. Reconciled(r)[Len(conversation) + 1] = closing_message
          /\ Len(Reconciled(r)) = Len(conversation) + 1
      <4> HIDE DEF conversation, closing_message
      <4> QED BY <1>1, <2>4
    <3>2. Len(conversation) + 1 \in 1..Len(Reconciled(r))
      <4> HIDE DEF conversation
      <4> QED BY <1>1, <3>1
    <3> QED BY <2>5, <3>1, <3>2, ElementOfSeq
  <2> QED BY <1>1, <1>3, <2>1, <2>3, <2>4, <2>6
<1> QED BY <1>2, <1>3

(* What a resume starts from is a conversation.                              *)
LEMMA ReconciledPaired ==
  ASSUME Typed, NEW r \in Attempts, Conversation(record[r].messages)
  PROVE  Conversation(Reconciled(r))
<1> DEFINE conversation == record[r].messages
           calls == conversation[Len(conversation)].calls
           closing_message == Message("user", <<>>, Answers(calls, log[r]))
<1>1. conversation \in Seq(MessageType)
  BY ReconciledCases
<1>2. CASE Reconciled(r) = conversation
  BY <1>2
<1>3. CASE /\ calls \in Seq(Calls) /\ closing_message \in MessageType
           /\ Reconciled(r) = Append(conversation, closing_message)
  <2>1. Answering(calls, closing_message.results)
    BY <1>3, AnswersAnswer DEF Message
  <2> HIDE DEF closing_message
  <2>2. Conversation(Append(conversation, closing_message))
    BY <1>1, <1>3, <2>1, ConversationGrows
  <2> QED BY <1>3, <2>2
<1> QED BY <1>2, <1>3, ReconciledCases

(* The results of a complete batch answer the message that asked.            *)
LEMMA BatchAnswers ==
  ASSUME Typed, InBatch, BatchDone
  PROVE  Answering(LastMessage.calls, Message("user", <<>>, results).results)
<1>1. LastMessage.calls \in Seq(Calls) /\ results \in Seq(AnswerType)
  BY LastMessageType DEF BatchDone, Typed, AtWork, TypeOK, TalkType, AnswerType
<1>2. \A k \in DOMAIN results :
        results[k] = Answer(LastMessage.calls[k], LastMessage.calls[k])
  BY DEF BatchDone, InBatch, AtBatch
<1>3. DOMAIN results = DOMAIN LastMessage.calls /\ Len(results) = Len(LastMessage.calls)
  BY <1>1 DEF BatchDone
<1>4. \A k \in DOMAIN LastMessage.calls : results[k].call = LastMessage.calls[k]
  <2> TAKE k \in DOMAIN LastMessage.calls
  <2>1. results[k] = Answer(LastMessage.calls[k], LastMessage.calls[k])
    BY <1>2, <1>3
  <2> QED BY <2>1 DEF Answer
<1>5. Message("user", <<>>, results).results = results
  BY DEF Message
<1> QED BY <1>3, <1>4, <1>5 DEF Answering

(* Whatever is sent or saved, every message but the last has its answer.     *)
LEMMA ConversationsStep == Typed /\ InBatch /\ Conversations /\ [Next]_vars => Conversations'
<1> SUFFICES ASSUME Typed, InBatch, Conversations, [Next]_vars PROVE Conversations'
  OBVIOUS
<1> USE DEF store, talk
<1>1. messages \in Seq(MessageType) /\ Conversation(messages)
  BY DEF Typed, TypeOK, TalkType, Conversations
<1>2. Conversation(messages')
  <2>1. CASE ModelAnswers
    <3>1. PICK n \in 0..MaxCalls :
            messages' = Append(messages,
                          Message("assistant", [i \in 1..n |-> <<billed + 1, i>>], <<>>))
      BY <2>1 DEF ModelAnswers
    <3> DEFINE turn == Message("assistant", [i \in 1..n |-> <<billed + 1, i>>], <<>>)
    <3>2. turn \in MessageType
      <4>1. billed + 1 \in 1..MaxTurns
        BY <2>1 DEF ModelAnswers, Typed, TypeOK, ObservedType
      <4>2. [i \in 1..n |-> <<billed + 1, i>>] \in Seq(Calls)
        BY <4>1 DEF Calls
      <4> QED BY <4>2, Constructors
    <3>3. Answering(LastMessage.calls, turn.results)
      BY <2>1, NothingAsked DEF ModelAnswers, InBatch, Message
    <3> HIDE DEF turn
    <3> QED BY <1>1, <3>1, <3>2, <3>3, ConversationGrows DEF turn, LastMessage
  <2>2. CASE StopNudge
    <3>1. Answering(LastMessage.calls, Nudge.results)
      BY <2>2, NothingAsked DEF StopNudge, InBatch, Nudge, Message
    <3> QED BY <1>1, <2>2, <3>1, ConversationGrows, Constructors DEF StopNudge, LastMessage
  <2>3. CASE BatchDone
    <3> DEFINE answer == Message("user", <<>>, results)
    <3>1. answer \in MessageType
      BY Constructors DEF Typed, TypeOK, TalkType, AnswerType
    <3>2. Answering(LastMessage.calls, answer.results) /\ messages' = Append(messages, answer)
      BY <2>3, BatchAnswers DEF BatchDone
    <3> HIDE DEF answer
    <3> QED BY <1>1, <3>1, <3>2, ConversationGrows DEF LastMessage
  <2>4. CASE ResumeCrash
    BY <2>4, ReconciledPaired DEF ResumeCrash, Begin, Conversations
  <2>5. CASE Crash \/ ResumeFresh \/ Redispatch
    BY <2>5 DEF Crash, ResumeFresh, Redispatch, Begin, Conversation
  <2>6. CASE UNCHANGED messages
    BY <1>1, <2>6 DEF Conversation
  <2> QED BY <2>1, <2>2, <2>3, <2>4, <2>5, <2>6
          DEF Next, Turn, Batch, Terminal, Restart, Rest, AppendModelCall, AppendBudgetTick,
              SaveTurn, HandleFinish, StartCall, RunCall, WithholdCall, LogResult,
              SaveResults, GiveUp, FinishRun, FinishDiscipline, AppendDisposition,
              SaveDisposition, Close, vars
<1>3. ASSUME NEW r \in Attempts PROVE Conversation(record'[r].messages)
  BY <1>2, <1>3, RecordSteps DEF Conversations
<1> QED BY <1>2, <1>3 DEF Conversations, Conversation

(* What every conversation of a run satisfies at every step.                 *)
ConversationInvariant == InBatch /\ SavedTurn /\ Conversations

(* The start.                                                                *)
LEMMA ConversationInit == Init => ConversationInvariant
BY DEF Init, ConversationInvariant, InBatch, SavedTurn, Conversations, Conversation,
       AtBatch, BeforeBatch, LastMessage, Seed, Message, NoRecord

(* The conversations stay as they should, however the process stops.         *)
LEMMA ConversationAlways == Spec => []ConversationInvariant
<1> QED BY TypedAlways, ConversationInit, InBatchStep, SavedTurnStep, ConversationsStep, PTL
        DEF Spec, ConversationInvariant

(* A request has an answer to every call in it and no other: a turn cut      *)
(* short by a crash is answered from the log on resume, every other turn by  *)
(* its batch, and nothing in between asks the model.                         *)
THEOREM RequestsPairedCorrect == Spec => []RequestsPaired
<1>1. Typed /\ ConversationInvariant => RequestsPaired
  <2> SUFFICES ASSUME Typed, ConversationInvariant, pc = "ask", NEW i \in DOMAIN messages
               PROVE  Answering(messages[i].calls,
                        IF i = Len(messages) THEN <<>> ELSE messages[i + 1].results)
    BY DEF RequestsPaired, Answering
  <2>1. messages \in Seq(MessageType) /\ DOMAIN messages = 1..Len(messages)
        /\ Len(messages) \in Nat
    BY DEF Typed, TypeOK, TalkType
  <2>2. CASE i = Len(messages)
    BY <2>2, NothingAsked DEF ConversationInvariant, InBatch, LastMessage
  <2>3. CASE i # Len(messages)
    BY <2>1, <2>3 DEF ConversationInvariant, Conversations, Conversation
  <2> QED BY <2>2, <2>3
<1> QED BY <1>1, TypedAlways, ConversationAlways, PTL

-----------------------------------------------------------------------------
(* The log is paired.                                                        *)

EndsOpen(r) == log[r] # <<>> /\ log[r][Len(log[r])].kind = "started"

(* A Started is followed by its Result, unless it is the last event of the   *)
(* log; then its call is under way or was cut short, and either way the      *)
(* snapshot ends in the turn that made it.                                   *)
LogsMatched ==
  \A r \in Attempts :
    /\ \A i \in 1..(Len(log[r]) - 1) : log[r][i].kind = "started" =>
         log[r][i + 1] \in {ToolCallResult(log[r][i].call), ToolCallResult(Interrupted)}
    /\ EndsOpen(r) => /\ EndsInCalls(record[r].messages, log[r])
                      /\ r = rid => pc \in {"run", "result", "down"}

(* The call being run is the one the log announced last.                     *)
UnderWay ==
  pc \in {"run", "result"} =>
    log[rid] # <<>> /\ log[rid][Len(log[rid])] = ToolCallStarted(NextCall)

(* How a step writes to the logs: one event at the end of one of them.       *)
LEMMA LogSteps ==
  ASSUME Typed, [Next]_vars
  PROVE  \/ UNCHANGED log /\ ~StartCall /\ ~LogResult
         \/ /\ AppendModelCall \/ AppendBudgetTick \/ AppendDisposition
            /\ \E event \in {ModelCall, BudgetTick, DispositionSet} : AppendEvent(event)
         \/ StartCall /\ NextCall \in Calls /\ AppendEvent(ToolCallStarted(NextCall))
         \/ LogResult /\ NextCall \in Calls /\ AppendEvent(ToolCallResult(NextCall))
         \/ /\ ResumeCrash
            /\ \E r \in Attempts :
                 /\ EndsInCalls(record[r].messages, log[r]) /\ Unmatched(log[r])
                 /\ log' = [log EXCEPT ![r] = Append(@, ToolCallResult(Interrupted))]
<1> USE DEF store
<1>1. CASE AppendModelCall \/ AppendBudgetTick \/ AppendDisposition
  BY <1>1 DEF AppendModelCall, AppendBudgetTick, AppendDisposition
<1>2. CASE StartCall \/ LogResult
  BY <1>2, NextCallType DEF StartCall, LogResult, BatchOpen, Typed, AtWork
<1>3. CASE ResumeCrash
  <2>1. PICK r \in Attempts : log' = RepairedLog(r)
    BY <1>3 DEF ResumeCrash
  <2>2. CASE EndsInCalls(record[r].messages, log[r]) /\ Unmatched(log[r])
    <3>1. log' = [log EXCEPT ![r] = Append(@, ToolCallResult(Interrupted))]
      BY <2>1, <2>2 DEF RepairedLog
    <3> QED BY <1>3, <2>2, <3>1
  <2>3. CASE ~(EndsInCalls(record[r].messages, log[r]) /\ Unmatched(log[r]))
    <3>1. UNCHANGED log
      BY <2>1, <2>3 DEF RepairedLog
    <3>2. ~StartCall /\ ~LogResult
      BY <1>3 DEF ResumeCrash, StartCall, LogResult, BatchOpen
    <3> QED BY <3>1, <3>2
  <2> QED BY <2>2, <2>3
<1>4. CASE UNCHANGED log /\ ~StartCall /\ ~LogResult
  BY <1>4
<1> QED BY <1>1, <1>2, <1>3, <1>4
        DEF Next, Turn, Batch, Terminal, Restart, Rest, ModelAnswers, SaveTurn, StopNudge,
            HandleFinish, RunCall, WithholdCall, SaveResults, GiveUp, FinishRun,
            FinishDiscipline, SaveDisposition, Close, Crash, ResumeFresh, Redispatch, vars

(* The events of a log that was appended to.                                 *)
LEMMA Appended ==
  ASSUME Typed, NEW q \in Attempts, NEW event \in EventType,
         log' = [log EXCEPT ![q] = Append(@, event)]
  PROVE  /\ \A r \in Attempts \ {q} : log'[r] = log[r]
         /\ log'[q] = Append(log[q], event) /\ log[q] \in Seq(EventType)
         /\ Len(log'[q]) = Len(log[q]) + 1 /\ Len(log[q]) \in Nat
         /\ DOMAIN log'[q] = 1..(Len(log[q]) + 1) /\ DOMAIN log[q] = 1..Len(log[q])
         /\ \A i \in 1..Len(log[q]) : log'[q][i] = log[q][i]
         /\ log'[q][Len(log[q]) + 1] = event /\ log'[q] # <<>>
<1>1. log \in [Attempts -> Seq(EventType)]
  BY DEF Typed, TypeOK, StoreType
<1>2. log'[q] = Append(log[q], event) /\ log[q] \in Seq(EventType)
      /\ \A r \in Attempts \ {q} : log'[r] = log[r]
  BY <1>1
<1> QED BY <1>2, Grown

(* The call under way stays the one announced.                               *)
LEMMA UnderWayStep == Typed /\ UnderWay /\ [Next]_vars => UnderWay'
<1> SUFFICES ASSUME Typed, UnderWay, [Next]_vars, pc' \in {"run", "result"}
             PROVE  (log[rid] # <<>> /\ log[rid][Len(log[rid])] = ToolCallStarted(NextCall))'
  BY DEF UnderWay
<1> USE DEF store, talk
<1>1. CASE StartCall
  <2>1. rid \in Attempts /\ NextCall \in Calls
    BY <1>1, NextCallType DEF StartCall, BatchOpen, Typed, AtWork, TypeOK, ControlType
  <2>2. /\ log'[rid] # <<>> /\ Len(log'[rid]) = Len(log[rid]) + 1
        /\ log'[rid][Len(log[rid]) + 1] = ToolCallStarted(NextCall)
    BY <1>1, <2>1, Appended, Constructors DEF StartCall, AppendEvent
  <2>3. rid' = rid /\ NextCall' = NextCall
    BY <1>1 DEF StartCall, NextCall, LastMessage
  <2> QED BY <2>2, <2>3 DEF ToolCallStarted, Event
<1>2. CASE RunCall \/ WithholdCall \/ UNCHANGED vars
  <2>1. pc \in {"run", "result"} /\ UNCHANGED <<log, rid, messages, results>>
    BY <1>2 DEF RunCall, WithholdCall, vars
  <2> QED BY <2>1 DEF UnderWay, NextCall, LastMessage, ToolCallStarted, Event
<1>3. StartCall \/ RunCall \/ WithholdCall \/ UNCHANGED vars
  BY DEF Next, Turn, Batch, Terminal, Restart, Rest, ModelAnswers, AppendModelCall,
         AppendBudgetTick, SaveTurn, StopNudge, HandleFinish, BatchOpen,
         LogResult, SaveResults, GiveUp, FinishRun, FinishDiscipline,
         AppendDisposition, SaveDisposition, Close, Crash, ResumeCrash, ResumeFresh,
         Redispatch, Begin
<1> QED BY <1>1, <1>2, <1>3

(* An event may follow on a log whose last one is not an open Started, or as *)
(* the Result of that one.                                                   *)
LEMMA MatchedGrows ==
  ASSUME NEW events \in Seq(EventType), NEW event \in EventType,
         \A i \in 1..(Len(events) - 1) : events[i].kind = "started" =>
           events[i + 1] \in {ToolCallResult(events[i].call), ToolCallResult(Interrupted)},
         \/ events = <<>> \/ events[Len(events)].kind # "started"
         \/ event \in {ToolCallResult(events[Len(events)].call), ToolCallResult(Interrupted)},
         NEW i \in 1..Len(events), Append(events, event)[i].kind = "started"
  PROVE  Append(events, event)[i + 1] \in {ToolCallResult(Append(events, event)[i].call),
                                           ToolCallResult(Interrupted)}
<1>1. /\ Len(events) \in Nat
      /\ \A j \in 1..Len(events) : Append(events, event)[j] = events[j]
      /\ Append(events, event)[Len(events) + 1] = event
  BY Grown
<1>2. CASE i = Len(events)
  BY <1>1, <1>2
<1>3. CASE i # Len(events)
  <2>1. i \in 1..(Len(events) - 1) /\ i + 1 \in 1..Len(events)
    BY <1>1, <1>3
  <2> QED BY <1>1, <2>1
<1> QED BY <1>2, <1>3

(* A Started at the very end of a log is unmatched.                          *)
LEMMA OpenUnmatched ==
  ASSUME Typed, NEW r \in Attempts, EndsOpen(r)
  PROVE  Unmatched(log[r])
<1>1. log[r] \in Seq(EventType) /\ log[r] # <<>> /\ DOMAIN log[r] = 1..Len(log[r])
      /\ Len(log[r]) \in Nat /\ log[r][Len(log[r])].kind = "started"
  BY DEF EndsOpen, Typed, TypeOK, StoreType
<1>2. Len(log[r]) \in DOMAIN log[r]
  BY <1>1
<1>3. \A j \in DOMAIN log[r] : log[r][j].kind = "model_call" => j < Len(log[r])
  <2> TAKE j \in DOMAIN log[r]
  <2>1. CASE j = Len(log[r])
    BY <1>1, <2>1
  <2>2. CASE j # Len(log[r])
    BY <1>1, <2>2
  <2> QED BY <2>1, <2>2
<1>4. Len(log[r]) \in ToolTail(log[r])
  BY <1>1, <1>2, <1>3 DEF ToolTail, ToolEvent
<1>5. \A j \in ToolTail(log[r]) : ~Pair(log[r], ToolTail(log[r]), Len(log[r]), j)
  <2>1. \A j \in ToolTail(log[r]) : j \in 1..Len(log[r])
    BY <1>1 DEF ToolTail
  <2> QED BY <1>1, <2>1 DEF Pair
<1> QED BY <1>1, <1>4, <1>5 DEF Unmatched

(* An event appended to the log of the attempt at work.                      *)
LEMMA MatchedAppend ==
  ASSUME Typed, LogsMatched, NEW q \in Attempts, NEW event \in EventType,
         log' = [log EXCEPT ![q] = Append(@, event)],
         \/ ~EndsOpen(q) \/ event = ToolCallResult(Interrupted)
         \/ event = ToolCallResult(log[q][Len(log[q])].call),
         NEW r \in Attempts
  PROVE  /\ \A i \in 1..(Len(log'[r]) - 1) : log'[r][i].kind = "started" =>
              log'[r][i + 1] \in {ToolCallResult(log'[r][i].call), ToolCallResult(Interrupted)}
         /\ EndsOpen(r)' => \/ r = q /\ event.kind = "started"
                            \/ r # q /\ EndsOpen(r)
<1>1. CASE r # q
  BY <1>1, Appended DEF LogsMatched, EndsOpen
<1>2. CASE r = q
  <2>1. /\ log'[q] = Append(log[q], event) /\ log[q] \in Seq(EventType)
        /\ Len(log'[q]) = Len(log[q]) + 1 /\ Len(log[q]) \in Nat
        /\ log'[q][Len(log[q]) + 1] = event
    BY Appended
  <2>2. \A i \in 1..(Len(log[q]) - 1) : log[q][i].kind = "started" =>
          log[q][i + 1] \in {ToolCallResult(log[q][i].call), ToolCallResult(Interrupted)}
    BY DEF LogsMatched
  <2>3. \/ log[q] = <<>> \/ log[q][Len(log[q])].kind # "started"
        \/ event \in {ToolCallResult(log[q][Len(log[q])].call), ToolCallResult(Interrupted)}
    BY DEF EndsOpen
  <2>4. \A i \in 1..Len(log[q]) : log'[q][i].kind = "started" =>
          log'[q][i + 1] \in {ToolCallResult(log'[q][i].call), ToolCallResult(Interrupted)}
    BY <2>1, <2>2, <2>3, MatchedGrows
  <2>5. Len(log'[q]) - 1 = Len(log[q])
    BY <2>1
  <2>6. EndsOpen(q)' => event.kind = "started"
    BY <2>1 DEF EndsOpen
  <2> QED BY <1>2, <2>4, <2>5, <2>6
<1> QED BY <1>1, <1>2

(* No step leaves a Started behind without its Result, but for a crash.      *)
LEMMA LogsMatchedStep ==
  Typed /\ ConversationInvariant /\ UnderWay /\ LogsMatched /\ [Next]_vars => LogsMatched'
<1> SUFFICES ASSUME Typed, ConversationInvariant, UnderWay, LogsMatched, [Next]_vars,
                    NEW r \in Attempts
             PROVE  /\ \A i \in 1..(Len(log'[r]) - 1) : log'[r][i].kind = "started" =>
                         log'[r][i + 1] \in {ToolCallResult(log'[r][i].call),
                                             ToolCallResult(Interrupted)}
                    /\ EndsOpen(r)' =>
                         /\ EndsInCalls(record'[r].messages, log'[r])
                         /\ r = rid' => pc' \in {"run", "result", "down"}
  BY DEF LogsMatched, ToolCallResult, Event, Interrupted
<1> USE DEF store, talk
<1>1. rid \in Attempts
  BY DEF Typed, TypeOK, ControlType
<1>2. CASE UNCHANGED log /\ ~StartCall /\ ~LogResult
  <2>1. EndsOpen(r)' = EndsOpen(r)
    BY <1>2 DEF EndsOpen
  <2>2. ASSUME EndsOpen(r)
        PROVE  /\ EndsInCalls(record'[r].messages, log'[r])
               /\ r = rid' => pc' \in {"run", "result", "down"}
    <3>1. EndsInCalls(record[r].messages, log[r])
          /\ (r = rid => pc \in {"run", "result", "down"})
      BY <2>2 DEF LogsMatched
    <3>2. record'[r] = record[r]
      BY <3>1, RecordSteps DEF SaveTurn, SaveResults, BatchDone, SaveDisposition
    <3>3. r = rid' => ~ResumeCrash /\ ~ResumeFresh /\ ~Redispatch
      <4>1. HasRecord(r)
        BY <3>1 DEF EndsInCalls, HasRecord, NoRecord
      <4>2. ASSUME r = rid', ResumeCrash PROVE FALSE
        <5>1. log' = RepairedLog(r)
          BY <4>2 DEF ResumeCrash
        <5>2. log' = [log EXCEPT ![r] = Append(@, ToolCallResult(Interrupted))]
          BY <2>2, <3>1, <5>1, OpenUnmatched DEF RepairedLog
        <5>3. Len(log'[r]) = Len(log[r]) + 1 /\ Len(log[r]) \in Nat
          BY <5>2, Appended, Constructors
        <5> QED BY <1>2, <5>3
      <4>3. ASSUME r = rid', ResumeFresh PROVE FALSE
        <5>1. PICK q \in Attempts : Latest(q) /\ rid' = q + 1
          BY <4>3 DEF ResumeFresh
        <5> QED BY <4>1, <4>3, <5>1 DEF Latest, Attempts
      <4>4. ASSUME r = rid', Redispatch PROVE FALSE
        BY <4>1, <4>4 DEF Redispatch
      <4> QED BY <4>2, <4>3, <4>4
    <3>4. r = rid' => pc' \in {"run", "result", "down"}
      <4>1. SUFFICES ASSUME r = rid' PROVE pc' \in {"run", "result", "down"}
        OBVIOUS
      <4>2. CASE r = rid
        BY <1>2, <3>1, <3>3, <4>1, <4>2
           DEF Next, Turn, Batch, Terminal, Restart, Rest, ModelAnswers, AppendModelCall,
               AppendBudgetTick, SaveTurn, StopNudge, HandleFinish, BatchOpen, RunCall,
               WithholdCall, SaveResults, BatchDone, GiveUp, FinishRun, FinishDiscipline,
               AppendDisposition, SaveDisposition, Crash, vars
      <4>3. CASE r # rid
        BY <3>3, <4>1, <4>3
           DEF Next, Turn, Batch, Terminal, Restart, Rest, ModelAnswers,
               AppendModelCall, AppendBudgetTick, SaveTurn, StopNudge, HandleFinish,
               StartCall, RunCall, WithholdCall, LogResult, SaveResults, GiveUp, FinishRun,
               FinishDiscipline, Close, AppendDisposition, SaveDisposition, Crash, vars
      <4> QED BY <4>2, <4>3
    <3> QED BY <1>2, <3>1, <3>2, <3>4 DEF EndsInCalls
  <2> QED BY <1>2, <2>1, <2>2 DEF LogsMatched
<1>3. CASE AppendModelCall \/ AppendBudgetTick \/ AppendDisposition
  <2>1. PICK event \in {ModelCall, BudgetTick, DispositionSet} : AppendEvent(event)
    BY <1>3 DEF AppendModelCall, AppendBudgetTick, AppendDisposition
  <2>2. event \in EventType /\ event.kind # "started"
    BY <2>1, Constructors DEF ModelCall, BudgetTick, DispositionSet, Event
  <2>3. ~EndsOpen(rid)
    BY <1>1, <1>3 DEF LogsMatched, AppendModelCall, AppendBudgetTick, AppendDisposition
  <2>4. rid' = rid /\ record' = record
    BY <1>3 DEF AppendModelCall, AppendBudgetTick, AppendDisposition
  <2> QED BY <1>1, <2>1, <2>2, <2>3, <2>4, MatchedAppend
          DEF AppendEvent, LogsMatched, EndsInCalls
<1>4. CASE StartCall /\ NextCall \in Calls /\ AppendEvent(ToolCallStarted(NextCall))
  <2>1. ~EndsOpen(rid)
    BY <1>1, <1>4 DEF LogsMatched, StartCall, BatchOpen
  <2>2. rid' = rid /\ record' = record /\ pc' = "run"
    BY <1>4 DEF StartCall
  <2>3. EndsInCalls(record[rid].messages, log[rid])
    BY <1>4 DEF ConversationInvariant, SavedTurn, AtBatch, StartCall, BatchOpen, EndsInCalls,
                LastMessage, Typed, AtWork
  <2>4. ToolCallStarted(NextCall) \in EventType
    BY <1>4, Constructors
  <2> HIDE DEF NextCall, ToolCallStarted
  <2> QED BY <1>1, <1>4, <2>1, <2>2, <2>3, <2>4, MatchedAppend
          DEF AppendEvent, LogsMatched, EndsInCalls
<1>5. CASE LogResult /\ NextCall \in Calls /\ AppendEvent(ToolCallResult(NextCall))
  <2>1. log[rid][Len(log[rid])] = ToolCallStarted(NextCall)
    BY <1>5 DEF LogResult, UnderWay
  <2>2. log[rid][Len(log[rid])].call = NextCall
    BY <2>1 DEF ToolCallStarted, Event
  <2>3. rid' = rid /\ record' = record
    BY <1>5 DEF LogResult
  <2>4. ToolCallResult(NextCall) \in EventType /\ ToolCallResult(NextCall).kind # "started"
    BY <1>5, Constructors DEF ToolCallResult, Event
  <2> HIDE DEF NextCall, ToolCallResult
  <2> QED BY <1>1, <1>5, <2>2, <2>3, <2>4, MatchedAppend
          DEF AppendEvent, LogsMatched, EndsInCalls
<1>6. ASSUME ResumeCrash, NEW q \in Attempts,
             EndsInCalls(record[q].messages, log[q]), Unmatched(log[q]),
             log' = [log EXCEPT ![q] = Append(@, ToolCallResult(Interrupted))]
      PROVE  /\ \A i \in 1..(Len(log'[r]) - 1) : log'[r][i].kind = "started" =>
                  log'[r][i + 1] \in {ToolCallResult(log'[r][i].call),
                                      ToolCallResult(Interrupted)}
             /\ EndsOpen(r)' =>
                  /\ EndsInCalls(record'[r].messages, log'[r])
                  /\ r = rid' => pc' \in {"run", "result", "down"}
  <2>1. ToolCallResult(Interrupted) \in EventType
        /\ ToolCallResult(Interrupted).kind # "started"
    BY Constructors DEF ToolCallResult, Event
  <2>2. record' = record /\ rid' = q
    <3>1. PICK p \in Attempts : log' = RepairedLog(p) /\ rid' = p /\ record' = record
      BY <1>6 DEF ResumeCrash, Begin
    <3>2. p = q
      <4>1. SUFFICES ASSUME p # q PROVE FALSE
        OBVIOUS
      <4>2. log'[q] = log[q]
        BY <3>1, <4>1, Appended, Constructors DEF RepairedLog
      <4>3. Len(log'[q]) = Len(log[q]) + 1 /\ Len(log[q]) \in Nat
        BY <1>6, <2>1, Appended
      <4> QED BY <4>2, <4>3
    <3> QED BY <3>1, <3>2
  <2> QED BY <1>6, <2>1, <2>2, MatchedAppend DEF LogsMatched, EndsInCalls
<1> QED BY <1>2, <1>3, <1>4, <1>5, <1>6, LogSteps

(* What every log of a run satisfies at every step.                          *)
LEMMA LogsAlways == Spec => [](UnderWay /\ LogsMatched)
<1>1. Init => UnderWay /\ LogsMatched
  BY DEF Init, UnderWay, LogsMatched, EndsOpen
<1> QED BY <1>1, TypedAlways, ConversationAlways, UnderWayStep, LogsMatchedStep, PTL DEF Spec

(* Whenever a request is sent every Started of the log has its Result right  *)
(* after it: the only open one is that of the call a crash cut short, the    *)
(* snapshot then ends in its turn, and a resume of that attempt closes it.   *)
THEOREM LogPairedCorrect == Spec => []LogPaired
<1>1. Typed /\ LogsMatched => LogPaired
  <2> SUFFICES ASSUME Typed, LogsMatched, pc = "ask",
                      NEW i \in DOMAIN log[rid], log[rid][i].kind = "started"
               PROVE  /\ i < Len(log[rid])
                      /\ log[rid][i + 1] \in {ToolCallResult(log[rid][i].call),
                                              ToolCallResult(Interrupted)}
    BY DEF LogPaired
  <2>1. rid \in Attempts /\ log[rid] \in Seq(EventType)
    BY DEF Typed, TypeOK, ControlType, StoreType
  <2>2. DOMAIN log[rid] = 1..Len(log[rid]) /\ Len(log[rid]) \in Nat
    BY <2>1
  <2>3. ~EndsOpen(rid)
    BY <2>1 DEF LogsMatched
  <2>4. i # Len(log[rid])
    BY <2>2, <2>3 DEF EndsOpen
  <2>5. i \in 1..(Len(log[rid]) - 1)
    BY <2>2, <2>4
  <2> QED BY <2>1, <2>5 DEF LogsMatched
<1> QED BY <1>1, TypedAlways, LogsAlways, PTL

-----------------------------------------------------------------------------
(* Every turn makes calls that were never made before.                       *)

(* The calls and the answers of a conversation are of the first n turns.     *)
OfTurns(message, n) ==
  /\ \A k \in DOMAIN message.calls : message.calls[k][1] <= n
  /\ \A k \in DOMAIN message.results : message.results[k].call[1] <= n
AllOfTurns(conversation, n) == \A i \in DOMAIN conversation : OfTurns(conversation[i], n)

(* Nothing said, saved or logged is about a turn that was not billed.        *)
Past ==
  /\ AllOfTurns(messages, billed)
  /\ \A r \in Attempts :
       /\ AllOfTurns(record[r].messages, billed)
       /\ \A i \in DOMAIN log[r] : log[r][i].call[1] <= billed

Unanswered(conversation, call) ==
  \A i \in DOMAIN conversation : \A k \in DOMAIN conversation[i].results :
    conversation[i].results[k].call # call
Unlogged(events, call, n) == \A i \in 1..n : events[i].call # call

AtTurn == pc \in {"modelcall", "tick", "save"} \cup {"calls", "run", "result"}

(* The calls of the turn at hand differ, nothing in the conversation answers *)
(* them, and those still to be made are not on the log, but for the Started  *)
(* of the one under way.                                                     *)
Fresh ==
  AtTurn =>
    /\ \A k, l \in DOMAIN LastMessage.calls :
         LastMessage.calls[k] = LastMessage.calls[l] => k = l
    /\ \A k \in DOMAIN LastMessage.calls : Unanswered(messages, LastMessage.calls[k])
    /\ \A k \in DOMAIN LastMessage.calls :
         k > Len(results) =>
           \/ Unlogged(log[rid], LastMessage.calls[k], Len(log[rid]))
           \/ /\ pc \in {"run", "result"} /\ k = Len(results) + 1
              /\ Unlogged(log[rid], LastMessage.calls[k], Len(log[rid]) - 1)

(* Turns are numbers.                                                        *)
LEMMA TurnNumbers ==
  /\ \A call \in Calls : call[1] \in 1..MaxTurns /\ call # Interrupted
  /\ \A call \in Outcomes : call[1] \in Int
  /\ Interrupted[1] = 0
<1>1. \A call \in Calls : call[1] \in 1..MaxTurns
  BY DEF Calls
<1>2. Interrupted[1] = 0
  BY DEF Interrupted
<1>3. \A call \in Calls : call # Interrupted
  BY <1>1, <1>2
<1> QED BY <1>1, <1>2, <1>3 DEF Outcomes

(* What is of the first turns is of any more.                                *)
LEMMA TurnsGrow ==
  ASSUME NEW c \in Seq(MessageType), NEW n \in Int, NEW m \in Int, n <= m,
         AllOfTurns(c, n)
  PROVE  AllOfTurns(c, m)
<1> SUFFICES ASSUME NEW i \in DOMAIN c PROVE OfTurns(c[i], m)
  BY DEF AllOfTurns
<1>1. c[i] \in MessageType /\ OfTurns(c[i], n)
  BY DEF AllOfTurns
<1>2. c[i].calls \in Seq(Calls) /\ c[i].results \in Seq(AnswerType)
  BY <1>1 DEF MessageType, AnswerType
<1>3. \A k \in DOMAIN c[i].calls : c[i].calls[k] \in Calls
  BY <1>2
<1>4. \A k \in DOMAIN c[i].results : c[i].results[k].call \in Calls
  <2> TAKE k \in DOMAIN c[i].results
  <2>1. c[i].results[k] \in AnswerType
    BY <1>2
  <2> QED BY <2>1 DEF AnswerType
<1>5. \A call \in Calls : call[1] \in Int /\ (call[1] <= n => call[1] <= m)
  BY TurnNumbers
<1>6. \A k \in DOMAIN c[i].calls : c[i].calls[k][1] <= m
  BY <1>1, <1>3, <1>5 DEF OfTurns
<1>7. \A k \in DOMAIN c[i].results : c[i].results[k].call[1] <= m
  BY <1>1, <1>4, <1>5 DEF OfTurns
<1> QED BY <1>6, <1>7 DEF OfTurns

(* A conversation that grows by a message of the first turns.                *)
LEMMA TurnsAppend ==
  ASSUME NEW c \in Seq(MessageType), NEW m \in MessageType, NEW n,
         AllOfTurns(c, n), OfTurns(m, n)
  PROVE  AllOfTurns(Append(c, m), n)
<1>1. /\ DOMAIN Append(c, m) = 1..(Len(c) + 1) /\ Len(c) \in Nat /\ DOMAIN c = 1..Len(c)
      /\ \A i \in 1..Len(c) : Append(c, m)[i] = c[i]
      /\ Append(c, m)[Len(c) + 1] = m
  BY Grown
<1> SUFFICES ASSUME NEW i \in 1..(Len(c) + 1) PROVE OfTurns(Append(c, m)[i], n)
  BY <1>1 DEF AllOfTurns
<1>2. CASE i = Len(c) + 1
  BY <1>1, <1>2
<1>3. CASE i \in 1..Len(c)
  BY <1>1, <1>3 DEF AllOfTurns
<1> QED BY <1>1, <1>2, <1>3

(* What answers calls of the first turns is of those turns.                  *)
LEMMA TurnsAnswered ==
  ASSUME NEW asked \in Seq(Calls), NEW answers \in Seq(AnswerType), NEW n,
         \A k \in DOMAIN asked : asked[k][1] <= n, Answering(asked, answers)
  PROVE  OfTurns(Message("user", <<>>, answers), n)
<1>1. DOMAIN answers = DOMAIN asked
  BY DEF Answering
<1>2. \A k \in DOMAIN answers : answers[k].call[1] <= n
  BY <1>1 DEF Answering
<1> QED BY <1>2 DEF OfTurns, Message

(* What a resume starts from is of the past, too.                            *)
LEMMA ReconciledPast ==
  ASSUME Typed, Past, NEW r \in Attempts
  PROVE  AllOfTurns(Reconciled(r), billed)
<1> DEFINE conversation == record[r].messages
           last == conversation[Len(conversation)]
           answers == Answers(last.calls, log[r])
           closing_message == Message("user", <<>>, answers)
<1>1. conversation \in Seq(MessageType) /\ AllOfTurns(conversation, billed)
  BY ReconciledCases DEF Past
<1>2. CASE Reconciled(r) = conversation
  BY <1>1, <1>2
<1>3. CASE /\ conversation # <<>>
           /\ last.calls \in Seq(Calls) /\ closing_message \in MessageType
           /\ Reconciled(r) = Append(conversation, closing_message)
  <2>1. Len(conversation) \in DOMAIN conversation
    <3> HIDE DEF conversation
    <3> QED BY <1>1, <1>3
  <2>2. \A k \in DOMAIN last.calls : last.calls[k][1] <= billed
    BY <1>1, <2>1 DEF AllOfTurns, OfTurns
  <2>3. Answering(last.calls, answers)
    BY <1>3, AnswersAnswer
  <2>4. answers \in Seq(AnswerType)
    BY <1>3 DEF Message, MessageType, AnswerType
  <2>5. OfTurns(closing_message, billed)
    BY <1>3, <2>2, <2>3, <2>4, TurnsAnswered
  <2> HIDE DEF closing_message
  <2> QED BY <1>1, <1>3, <2>5, TurnsAppend
<1> QED BY <1>2, <1>3, ReconciledCases

(* No step tells of a turn that was not billed.                              *)
LEMMA PastStep == Typed /\ ConversationInvariant /\ Past /\ [Next]_vars => Past'
<1> SUFFICES ASSUME Typed, ConversationInvariant, Past, [Next]_vars PROVE Past'
  OBVIOUS
<1> USE DEF store, talk, observed
<1>1. /\ messages \in Seq(MessageType) /\ AllOfTurns(messages, billed)
      /\ billed \in Int /\ results \in Seq(AnswerType)
  BY DEF Typed, TypeOK, TalkType, ObservedType, AnswerType, Past
<1>2. billed' \in Int /\ billed <= billed'
  <2>1. billed' = billed \/ billed' = billed + 1
    BY DEF Next, Turn, Batch, Terminal, Restart, Rest, ModelAnswers, AppendModelCall,
           AppendBudgetTick, SaveTurn, StopNudge, HandleFinish, StartCall, RunCall,
           WithholdCall, LogResult, SaveResults, GiveUp, FinishRun, FinishDiscipline, Close,
           AppendDisposition, SaveDisposition, Crash, ResumeCrash, ResumeFresh, Redispatch,
           Begin, vars
  <2> QED BY <1>1, <2>1
<1>3. AllOfTurns(messages', billed')
  <2>1. CASE ModelAnswers
    <3>1. PICK n \in 0..MaxCalls :
            messages' = Append(messages,
                          Message("assistant", [i \in 1..n |-> <<billed + 1, i>>], <<>>))
      BY <2>1 DEF ModelAnswers
    <3> DEFINE turn == Message("assistant", [i \in 1..n |-> <<billed + 1, i>>], <<>>)
    <3>2. turn \in MessageType
      <4>1. billed + 1 \in 1..MaxTurns
        BY <2>1 DEF ModelAnswers, Typed, TypeOK, ObservedType
      <4>2. [i \in 1..n |-> <<billed + 1, i>>] \in Seq(Calls)
        BY <4>1 DEF Calls
      <4> QED BY <4>2, Constructors
    <3>3. OfTurns(turn, billed')
      BY <1>1, <2>1 DEF ModelAnswers, OfTurns, Message
    <3> HIDE DEF turn
    <3> QED BY <1>1, <1>2, <3>1, <3>2, <3>3, TurnsGrow, TurnsAppend DEF turn
  <2>2. CASE StopNudge
    <3>1. OfTurns(Nudge, billed)
      BY DEF OfTurns, Nudge, Message
    <3>2. AllOfTurns(messages', billed)
      BY <1>1, <2>2, <3>1, TurnsAppend, Constructors DEF StopNudge
    <3> QED BY <2>2, <3>2 DEF StopNudge
  <2>3. CASE BatchDone /\ billed' = billed
    <3>1. Answering(LastMessage.calls, results) /\ LastMessage.calls \in Seq(Calls)
          /\ messages # <<>>
      BY <2>3, BatchAnswers, LastMessageType
         DEF ConversationInvariant, Message, BatchDone, Typed, AtWork
    <3>2. \A k \in DOMAIN LastMessage.calls : LastMessage.calls[k][1] <= billed
      <4>1. Len(messages) \in DOMAIN messages
        BY <1>1, <3>1
      <4> QED BY <1>1, <4>1 DEF LastMessage, AllOfTurns, OfTurns
    <3>3. OfTurns(Message("user", <<>>, results), billed)
      BY <1>1, <3>1, <3>2, TurnsAnswered
    <3>4. Message("user", <<>>, results) \in MessageType
      BY <1>1, Constructors
    <3> QED BY <1>1, <2>3, <3>3, <3>4, TurnsAppend DEF BatchDone
  <2>4. CASE ResumeCrash
    BY <2>4, ReconciledPast DEF ResumeCrash, Begin
  <2>5. CASE messages' = <<Seed>> \/ messages' = <<>>
    BY <2>5 DEF AllOfTurns, OfTurns, Seed, Message
  <2>6. CASE UNCHANGED <<messages, billed>>
    BY <1>1, <2>6
  <2> QED BY <2>1, <2>2, <2>3, <2>4, <2>5, <2>6
          DEF Next, Turn, Batch, Terminal, Restart, Rest, AppendModelCall, AppendBudgetTick,
              SaveTurn, HandleFinish, StartCall, RunCall, WithholdCall, LogResult,
              SaveResults, GiveUp, FinishRun, FinishDiscipline, AppendDisposition,
              SaveDisposition, Close, vars, Crash, ResumeFresh, Redispatch, Begin
<1>4. ASSUME NEW r \in Attempts PROVE AllOfTurns(record'[r].messages, billed')
  <2>1. record[r].messages \in Seq(MessageType) /\ AllOfTurns(record[r].messages, billed)
    BY ReconciledCases DEF Past
  <2> QED BY <1>1, <1>2, <1>3, <2>1, RecordSteps, TurnsGrow
<1>5. ASSUME NEW r \in Attempts, NEW i \in DOMAIN log'[r]
      PROVE  log'[r][i].call[1] <= billed'
  <2>1. \A j \in DOMAIN log[r] : log[r][j].call[1] <= billed'
    <3> TAKE j \in DOMAIN log[r]
    <3>1. log[r] \in Seq(EventType)
      BY DEF Typed, TypeOK, StoreType
    <3>2. log[r][j].call[1] \in Int
      <4>1. log[r][j] \in EventType
        BY <3>1
      <4> QED BY <4>1, TurnNumbers DEF EventType
    <3> QED BY <1>1, <1>2, <3>2 DEF Past
  <2>2. ASSUME NEW q \in Attempts, NEW event \in EventType, event.call[1] <= billed',
               log' = [log EXCEPT ![q] = Append(@, event)]
        PROVE  log'[r][i].call[1] <= billed'
    <3>1. CASE r # q
      BY <2>1, <2>2, <3>1, Appended
    <3>2. CASE r = q
      <4>1. /\ DOMAIN log'[q] = 1..(Len(log[q]) + 1) /\ DOMAIN log[q] = 1..Len(log[q])
            /\ \A j \in 1..Len(log[q]) : log'[q][j] = log[q][j]
            /\ log'[q][Len(log[q]) + 1] = event /\ Len(log[q]) \in Nat
        BY <2>2, Appended
      <4>2. i \in 1..Len(log[q]) \/ i = Len(log[q]) + 1
        BY <3>2, <4>1
      <4> QED BY <2>1, <2>2, <3>2, <4>1, <4>2
    <3> QED BY <3>1, <3>2
  <2>3. rid \in Attempts
    BY DEF Typed, TypeOK, ControlType
  <2>4. 0 <= billed'
    BY <1>2 DEF Typed, TypeOK, ObservedType
  <2>5. CASE AppendModelCall \/ AppendBudgetTick \/ AppendDisposition
    <3>1. PICK event \in {ModelCall, BudgetTick, DispositionSet} : AppendEvent(event)
      BY <2>5 DEF AppendModelCall, AppendBudgetTick, AppendDisposition
    <3>2. event \in EventType /\ event.call = Interrupted
      BY Constructors DEF ModelCall, BudgetTick, DispositionSet, Event
    <3> QED BY <2>2, <2>3, <2>4, <3>1, <3>2, TurnNumbers DEF AppendEvent
  <2>6. CASE StartCall \/ LogResult
    <3>1. NextCall \in Calls /\ NextCall[1] <= billed
      <4>1. LastMessage.calls \in Seq(Calls) /\ messages # <<>>
            /\ Len(results) < Len(LastMessage.calls)
        BY <2>6, LastMessageType DEF StartCall, LogResult, BatchOpen, Typed, AtWork
      <4>2. Len(messages) \in DOMAIN messages
        BY <1>1, <4>1
      <4>3. OfTurns(LastMessage, billed)
        BY <1>1, <4>2 DEF LastMessage, AllOfTurns
      <4>4. Len(results) + 1 \in DOMAIN LastMessage.calls
        BY <1>1, <4>1
      <4> QED BY <4>1, <4>3, <4>4, NextCallType DEF NextCall, OfTurns, Typed
    <3>2. \E event \in {ToolCallStarted(NextCall), ToolCallResult(NextCall)} :
             AppendEvent(event)
      BY <2>6 DEF StartCall, LogResult
    <3>3. \A event \in {ToolCallStarted(NextCall), ToolCallResult(NextCall)} :
             event \in EventType /\ event.call = NextCall
      BY <3>1, Constructors DEF ToolCallStarted, ToolCallResult, Event
    <3>4. NextCall[1] <= billed'
      BY <1>1, <1>2, <3>1, TurnNumbers
    <3> HIDE DEF NextCall, ToolCallStarted, ToolCallResult
    <3> QED BY <2>2, <2>3, <3>2, <3>3, <3>4 DEF AppendEvent
  <2>7. CASE \E q \in Attempts :
               log' = [log EXCEPT ![q] = Append(@, ToolCallResult(Interrupted))]
    <3>1. ToolCallResult(Interrupted) \in EventType
          /\ ToolCallResult(Interrupted).call = Interrupted
      BY Constructors DEF ToolCallResult, Event
    <3>2. ToolCallResult(Interrupted).call[1] <= billed'
      BY <2>4, <3>1, TurnNumbers
    <3>3. PICK q \in Attempts :
            log' = [log EXCEPT ![q] = Append(@, ToolCallResult(Interrupted))]
      BY <2>7
    <3> QED BY <2>2, <3>1, <3>2, <3>3
  <2>8. CASE UNCHANGED log
    BY <1>5, <2>1, <2>8
  <2> QED BY <2>5, <2>6, <2>7, <2>8, LogSteps
<1> QED BY <1>3, <1>4, <1>5 DEF Past

(* An answered call stays answered, an unanswered one is until its results   *)
(* are pushed.                                                               *)
LEMMA UnansweredAppend ==
  ASSUME NEW c \in Seq(MessageType), NEW m \in MessageType, NEW call,
         Unanswered(c, call), \A k \in DOMAIN m.results : m.results[k].call # call
  PROVE  Unanswered(Append(c, m), call)
<1>1. /\ DOMAIN Append(c, m) = 1..(Len(c) + 1) /\ Len(c) \in Nat /\ DOMAIN c = 1..Len(c)
      /\ \A i \in 1..Len(c) : Append(c, m)[i] = c[i]
      /\ Append(c, m)[Len(c) + 1] = m
  BY Grown
<1> SUFFICES ASSUME NEW i \in 1..(Len(c) + 1), NEW k \in DOMAIN Append(c, m)[i].results
             PROVE  Append(c, m)[i].results[k].call # call
  BY <1>1 DEF Unanswered
<1>2. CASE i = Len(c) + 1
  BY <1>1, <1>2
<1>3. CASE i \in 1..Len(c)
  BY <1>1, <1>3 DEF Unanswered
<1> QED BY <1>1, <1>2, <1>3

(* A log that grew by an event about another call.                           *)
LEMMA UnloggedAppend ==
  ASSUME NEW events \in Seq(EventType), NEW event \in EventType, NEW call,
         Unlogged(events, call, Len(events)), event.call # call
  PROVE  Unlogged(Append(events, event), call, Len(Append(events, event)))
<1>1. /\ Len(Append(events, event)) = Len(events) + 1 /\ Len(events) \in Nat
      /\ \A i \in 1..Len(events) : Append(events, event)[i] = events[i]
      /\ Append(events, event)[Len(events) + 1] = event
  BY Grown
<1> SUFFICES ASSUME NEW i \in 1..(Len(events) + 1)
             PROVE  Append(events, event)[i].call # call
  BY <1>1 DEF Unlogged
<1>2. CASE i = Len(events) + 1
  BY <1>1, <1>2
<1>3. CASE i \in 1..Len(events)
  BY <1>1, <1>3 DEF Unlogged
<1> QED BY <1>1, <1>2, <1>3

(* The calls of a turn.                                                      *)
LEMMA TurnCalls ==
  ASSUME Typed, pc # "down"
  PROVE  /\ LastMessage.calls \in Seq(Calls) /\ Len(LastMessage.calls) \in Nat
         /\ \A k \in DOMAIN LastMessage.calls : LastMessage.calls[k] \in Calls
         /\ DOMAIN LastMessage.calls = 1..Len(LastMessage.calls)
         /\ results \in Seq(AnswerType) /\ Len(results) \in Nat
         /\ rid \in Attempts /\ log[rid] \in Seq(EventType) /\ Len(log[rid]) \in Nat
<1>1. LastMessage.calls \in Seq(Calls)
  BY LastMessageType DEF Typed, AtWork
<1>2. results \in Seq(AnswerType) /\ rid \in Attempts /\ log[rid] \in Seq(EventType)
  BY DEF Typed, TypeOK, TalkType, ControlType, StoreType, AnswerType
<1>3. /\ Len(LastMessage.calls) \in Nat
      /\ \A k \in DOMAIN LastMessage.calls : LastMessage.calls[k] \in Calls
      /\ DOMAIN LastMessage.calls = 1..Len(LastMessage.calls)
  <2> DEFINE calls == LastMessage.calls
  <2>1. calls \in Seq(Calls)
    BY <1>1
  <2> HIDE DEF calls
  <2>2. Len(calls) \in Nat /\ (\A k \in DOMAIN calls : calls[k] \in Calls)
        /\ DOMAIN calls = 1..Len(calls)
    BY <2>1
  <2> QED BY <2>2 DEF calls
<1>4. Len(results) \in Nat /\ Len(log[rid]) \in Nat
  BY <1>2
<1> QED BY <1>1, <1>2, <1>3, <1>4

(* A new turn makes new calls, and each is answered once and logged once.    *)
LEMMA FreshStep ==
  Typed /\ ConversationInvariant /\ Past /\ Fresh /\ [Next]_vars => Fresh'
<1> SUFFICES ASSUME Typed, ConversationInvariant, Past, Fresh, [Next]_vars, AtTurn'
             PROVE  Fresh'
  BY DEF Fresh
<1> USE DEF store, talk
<1>1. CASE ModelAnswers
  <2>1. PICK n \in 0..MaxCalls :
          messages' = Append(messages,
                        Message("assistant", [i \in 1..n |-> <<billed + 1, i>>], <<>>))
    BY <1>1 DEF ModelAnswers
  <2> DEFINE calls == [i \in 1..n |-> <<billed + 1, i>>]
             turn == Message("assistant", calls, <<>>)
  <2>2. billed + 1 \in 1..MaxTurns /\ billed \in Int
    BY <1>1 DEF ModelAnswers, Typed, TypeOK, ObservedType
  <2>3. calls \in Seq(Calls)
    BY <2>2 DEF Calls
  <2>4. turn \in MessageType /\ messages' = Append(messages, turn)
        /\ turn.calls = calls /\ turn.results = <<>>
    BY <2>1, <2>3, Constructors DEF Message
  <2>5. LastMessage'.calls = calls
    <3> HIDE DEF turn, calls
    <3> QED BY <2>4, LastAppended
  <2>6. \A k \in DOMAIN calls : calls[k][1] = billed + 1
    OBVIOUS
  <2>7. \A k, l \in DOMAIN calls : calls[k] = calls[l] => k = l
    OBVIOUS
  <2>8. messages \in Seq(MessageType) /\ rid \in Attempts /\ log[rid] \in Seq(EventType)
    BY DEF Typed, TypeOK, TalkType, ControlType, StoreType
  <2>9. ASSUME NEW k \in DOMAIN calls PROVE Unanswered(messages', calls[k])
    <3>1. \A i \in DOMAIN messages : \A j \in DOMAIN messages[i].results :
            messages[i].results[j].call[1] <= billed
      BY DEF Past, AllOfTurns, OfTurns
    <3>2. Unanswered(messages, calls[k])
      <4> HIDE DEF calls
      <4>1. calls[k][1] = billed + 1
        BY <2>6
      <4>2. ASSUME NEW i \in DOMAIN messages, NEW j \in DOMAIN messages[i].results,
                   messages[i].results[j].call = calls[k]
            PROVE  FALSE
        <5>1. billed + 1 <= billed
          BY <3>1, <4>1, <4>2
        <5> QED BY <2>2, <5>1
      <4> QED BY <4>2 DEF Unanswered
    <3> HIDE DEF turn, calls
    <3> QED BY <2>4, <2>8, <3>2, UnansweredAppend
  <2>10. ASSUME NEW k \in DOMAIN calls PROVE Unlogged(log'[rid], calls[k], Len(log'[rid]))
    <3>1. log' = log /\ DOMAIN log[rid] = 1..Len(log[rid])
      BY <1>1, <2>8 DEF ModelAnswers
    <3>2. \A i \in DOMAIN log[rid] : log[rid][i].call[1] <= billed
      BY <2>8 DEF Past
    <3>3. calls[k][1] = billed + 1
      BY <2>6
    <3> HIDE DEF calls
    <3>4. ASSUME NEW i \in DOMAIN log[rid], log[rid][i].call = calls[k] PROVE FALSE
      <4>1. billed + 1 <= billed
        BY <3>2, <3>3, <3>4
      <4> QED BY <2>2, <4>1
    <3> QED BY <3>1, <3>4 DEF Unlogged
  <2>11. rid' = rid
    BY <1>1 DEF ModelAnswers
  <2> HIDE DEF calls, turn
  <2> QED BY <2>5, <2>7, <2>9, <2>10, <2>11 DEF Fresh
<1>2. CASE AppendModelCall \/ AppendBudgetTick
  <2>1. PICK event \in {ModelCall, BudgetTick} : AppendEvent(event)
    BY <1>2 DEF AppendModelCall, AppendBudgetTick
  <2>2. event \in EventType /\ event.call = Interrupted
    BY Constructors DEF ModelCall, BudgetTick, Event
  <2>3. UNCHANGED <<rid, messages, results>> /\ pc \in {"modelcall", "tick"}
        /\ pc' \in {"tick", "save"}
    BY <1>2 DEF AppendModelCall, AppendBudgetTick
  <2>4. log'[rid] = Append(log[rid], event)
    BY <2>1, <2>2, <2>3, TurnCalls, Appended DEF AppendEvent
  <2>5. \A k \in DOMAIN LastMessage.calls : LastMessage.calls[k] # Interrupted
    BY <2>3, TurnCalls, TurnNumbers
  <2>6. \A k \in DOMAIN LastMessage.calls :
          k > Len(results) => Unlogged(log[rid], LastMessage.calls[k], Len(log[rid]))
    BY <2>3 DEF Fresh, AtTurn
  <2>7. \A k \in DOMAIN LastMessage.calls :
          k > Len(results) => Unlogged(log'[rid], LastMessage.calls[k], Len(log'[rid]))
    BY <2>2, <2>3, <2>4, <2>5, <2>6, UnloggedAppend, TurnCalls
  <2>8. LastMessage' = LastMessage
    BY <2>3 DEF LastMessage
  <2> QED BY <2>3, <2>7, <2>8 DEF Fresh, AtTurn
<1>3. CASE SaveTurn
  BY <1>3 DEF SaveTurn, Fresh, AtTurn, LastMessage
<1>4. CASE HandleFinish
  <2>1. UNCHANGED <<log, rid, messages, pc>> /\ pc = "calls"
        /\ results' = Append(results, Answer(NextCall, NextCall))
        /\ Len(results) < Len(LastMessage.calls)
    BY <1>4 DEF HandleFinish, BatchOpen
  <2>2. Len(results') = Len(results) + 1 /\ Len(results) \in Nat
        /\ Len(LastMessage.calls) \in Nat
        /\ DOMAIN LastMessage.calls = 1..Len(LastMessage.calls)
    <3>1. results \in Seq(AnswerType) /\ Answer(NextCall, NextCall) \in AnswerType
      BY <2>1, TurnCalls, NextCallType, Constructors DEF Typed, AtWork
    <3> HIDE DEF NextCall, Answer
    <3> QED BY <2>1, <3>1, TurnCalls
  <2>3. LastMessage' = LastMessage
    BY <2>1 DEF LastMessage
  <2> QED BY <2>1, <2>2, <2>3 DEF Fresh, AtTurn
<1>5. CASE StartCall
  <2>1. UNCHANGED <<rid, messages, results>> /\ pc = "calls" /\ pc' = "run"
        /\ Len(results) < Len(LastMessage.calls)
        /\ AppendEvent(ToolCallStarted(NextCall))
    BY <1>5 DEF StartCall, BatchOpen
  <2>2. NextCall \in Calls /\ ToolCallStarted(NextCall) \in EventType
        /\ ToolCallStarted(NextCall).call = NextCall
    BY <2>1, NextCallType, Constructors DEF Typed, AtWork, ToolCallStarted, Event
  <2>3. /\ log'[rid] = Append(log[rid], ToolCallStarted(NextCall))
        /\ Len(log'[rid]) = Len(log[rid]) + 1
        /\ \A i \in 1..Len(log[rid]) : log'[rid][i] = log[rid][i]
    BY <2>1, <2>2, TurnCalls, Appended DEF AppendEvent
  <2>4. LastMessage' = LastMessage
    BY <2>1 DEF LastMessage
  <2>5. ASSUME NEW k \in DOMAIN LastMessage.calls, k > Len(results)
        PROVE  \/ Unlogged(log'[rid], LastMessage.calls[k], Len(log'[rid]))
               \/ /\ k = Len(results) + 1
                  /\ Unlogged(log'[rid], LastMessage.calls[k], Len(log'[rid]) - 1)
    <3>1. Unlogged(log[rid], LastMessage.calls[k], Len(log[rid]))
      BY <2>1, <2>5 DEF Fresh, AtTurn
    <3>2. CASE k = Len(results) + 1
      <4>1. Len(log'[rid]) - 1 = Len(log[rid])
        BY <2>1, <2>3, TurnCalls
      <4> QED BY <2>3, <3>1, <3>2, <4>1 DEF Unlogged
    <3>3. CASE k # Len(results) + 1
      <4>1. Len(results) + 1 \in DOMAIN LastMessage.calls
        BY <2>1, TurnCalls
      <4>2. LastMessage.calls[k] # NextCall
        BY <2>1, <3>3, <4>1 DEF Fresh, AtTurn, NextCall
      <4> HIDE DEF NextCall, ToolCallStarted
      <4> QED BY <2>1, <2>2, <2>3, <3>1, <4>2, UnloggedAppend, TurnCalls
    <3> QED BY <3>2, <3>3
  <2> QED BY <2>1, <2>4, <2>5 DEF Fresh, AtTurn
<1>6. CASE RunCall \/ WithholdCall
  BY <1>6 DEF RunCall, WithholdCall, Fresh, AtTurn, LastMessage
<1>7. CASE LogResult
  <2>1. UNCHANGED <<rid, messages>> /\ pc = "result" /\ pc' = "calls"
        /\ Len(results) < Len(LastMessage.calls)
        /\ AppendEvent(ToolCallResult(NextCall))
        /\ results' = Append(results, Answer(NextCall, NextCall))
    BY <1>7 DEF LogResult, Typed, AtWork
  <2>2. NextCall \in Calls /\ ToolCallResult(NextCall) \in EventType
        /\ ToolCallResult(NextCall).call = NextCall
    BY <2>1, NextCallType, Constructors DEF Typed, AtWork, ToolCallResult, Event
  <2>3. log'[rid] = Append(log[rid], ToolCallResult(NextCall))
    BY <2>1, <2>2, TurnCalls, Appended DEF AppendEvent
  <2>4. LastMessage' = LastMessage
    BY <2>1 DEF LastMessage
  <2>5. Len(results') = Len(results) + 1
    <3>1. results \in Seq(AnswerType) /\ Answer(NextCall, NextCall) \in AnswerType
      BY <2>1, <2>2, TurnCalls, Constructors
    <3> HIDE DEF NextCall, Answer
    <3> QED BY <2>1, <3>1
  <2>6. ASSUME NEW k \in DOMAIN LastMessage.calls, k > Len(results) + 1
        PROVE  Unlogged(log'[rid], LastMessage.calls[k], Len(log'[rid]))
    <3>1. Unlogged(log[rid], LastMessage.calls[k], Len(log[rid]))
      <4>1. k > Len(results) /\ k # Len(results) + 1
        BY <2>1, <2>6, TurnCalls
      <4> QED BY <2>1, <4>1 DEF Fresh, AtTurn
    <3>2. Len(results) + 1 \in DOMAIN LastMessage.calls
      BY <2>1, TurnCalls
    <3>3. LastMessage.calls[k] # NextCall
      BY <2>1, <2>6, <3>2, TurnCalls DEF Fresh, AtTurn, NextCall
    <3> HIDE DEF NextCall, ToolCallResult
    <3> QED BY <2>1, <2>2, <2>3, <3>1, <3>3, UnloggedAppend, TurnCalls
  <2> QED BY <2>1, <2>4, <2>5, <2>6, TurnCalls DEF Fresh, AtTurn
<1>8. CASE UNCHANGED vars
  BY <1>8 DEF vars, Fresh, AtTurn, LastMessage
<1> QED BY <1>1, <1>2, <1>3, <1>4, <1>5, <1>6, <1>7, <1>8
        DEF Next, Turn, Batch, Terminal, Restart, Rest, StopNudge, SaveResults, BatchDone,
            GiveUp, FinishRun, FinishDiscipline, AppendDisposition, SaveDisposition,
            Close, Crash, ResumeCrash, ResumeFresh, Redispatch, Begin, AtTurn

-----------------------------------------------------------------------------
(* Results tell the truth.                                                   *)

On(event, events) == \E i \in DOMAIN events : events[i] = event

(* The log holds both events of the call, or neither.                        *)
Settled(call, events) == On(ToolCallStarted(call), events) <=> On(ToolCallResult(call), events)

Truthful(answer, events) ==
  /\ answer.outcome \in {answer.call, Interrupted}
  /\ answer.outcome = answer.call => Settled(answer.call, events)
Truth(conversation, events) ==
  \A i \in DOMAIN conversation : \A k \in DOMAIN conversation[i].results :
    Truthful(conversation[i].results[k], events)

(* Everything said, saved or about to be said is true of its log.            *)
Truths ==
  /\ pc # "down" => Truth(messages, log[rid])
  /\ \A r \in Attempts : Truth(record[r].messages, log[r])
  /\ AtBatch => \A k \in DOMAIN results : Settled(results[k].call, log[rid])

(* An event about another call settles nothing.                              *)
LEMMA OnAppend ==
  ASSUME NEW events \in Seq(EventType), NEW event \in EventType, NEW e
  PROVE  On(e, Append(events, event)) <=> (On(e, events) \/ e = event)
<1>1. /\ DOMAIN Append(events, event) = 1..(Len(events) + 1) /\ Len(events) \in Nat
      /\ DOMAIN events = 1..Len(events)
      /\ \A i \in 1..Len(events) : Append(events, event)[i] = events[i]
      /\ Append(events, event)[Len(events) + 1] = event
  BY Grown
<1>2. ASSUME On(e, Append(events, event)) PROVE On(e, events) \/ e = event
  <2>1. PICK i \in 1..(Len(events) + 1) : Append(events, event)[i] = e
    BY <1>1, <1>2 DEF On
  <2>2. CASE i \in 1..Len(events)
    BY <1>1, <2>1, <2>2 DEF On
  <2>3. CASE i = Len(events) + 1
    BY <1>1, <2>1, <2>3
  <2> QED BY <1>1, <2>2, <2>3
<1>3. ASSUME On(e, events) PROVE On(e, Append(events, event))
  <2>1. PICK i \in 1..Len(events) : events[i] = e
    BY <1>1, <1>3 DEF On
  <2>2. i \in 1..(Len(events) + 1)
    BY <1>1, <2>1
  <2> QED BY <1>1, <2>1, <2>2 DEF On
<1>4. On(event, Append(events, event))
  <2>1. Len(events) + 1 \in 1..(Len(events) + 1)
    BY <1>1
  <2> QED BY <1>1, <2>1 DEF On
<1> QED BY <1>2, <1>3, <1>4

(* What is settled stays so while other calls are logged.                    *)
LEMMA SettledAppend ==
  ASSUME NEW events \in Seq(EventType), NEW event \in EventType, NEW call,
         event.call # call, Settled(call, events)
  PROVE  Settled(call, Append(events, event))
<1>1. ToolCallStarted(call) # event /\ ToolCallResult(call) # event
  BY DEF ToolCallStarted, ToolCallResult, Event
<1> QED BY <1>1, OnAppend DEF Settled

(* What is true of a log stays so while unanswered calls are logged.         *)
LEMMA TruthAppend ==
  ASSUME NEW events \in Seq(EventType), NEW event \in EventType, NEW c,
         Truth(c, events), Unanswered(c, event.call)
  PROVE  Truth(c, Append(events, event))
<1> SUFFICES ASSUME NEW i \in DOMAIN c, NEW k \in DOMAIN c[i].results
             PROVE  Truthful(c[i].results[k], Append(events, event))
  BY DEF Truth
<1>1. c[i].results[k].call # event.call /\ Truthful(c[i].results[k], events)
  BY DEF Truth, Unanswered
<1> QED BY <1>1, SettledAppend DEF Truthful

(* No answer is to Interrupted, which is no call.                            *)
LEMMA InterruptedUnanswered ==
  ASSUME NEW c \in Seq(MessageType) PROVE Unanswered(c, Interrupted)
<1> SUFFICES ASSUME NEW i \in DOMAIN c, NEW k \in DOMAIN c[i].results
             PROVE  c[i].results[k].call # Interrupted
  BY DEF Unanswered
<1>1. c[i] \in MessageType
  OBVIOUS
<1>2. c[i].results \in Seq(AnswerType)
  BY <1>1 DEF MessageType, AnswerType
<1>3. c[i].results[k] \in AnswerType
  BY <1>2
<1> QED BY <1>3, TurnNumbers DEF AnswerType

(* A conversation that grows by true results.                                *)
LEMMA TruthGrows ==
  ASSUME NEW c \in Seq(MessageType), NEW m \in MessageType, NEW events,
         Truth(c, events), \A k \in DOMAIN m.results : Truthful(m.results[k], events)
  PROVE  Truth(Append(c, m), events)
<1>1. /\ DOMAIN Append(c, m) = 1..(Len(c) + 1) /\ Len(c) \in Nat /\ DOMAIN c = 1..Len(c)
      /\ \A i \in 1..Len(c) : Append(c, m)[i] = c[i]
      /\ Append(c, m)[Len(c) + 1] = m
  BY Grown
<1> SUFFICES ASSUME NEW i \in 1..(Len(c) + 1), NEW k \in DOMAIN Append(c, m)[i].results
             PROVE  Truthful(Append(c, m)[i].results[k], events)
  BY <1>1 DEF Truth
<1>2. CASE i = Len(c) + 1
  BY <1>1, <1>2
<1>3. CASE i \in 1..Len(c)
  BY <1>1, <1>3 DEF Truth
<1> QED BY <1>1, <1>2, <1>3

(* A Result that belongs to a Started is the event right after it.           *)
LEMMA PairNext ==
  ASSUME Typed, LogsMatched, NEW r \in Attempts,
         NEW i \in ToolTail(log[r]), NEW j \in ToolTail(log[r]),
         Pair(log[r], ToolTail(log[r]), i, j)
  PROVE  /\ j = i + 1 /\ i \in DOMAIN log[r] /\ j \in DOMAIN log[r]
         /\ log[r][i] = ToolCallStarted(log[r][i].call)
         /\ log[r][j] \in {ToolCallResult(log[r][i].call), ToolCallResult(Interrupted)}
<1> DEFINE events == log[r]
<1>1. events \in Seq(EventType) /\ Len(events) \in Nat /\ DOMAIN events = 1..Len(events)
  BY DEF Typed, TypeOK, StoreType
<1>2. i \in 1..Len(events) /\ j \in 1..Len(events) /\ i < j
      /\ events[i].kind = "started" /\ \A k \in ToolTail(events) : ~(i < k /\ k < j)
  BY <1>1 DEF ToolTail, Pair
<1>3. i \in 1..(Len(events) - 1) /\ i + 1 \in 1..Len(events)
  BY <1>1, <1>2
<1>4. events[i + 1] \in {ToolCallResult(events[i].call), ToolCallResult(Interrupted)}
  BY <1>2, <1>3 DEF LogsMatched
<1>5. i + 1 \in ToolTail(events)
  <2>1. ToolEvent(events[i + 1])
    BY <1>4 DEF ToolEvent, ToolCallResult, Event
  <2>2. \A k \in DOMAIN events : events[k].kind = "model_call" => k < i
    BY DEF ToolTail
  <2>3. \A k \in DOMAIN events : events[k].kind = "model_call" => k < i + 1
    BY <1>1, <1>2, <2>2
  <2> QED BY <1>1, <1>3, <2>1, <2>3 DEF ToolTail
<1>6. j = i + 1
  BY <1>1, <1>2, <1>5
<1>7. events[i] = ToolCallStarted(events[i].call)
  <2>1. events[i] \in EventType
    BY <1>1, <1>2
  <2> QED BY <1>2, <2>1 DEF EventType, ToolCallStarted, Event
<1> QED BY <1>1, <1>2, <1>4, <1>6, <1>7

(* What the log tells of a call: its result, and then both its events are    *)
(* on it, or that it was interrupted.                                        *)
LEMMA OutcomeTruthful ==
  ASSUME Typed, LogsMatched, NEW r \in Attempts, NEW calls \in Seq(Calls),
         NEW k \in DOMAIN calls
  PROVE  Truthful(Answer(calls[k], OutcomeOf(log[r], calls, k)), log[r])
<1> DEFINE answering == ResultsOf(log[r], calls[k])
           outcome == OutcomeOf(log[r], calls, k)
<1>1. calls[k] # Interrupted
  BY TurnNumbers
<1>2. CASE answering = {}
  BY <1>1, <1>2 DEF OutcomeOf, Truthful, Answer
<1>3. CASE answering # {}
  <2>1. PICK j \in answering : outcome = log[r][j].call
    BY <1>3 DEF OutcomeOf
  <2>2. PICK i \in ToolTail(log[r]) :
          j \in ToolTail(log[r]) /\ Pair(log[r], ToolTail(log[r]), i, j)
          /\ log[r][i].call = calls[k]
    BY <2>1 DEF ResultsOf
  <2>3. /\ i \in DOMAIN log[r] /\ j \in DOMAIN log[r]
        /\ log[r][i] = ToolCallStarted(calls[k])
        /\ log[r][j] \in {ToolCallResult(calls[k]), ToolCallResult(Interrupted)}
    BY <2>2, PairNext
  <2>4. outcome \in {calls[k], Interrupted}
    BY <2>1, <2>3 DEF ToolCallResult, Event
  <2>5. outcome = calls[k] => log[r][j] = ToolCallResult(calls[k])
    <3>1. CASE log[r][j] = ToolCallResult(Interrupted)
      <4>1. outcome = Interrupted
        BY <2>1, <3>1 DEF ToolCallResult, Event
      <4> QED BY <1>1, <4>1
    <3> QED BY <2>3, <3>1
  <2>6. outcome = calls[k] => Settled(calls[k], log[r])
    BY <2>3, <2>5 DEF Settled, On
  <2> QED BY <2>4, <2>6 DEF Truthful, Answer
<1> QED BY <1>2, <1>3

(* What a resume starts from is true of the log it was rebuilt from.         *)
LEMMA ReconciledTruth ==
  ASSUME Typed, LogsMatched, Truths, NEW r \in Attempts
  PROVE  Truth(Reconciled(r), log[r])
<1> DEFINE conversation == record[r].messages
           calls == conversation[Len(conversation)].calls
           closing_message == Message("user", <<>>, Answers(calls, log[r]))
<1>1. conversation \in Seq(MessageType) /\ Truth(conversation, log[r])
  BY ReconciledCases DEF Truths
<1>2. CASE Reconciled(r) = conversation
  BY <1>1, <1>2
<1>3. CASE /\ calls \in Seq(Calls) /\ closing_message \in MessageType
           /\ Reconciled(r) = Append(conversation, closing_message)
  <2>1. \A k \in DOMAIN closing_message.results :
          Truthful(closing_message.results[k], log[r])
    <3>1. closing_message.results =
            [k \in DOMAIN calls |-> Answer(calls[k], OutcomeOf(log[r], calls, k))]
      BY DEF Message, Answers
    <3> HIDE DEF closing_message, calls
    <3>2. \A k \in DOMAIN calls : Truthful(Answer(calls[k], OutcomeOf(log[r], calls, k)), log[r])
      BY <1>3, OutcomeTruthful
    <3> QED BY <3>1, <3>2
  <2> HIDE DEF closing_message
  <2> QED BY <1>1, <1>3, <2>1, TruthGrows
<1> QED BY <1>2, <1>3, ReconciledCases

(* What a log says of the calls that are or were in the conversation holds   *)
(* when an event follows that is not about one of them.                      *)
LEMMA TruthsAppend ==
  ASSUME Typed, Truths, NEW q \in Attempts, NEW event \in EventType,
         log' = [log EXCEPT ![q] = Append(@, event)],
         Unanswered(record[q].messages, event.call),
         NEW r \in Attempts
  PROVE  Truth(record[r].messages, log'[r])
<1>1. CASE r # q
  <2>1. log'[r] = log[r]
    BY <1>1, Appended
  <2> QED BY <2>1 DEF Truths
<1>2. CASE r = q
  <2>1. log'[q] = Append(log[q], event) /\ log[q] \in Seq(EventType)
    BY Appended
  <2>2. Truth(record[q].messages, log[q])
    BY DEF Truths
  <2> QED BY <1>2, <2>1, <2>2, TruthAppend
<1> QED BY <1>1, <1>2

(* The results of a batch are of other calls than the one it is at.          *)
LEMMA OtherResults ==
  ASSUME Typed, ConversationInvariant, Fresh, AtBatch,
         Len(results) < Len(LastMessage.calls), NEW k \in DOMAIN results
  PROVE  results[k].call # NextCall
<1>1. DOMAIN results = 1..Len(results) /\ Len(results) + 1 \in DOMAIN LastMessage.calls
      /\ k \in DOMAIN LastMessage.calls /\ k # Len(results) + 1
  BY TurnCalls DEF AtBatch
<1>2. results[k].call = LastMessage.calls[k]
  BY DEF ConversationInvariant, InBatch, Answer
<1> QED BY <1>1, <1>2 DEF Fresh, AtTurn, AtBatch, NextCall

(* No step says or saves what its log belies.                                *)
LEMMA TruthsStep ==
  /\ Typed /\ ConversationInvariant /\ UnderWay /\ LogsMatched /\ Past /\ Fresh
  /\ Truths /\ [Next]_vars
  => Truths'
<1> SUFFICES ASSUME Typed, ConversationInvariant, UnderWay, LogsMatched, Past, Fresh,
                    Truths, [Next]_vars
             PROVE  Truths'
  OBVIOUS
<1> USE DEF store, talk
<1>1. ASSUME pc' # "down" => Truth(messages', log'[rid']),
             \A r \in Attempts : Truth(record[r].messages, log'[r]),
             AtBatch' => \A k \in DOMAIN results' : Settled(results'[k].call, log'[rid']),
             ~Crash
      PROVE  Truths'
  <2>1. ASSUME NEW r \in Attempts PROVE Truth(record'[r].messages, log'[r])
    <3>1. SaveTurn \/ SaveResults \/ SaveDisposition => pc' # "down"
      BY DEF SaveTurn, SaveResults, SaveDisposition
    <3> QED BY <1>1, <3>1, RecordSteps
  <2> QED BY <1>1, <2>1 DEF Truths
<1>2. rid \in Attempts /\ messages \in Seq(MessageType) /\ record \in [Attempts -> RecordType]
      /\ \A r \in Attempts : record[r].messages \in Seq(MessageType)
  BY ReconciledCases DEF Typed, TypeOK, ControlType, TalkType, StoreType
<1>3. CASE ModelAnswers \/ StopNudge
  <2>1. PICK m \in MessageType : messages' = Append(messages, m) /\ m.results = <<>>
    <3>1. CASE ModelAnswers
      <4>1. PICK n \in 0..MaxCalls :
              messages' = Append(messages,
                            Message("assistant", [i \in 1..n |-> <<billed + 1, i>>], <<>>))
        BY <3>1 DEF ModelAnswers
      <4>2. [i \in 1..n |-> <<billed + 1, i>>] \in Seq(Calls)
        <5>1. billed + 1 \in 1..MaxTurns
          BY <3>1 DEF ModelAnswers, Typed, TypeOK, ObservedType
        <5> QED BY <5>1 DEF Calls
      <4>3. Message("assistant", [i \in 1..n |-> <<billed + 1, i>>], <<>>) \in MessageType
            /\ Message("assistant", [i \in 1..n |-> <<billed + 1, i>>], <<>>).results = <<>>
        BY <4>2, Constructors DEF Message
      <4> QED BY <4>1, <4>3
    <3>2. CASE StopNudge
      BY <3>2, Constructors DEF StopNudge, Nudge, Message
    <3> QED BY <1>3, <3>1, <3>2
  <2>2. UNCHANGED <<log, rid, record>> /\ pc # "down" /\ ~Crash /\ ~AtBatch'
    BY <1>3 DEF ModelAnswers, StopNudge, Crash, AtBatch
  <2>3. Truth(messages', log[rid])
    BY <1>2, <2>1, <2>2, TruthGrows DEF Truths
  <2> QED BY <1>1, <2>2, <2>3 DEF Truths
<1>4. CASE AppendModelCall \/ AppendBudgetTick \/ AppendDisposition
  <2>1. PICK event \in {ModelCall, BudgetTick, DispositionSet} : AppendEvent(event)
    BY <1>4 DEF AppendModelCall, AppendBudgetTick, AppendDisposition
  <2>2. event \in EventType /\ event.call = Interrupted
    BY Constructors DEF ModelCall, BudgetTick, DispositionSet, Event
  <2>3. UNCHANGED <<rid, messages>> /\ pc # "down" /\ ~Crash /\ ~AtBatch'
    BY <1>4 DEF AppendModelCall, AppendBudgetTick, AppendDisposition, Crash, AtBatch
  <2>4. \A r \in Attempts : Truth(record[r].messages, log'[r])
    BY <1>2, <2>1, <2>2, TruthsAppend, InterruptedUnanswered DEF AppendEvent
  <2>5. log'[rid] = Append(log[rid], event) /\ log[rid] \in Seq(EventType)
    BY <1>2, <2>1, <2>2, Appended DEF AppendEvent
  <2>6. Truth(messages', log'[rid])
    BY <1>2, <2>2, <2>3, <2>5, TruthAppend, InterruptedUnanswered DEF Truths
  <2> QED BY <1>1, <2>3, <2>4, <2>6
<1>5. CASE StartCall \/ LogResult
  <2>1. PICK event \in {ToolCallStarted(NextCall), ToolCallResult(NextCall)} :
          /\ AppendEvent(event)
          /\ StartCall => event = ToolCallStarted(NextCall) /\ results' = results
          /\ LogResult => /\ event = ToolCallResult(NextCall)
                          /\ results' = Append(results, Answer(NextCall, NextCall))
    BY <1>5 DEF StartCall, BatchOpen, LogResult
  <2>2. /\ UNCHANGED <<rid, messages, record>> /\ pc # "down" /\ ~Crash /\ AtBatch /\ AtTurn
        /\ Len(results) < Len(LastMessage.calls)
    BY <1>5 DEF StartCall, LogResult, BatchOpen, Crash, AtBatch, AtTurn, Typed, AtWork
  <2>3. NextCall \in Calls /\ event \in EventType /\ event.call = NextCall
    BY <2>1, <2>2, NextCallType, Constructors
       DEF Typed, AtWork, ToolCallStarted, ToolCallResult, Event
  <2>4. Unanswered(messages, NextCall)
    <3>1. Len(results) + 1 \in DOMAIN LastMessage.calls
      BY <2>2, TurnCalls
    <3> QED BY <2>2, <3>1 DEF Fresh, NextCall
  <2>5. record[rid].messages = messages
    BY <2>2 DEF ConversationInvariant, SavedTurn
  <2>6. \A r \in Attempts : Truth(record[r].messages, log'[r])
    BY <1>2, <2>1, <2>3, <2>4, <2>5, TruthsAppend DEF AppendEvent
  <2>7. log'[rid] = Append(log[rid], event) /\ log[rid] \in Seq(EventType)
    BY <1>2, <2>1, <2>3, Appended DEF AppendEvent
  <2>8. Truth(messages', log'[rid])
    BY <2>2, <2>3, <2>4, <2>7, TruthAppend DEF Truths
  <2>9. \A k \in DOMAIN results : Settled(results[k].call, log'[rid])
    <3> TAKE k \in DOMAIN results
    <3>1. results[k].call # event.call /\ Settled(results[k].call, log[rid])
      BY <2>2, <2>3, OtherResults DEF Truths
    <3> QED BY <2>3, <2>7, <3>1, SettledAppend
  <2>10. \A k \in DOMAIN results' : Settled(results'[k].call, log'[rid])
    <3>1. CASE StartCall
      BY <2>1, <2>9, <3>1
    <3>2. CASE LogResult
      <4>1. results \in Seq(AnswerType) /\ Answer(NextCall, NextCall) \in AnswerType
            /\ Answer(NextCall, NextCall).call = NextCall
        BY <2>2, <2>3, TurnCalls, Constructors DEF Answer
      <4>2. /\ DOMAIN results' = 1..(Len(results) + 1) /\ DOMAIN results = 1..Len(results)
            /\ \A k \in 1..Len(results) : results'[k] = results[k]
            /\ results'[Len(results) + 1] = Answer(NextCall, NextCall)
        <5> HIDE DEF NextCall, Answer
        <5> QED BY <2>1, <3>2, <4>1, Grown
      <4>3. Settled(NextCall, log'[rid])
        <5>1. log[rid] # <<>> /\ log[rid][Len(log[rid])] = ToolCallStarted(NextCall)
          BY <3>2 DEF LogResult, UnderWay
        <5>2. Len(log[rid]) \in DOMAIN log[rid]
          BY <2>7, <5>1
        <5>3. On(ToolCallStarted(NextCall), log[rid])
          BY <5>1, <5>2 DEF On
        <5>4. On(ToolCallStarted(NextCall), log'[rid])
          BY <2>3, <2>7, <5>3, OnAppend
        <5>5. On(ToolCallResult(NextCall), log'[rid])
          BY <2>1, <2>3, <2>7, <3>2, OnAppend
        <5> QED BY <5>4, <5>5 DEF Settled
      <4>4. \A k \in DOMAIN results' : k \in DOMAIN results \/ k = Len(results) + 1
        BY <4>1, <4>2
      <4> QED BY <2>9, <4>1, <4>2, <4>3, <4>4
    <3> QED BY <1>5, <3>1, <3>2
  <2> QED BY <1>1, <2>2, <2>6, <2>8, <2>10
<1>6. CASE HandleFinish
  <2>1. /\ UNCHANGED <<log, rid, messages, record, pc>> /\ pc = "calls"
        /\ Len(results) < Len(LastMessage.calls)
        /\ results' = Append(results, Answer(NextCall, NextCall))
    BY <1>6 DEF HandleFinish, BatchOpen
  <2>2. results \in Seq(AnswerType) /\ Answer(NextCall, NextCall) \in AnswerType
        /\ Answer(NextCall, NextCall).call = NextCall
    BY <2>1, TurnCalls, NextCallType, Constructors DEF Answer, Typed, AtWork
  <2>3. /\ DOMAIN results' = 1..(Len(results) + 1) /\ DOMAIN results = 1..Len(results)
        /\ \A k \in 1..Len(results) : results'[k] = results[k]
        /\ results'[Len(results) + 1] = Answer(NextCall, NextCall)
    <3> HIDE DEF NextCall, Answer
    <3> QED BY <2>1, <2>2, Grown
  <2>4. Settled(NextCall, log[rid])
    <3>1. Len(results) + 1 \in DOMAIN LastMessage.calls /\ Len(results) + 1 > Len(results)
          /\ DOMAIN log[rid] = 1..Len(log[rid])
      BY <2>1, TurnCalls
    <3>2. Unlogged(log[rid], NextCall, Len(log[rid]))
      BY <2>1, <3>1 DEF Fresh, AtTurn, NextCall
    <3>3. ~On(ToolCallStarted(NextCall), log[rid]) /\ ~On(ToolCallResult(NextCall), log[rid])
      BY <3>1, <3>2 DEF Unlogged, On, ToolCallStarted, ToolCallResult, Event
    <3> QED BY <3>3 DEF Settled
  <2>5. \A k \in DOMAIN results' : k \in DOMAIN results \/ k = Len(results) + 1
    BY <2>2, <2>3
  <2>6. \A k \in DOMAIN results' : Settled(results'[k].call, log'[rid'])
    BY <2>1, <2>2, <2>3, <2>4, <2>5 DEF Truths, AtBatch
  <2> QED BY <1>1, <2>1, <2>6 DEF Truths, Crash
<1>7. CASE SaveResults \/ FinishRun \/ FinishDiscipline
  <2>1. /\ UNCHANGED <<log, rid>> /\ BatchDone /\ ~AtBatch' /\ ~Crash /\ AtBatch
        /\ messages' = Append(messages, Message("user", <<>>, results))
    BY <1>7 DEF SaveResults, FinishRun, FinishDiscipline, BatchDone, Close, AtBatch, Crash
  <2>2. Message("user", <<>>, results) \in MessageType
        /\ Message("user", <<>>, results).results = results
    BY <2>1, TurnCalls, Constructors DEF AtBatch, Message
  <2>3. \A k \in DOMAIN results : Truthful(results[k], log[rid])
    <3> TAKE k \in DOMAIN results
    <3>1. results[k] = Answer(LastMessage.calls[k], LastMessage.calls[k])
      BY <2>1 DEF ConversationInvariant, InBatch
    <3>2. results[k].outcome = results[k].call
      BY <3>1 DEF Answer
    <3> QED BY <2>1, <3>2 DEF Truths, Truthful
  <2>4. Truth(messages', log[rid])
    BY <1>2, <2>1, <2>2, <2>3, TruthGrows DEF Truths, AtBatch
  <2> QED BY <1>1, <2>1, <2>4 DEF Truths
<1>8. CASE SaveTurn \/ RunCall \/ WithholdCall \/ GiveUp \/ SaveDisposition
           \/ UNCHANGED vars
  <2>1. UNCHANGED <<log, rid, messages, results>> /\ (pc' = pc \/ pc # "down")
        /\ (AtBatch' /\ ~AtBatch => results = <<>>)
    BY <1>8 DEF SaveTurn, RunCall, WithholdCall, GiveUp, Close, SaveDisposition, vars,
                AtBatch, ConversationInvariant, InBatch, BeforeBatch
  <2>2. pc' # "down" => Truth(messages', log'[rid'])
    BY <2>1 DEF Truths
  <2>3. \A r \in Attempts : Truth(record[r].messages, log'[r])
    BY <2>1 DEF Truths
  <2>4. AtBatch' => \A k \in DOMAIN results' : Settled(results'[k].call, log'[rid'])
    BY <2>1 DEF Truths
  <2>5. ~Crash
    BY <1>8 DEF SaveTurn, RunCall, WithholdCall, GiveUp, Close, SaveDisposition, vars, Crash
  <2> QED BY <1>1, <2>2, <2>3, <2>4, <2>5
<1>9. CASE Crash
  BY <1>9 DEF Crash, Truths, AtBatch
<1>10. CASE ResumeCrash
  <2>1. PICK r \in Attempts :
          log' = RepairedLog(r) /\ rid' = r /\ messages' = Reconciled(r)
    BY <1>10 DEF ResumeCrash, Begin
  <2>2. ~AtBatch' /\ ~Crash
    BY <1>10 DEF ResumeCrash, Begin, AtBatch, Crash
  <2>3. Truth(Reconciled(r), log[r]) /\ Reconciled(r) \in Seq(MessageType)
    BY ReconciledTruth, ReconciledType DEF Typed
  <2>4. CASE log' = log
    BY <1>1, <2>1, <2>2, <2>3, <2>4 DEF Truths
  <2>5. CASE log' = [log EXCEPT ![r] = Append(@, ToolCallResult(Interrupted))]
    <3>1. ToolCallResult(Interrupted) \in EventType
          /\ ToolCallResult(Interrupted).call = Interrupted
      BY Constructors DEF ToolCallResult, Event
    <3>2. \A q \in Attempts : Truth(record[q].messages, log'[q])
      BY <1>2, <2>5, <3>1, TruthsAppend, InterruptedUnanswered
    <3>3. log'[r] = Append(log[r], ToolCallResult(Interrupted)) /\ log[r] \in Seq(EventType)
      BY <2>5, <3>1, Appended
    <3>4. Truth(messages', log'[rid'])
      BY <2>1, <2>3, <3>1, <3>3, TruthAppend, InterruptedUnanswered
    <3> QED BY <1>1, <2>2, <3>2, <3>4
  <2> QED BY <2>1, <2>4, <2>5 DEF RepairedLog
<1>11. CASE ResumeFresh \/ Redispatch
  <2>1. log' = log /\ messages' = <<Seed>> /\ ~AtBatch' /\ ~Crash
    BY <1>11 DEF ResumeFresh, Redispatch, Begin, AtBatch, Crash
  <2>2. Truth(messages', log'[rid'])
    BY <2>1 DEF Truth, Seed, Message
  <2> QED BY <1>1, <2>1, <2>2 DEF Truths
<1> QED BY <1>3, <1>4, <1>5, <1>6, <1>7, <1>8, <1>9, <1>10, <1>11
        DEF Next, Turn, Batch, Terminal, Restart, Rest

(* What holds of the turns, their calls and their results at every step.     *)
LEMMA TruthsAlways == Spec => [](Past /\ Fresh /\ Truths)
<1>1. Init => Past /\ Fresh /\ Truths
  <2> SUFFICES ASSUME Init PROVE Past /\ Fresh /\ Truths
    OBVIOUS
  <2> USE DEF Init
  <2>1. Past
    BY DEF Past, AllOfTurns, OfTurns, Seed, Message, NoRecord
  <2>2. Fresh
    BY DEF Fresh, AtTurn
  <2>3. Truths
    BY DEF Truths, Truth, Seed, Message, NoRecord, AtBatch
  <2> QED BY <2>1, <2>2, <2>3
<1> QED BY <1>1, TypedAlways, ConversationAlways, LogsAlways, PastStep, FreshStep,
           TruthsStep, PTL DEF Spec

(* No request tells the model that a call did what another one did, or that  *)
(* an interrupted one did anything: what a resume reads off the log is the   *)
(* result of the call it is given to.                                        *)
THEOREM ResultsTruthfulCorrect == Spec => []ResultsTruthful
<1>1. Truths => ResultsTruthful
  BY DEF Truths, Truth, Truthful, ResultsTruthful, Settled, On, ToolCallStarted,
         ToolCallResult
<1> QED BY <1>1, TruthsAlways, PTL

-----------------------------------------------------------------------------
(* What a resume would know.                                                 *)

(* No call is started twice on a log.                                        *)
StartedOnce ==
  \A r \in Attempts : \A i, j \in DOMAIN log[r] :
    log[r][i].kind = "started" /\ log[r][j] = log[r][i] => i = j

(* The conversation tells the outcome of the call.                           *)
Tells(answer, call) == answer.call = call /\ answer.outcome = call
Told(conversation, call) ==
  \E i \in DOMAIN conversation : \E k \in DOMAIN conversation[i].results :
    Tells(conversation[i].results[k], call)

(* The tail of the log tells it.                                             *)
Finished(events, call) ==
  \E i \in ToolTail(events) :
    /\ i + 1 \in DOMAIN events
    /\ events[i] = ToolCallStarted(call) /\ events[i + 1] = ToolCallResult(call)

(* A resume knows what the snapshot tells, and of the calls it ends in what  *)
(* the tail tells.                                                           *)
KnownFrom(conversation, events, call) ==
  \/ Told(conversation, call)
  \/ /\ EndsInCalls(conversation, events)
     /\ \E k \in DOMAIN conversation[Len(conversation)].calls :
          conversation[Len(conversation)].calls[k] = call
     /\ Finished(events, call)

(* While no batch runs, the conversation tells all that a resume would know. *)
Remembered ==
  pc \in {"ask", "modelcall", "tick", "save", "stop", "close", "closed"} =>
    \A call : KnownFrom(record[rid].messages, log[rid], call) => Told(messages, call)

(* A log starts a call once.                                                 *)
LEMMA StartedOnceStep ==
  Typed /\ Fresh /\ StartedOnce /\ [Next]_vars => StartedOnce'
<1> SUFFICES ASSUME Typed, Fresh, StartedOnce, [Next]_vars,
                    NEW r \in Attempts, NEW i \in DOMAIN log'[r], NEW j \in DOMAIN log'[r],
                    log'[r][i].kind = "started", log'[r][j] = log'[r][i]
             PROVE  i = j
  BY DEF StartedOnce
<1>1. CASE log'[r] = log[r]
  BY <1>1 DEF StartedOnce
<1>2. ASSUME NEW q \in Attempts, NEW event \in EventType,
             log' = [log EXCEPT ![q] = Append(@, event)],
             event.kind = "started" => Unlogged(log[q], event.call, Len(log[q]))
      PROVE  i = j
  <2>1. CASE r # q
    BY <1>1, <1>2, <2>1, Appended
  <2>2. CASE r = q
    <3>1. /\ DOMAIN log'[q] = 1..(Len(log[q]) + 1) /\ DOMAIN log[q] = 1..Len(log[q])
          /\ \A k \in 1..Len(log[q]) : log'[q][k] = log[q][k]
          /\ log'[q][Len(log[q]) + 1] = event /\ Len(log[q]) \in Nat
      BY <1>2, Appended
    <3>2. \A k \in DOMAIN log'[q] : k \in 1..Len(log[q]) \/ k = Len(log[q]) + 1
      BY <3>1
    <3>3. CASE i \in 1..Len(log[q]) /\ j \in 1..Len(log[q])
      BY <2>2, <3>1, <3>3 DEF StartedOnce
    <3>4. CASE i = Len(log[q]) + 1 /\ j \in 1..Len(log[q])
      BY <1>2, <2>2, <3>1, <3>4 DEF Unlogged
    <3>5. CASE j = Len(log[q]) + 1 /\ i \in 1..Len(log[q])
      BY <1>2, <2>2, <3>1, <3>5 DEF Unlogged
    <3> QED BY <2>2, <3>2, <3>3, <3>4, <3>5
  <2> QED BY <2>1, <2>2
<1>3. rid \in Attempts
  BY DEF Typed, TypeOK, ControlType
<1>4. CASE AppendModelCall \/ AppendBudgetTick \/ AppendDisposition
  <2>1. PICK event \in {ModelCall, BudgetTick, DispositionSet} : AppendEvent(event)
    BY <1>4 DEF AppendModelCall, AppendBudgetTick, AppendDisposition
  <2>2. event \in EventType /\ event.kind # "started"
    BY Constructors DEF ModelCall, BudgetTick, DispositionSet, Event
  <2> QED BY <1>2, <1>3, <2>1, <2>2 DEF AppendEvent
<1>5. CASE StartCall /\ NextCall \in Calls /\ AppendEvent(ToolCallStarted(NextCall))
  <2>1. Unlogged(log[rid], NextCall, Len(log[rid]))
    <3>1. pc = "calls" /\ Len(results) < Len(LastMessage.calls)
      BY <1>5 DEF StartCall, BatchOpen
    <3>2. Len(results) + 1 \in DOMAIN LastMessage.calls /\ Len(results) + 1 > Len(results)
      BY <3>1, TurnCalls
    <3> QED BY <3>1, <3>2 DEF Fresh, AtTurn, NextCall
  <2>2. ToolCallStarted(NextCall) \in EventType /\ ToolCallStarted(NextCall).call = NextCall
    BY <1>5, Constructors DEF ToolCallStarted, Event
  <2> HIDE DEF NextCall, ToolCallStarted
  <2> QED BY <1>2, <1>3, <1>5, <2>1, <2>2 DEF AppendEvent
<1>6. CASE LogResult /\ NextCall \in Calls /\ AppendEvent(ToolCallResult(NextCall))
  <2>1. ToolCallResult(NextCall) \in EventType /\ ToolCallResult(NextCall).kind # "started"
    BY <1>6, Constructors DEF ToolCallResult, Event
  <2> QED BY <1>2, <1>3, <1>6, <2>1 DEF AppendEvent
<1>7. CASE \E q \in Attempts :
             log' = [log EXCEPT ![q] = Append(@, ToolCallResult(Interrupted))]
  <2>1. ToolCallResult(Interrupted) \in EventType
        /\ ToolCallResult(Interrupted).kind # "started"
    BY Constructors DEF ToolCallResult, Event
  <2> QED BY <1>2, <1>7, <2>1
<1> QED BY <1>1, <1>4, <1>5, <1>6, <1>7, LogSteps

(* A message adds what it tells.                                             *)
LEMMA ToldAppend ==
  ASSUME NEW c \in Seq(MessageType), NEW m \in MessageType, NEW call
  PROVE  Told(Append(c, m), call) <=>
           \/ Told(c, call)
           \/ \E k \in DOMAIN m.results : Tells(m.results[k], call)
<1>1. /\ DOMAIN Append(c, m) = 1..(Len(c) + 1) /\ Len(c) \in Nat /\ DOMAIN c = 1..Len(c)
      /\ \A i \in 1..Len(c) : Append(c, m)[i] = c[i]
      /\ Append(c, m)[Len(c) + 1] = m
  BY Grown
<1>2. ASSUME Told(Append(c, m), call)
      PROVE  Told(c, call) \/ \E k \in DOMAIN m.results : Tells(m.results[k], call)
  <2>1. PICK i \in 1..(Len(c) + 1) : \E k \in DOMAIN Append(c, m)[i].results :
          Tells(Append(c, m)[i].results[k], call)
    BY <1>1, <1>2 DEF Told
  <2>2. CASE i \in 1..Len(c)
    BY <1>1, <2>1, <2>2 DEF Told
  <2>3. CASE i = Len(c) + 1
    BY <1>1, <2>1, <2>3
  <2> QED BY <1>1, <2>2, <2>3
<1>3. ASSUME Told(c, call) PROVE Told(Append(c, m), call)
  <2>1. PICK i \in 1..Len(c) :
          \E k \in DOMAIN c[i].results : Tells(c[i].results[k], call)
    BY <1>1, <1>3 DEF Told
  <2>2. i \in 1..(Len(c) + 1) /\ Append(c, m)[i] = c[i]
    BY <1>1, <2>1
  <2> QED BY <1>1, <2>1, <2>2 DEF Told
<1>4. ASSUME NEW k \in DOMAIN m.results, Tells(m.results[k], call)
      PROVE  Told(Append(c, m), call)
  <2>1. Len(c) + 1 \in 1..(Len(c) + 1)
    BY <1>1
  <2> QED BY <1>1, <1>4, <2>1 DEF Told
<1> QED BY <1>2, <1>3, <1>4

(* Of a call of the snapshot's last turn a resume knows what the tail of the *)
(* log tells.                                                                *)
LEMMA OutcomeKnown ==
  ASSUME Typed, LogsMatched, StartedOnce, NEW r \in Attempts,
         NEW calls \in Seq(Calls), NEW k \in DOMAIN calls
  PROVE  OutcomeOf(log[r], calls, k) = calls[k] <=> Finished(log[r], calls[k])
<1> DEFINE events == log[r]
           answering == ResultsOf(events, calls[k])
<1>1. events \in Seq(EventType) /\ Len(events) \in Nat /\ DOMAIN events = 1..Len(events)
      /\ calls[k] # Interrupted
  BY TurnNumbers DEF Typed, TypeOK, StoreType
<1>2. ASSUME NEW j \in answering
      PROVE  \E i \in ToolTail(events) :
               /\ j = i + 1 /\ j \in DOMAIN events /\ events[i] = ToolCallStarted(calls[k])
               /\ events[j] \in {ToolCallResult(calls[k]), ToolCallResult(Interrupted)}
  <2>1. PICK i \in ToolTail(events) :
          j \in ToolTail(events) /\ Pair(events, ToolTail(events), i, j)
          /\ events[i].call = calls[k]
    BY DEF ResultsOf
  <2> QED BY <2>1, PairNext
<1>3. CASE answering = {}
  <2>1. OutcomeOf(events, calls, k) # calls[k]
    BY <1>1, <1>3 DEF OutcomeOf
  <2>2. ASSUME Finished(events, calls[k]) PROVE FALSE
    <3>1. PICK i \in ToolTail(events) :
            /\ i + 1 \in DOMAIN events
            /\ events[i] = ToolCallStarted(calls[k]) /\ events[i + 1] = ToolCallResult(calls[k])
      BY <2>2 DEF Finished
    <3>2. i \in 1..Len(events)
      BY <1>1 DEF ToolTail
    <3>3. i + 1 \in ToolTail(events)
      <4>1. ToolEvent(events[i + 1])
        BY <3>1 DEF ToolEvent, ToolCallResult, Event
      <4>2. \A m \in DOMAIN events : events[m].kind = "model_call" => m < i
        BY DEF ToolTail
      <4>3. \A m \in DOMAIN events : events[m].kind = "model_call" => m < i + 1
        BY <1>1, <3>2, <4>2
      <4> QED BY <3>1, <4>1, <4>3 DEF ToolTail
    <3>4. \A m \in ToolTail(events) : ~(i < m /\ m < i + 1)
      <4>1. \A m \in ToolTail(events) : m \in 1..Len(events)
        BY <1>1 DEF ToolTail
      <4> QED BY <3>2, <4>1
    <3>5. Pair(events, ToolTail(events), i, i + 1) /\ events[i].call = calls[k]
      BY <3>1, <3>2, <3>4 DEF Pair, ToolCallStarted, ToolCallResult, Event
    <3>6. i + 1 \in answering
      BY <3>3, <3>5 DEF ResultsOf
    <3> QED BY <1>3, <3>6
  <2> QED BY <2>1, <2>2
<1>4. CASE answering # {}
  <2>1. PICK j \in answering : OutcomeOf(events, calls, k) = events[j].call
    BY <1>4 DEF OutcomeOf
  <2>2. PICK i \in ToolTail(events) :
          /\ j = i + 1 /\ j \in DOMAIN events /\ events[i] = ToolCallStarted(calls[k])
          /\ events[j] \in {ToolCallResult(calls[k]), ToolCallResult(Interrupted)}
    BY <1>2
  <2>3. ASSUME events[j].call = calls[k] PROVE Finished(events, calls[k])
    <3>1. events[j] # ToolCallResult(Interrupted)
      BY <1>1, <2>3 DEF ToolCallResult, Event
    <3> QED BY <2>2, <3>1 DEF Finished
  <2>4. ASSUME Finished(events, calls[k]) PROVE events[j].call = calls[k]
    <3>1. PICK h \in ToolTail(events) :
            /\ events[h] = ToolCallStarted(calls[k])
            /\ events[h + 1] = ToolCallResult(calls[k])
      BY <2>4 DEF Finished
    <3>2. h = i
      <4>1. h \in DOMAIN events /\ i \in DOMAIN events
        BY DEF ToolTail
      <4>2. events[i].kind = "started" /\ events[h] = events[i]
        BY <2>2, <3>1 DEF ToolCallStarted, Event
      <4> QED BY <4>1, <4>2 DEF StartedOnce
    <3> QED BY <2>2, <3>1, <3>2 DEF ToolCallResult, Event
  <2> QED BY <2>1, <2>3, <2>4
<1> QED BY <1>3, <1>4

(* What Known means.                                                         *)
LEMMA KnownMeans ==
  Typed /\ LogsMatched /\ StartedOnce =>
    \A r \in Attempts : \A call :
      /\ call \in Known(r) <=> Told(Reconciled(r), call)
      /\ call \in Known(r) <=> KnownFrom(record[r].messages, log[r], call)
<1> SUFFICES ASSUME Typed, LogsMatched, StartedOnce, NEW r \in Attempts, NEW call
             PROVE  /\ call \in Known(r) <=> Told(Reconciled(r), call)
                    /\ call \in Known(r) <=> KnownFrom(record[r].messages, log[r], call)
  OBVIOUS
<1> DEFINE conversation == record[r].messages
           calls == conversation[Len(conversation)].calls
           closing_message == Message("user", <<>>, Answers(calls, log[r]))
<1>1. call \in Known(r) <=> Told(Reconciled(r), call)
  BY DEF Known, Told, Tells
<1>2. CASE ~EndsInCalls(conversation, log[r])
  <2>1. Reconciled(r) = conversation
    BY <1>2 DEF Reconciled
  <2> QED BY <1>1, <1>2, <2>1 DEF KnownFrom
<1>3. CASE EndsInCalls(conversation, log[r])
  <2>1. /\ conversation \in Seq(MessageType) /\ calls \in Seq(Calls)
        /\ closing_message \in MessageType
        /\ Reconciled(r) = Append(conversation, closing_message)
    BY <1>3, ReconciledCases
  <2>2. Told(Reconciled(r), call) <=>
          \/ Told(conversation, call)
          \/ \E k \in DOMAIN closing_message.results : Tells(closing_message.results[k], call)
    <3> HIDE DEF conversation, closing_message
    <3> QED BY <2>1, ToldAppend
  <2>3. closing_message.results =
          [k \in DOMAIN calls |-> Answer(calls[k], OutcomeOf(log[r], calls, k))]
    BY DEF Message, Answers
  <2>4. (\E k \in DOMAIN closing_message.results : Tells(closing_message.results[k], call))
          <=> \E k \in DOMAIN calls : calls[k] = call /\ OutcomeOf(log[r], calls, k) = calls[k]
    <3> HIDE DEF closing_message, calls
    <3>1. DOMAIN closing_message.results = DOMAIN calls
      BY <2>3
    <3>2. ASSUME NEW k \in DOMAIN calls
          PROVE  Tells(closing_message.results[k], call) <=>
                   calls[k] = call /\ OutcomeOf(log[r], calls, k) = calls[k]
      <4>1. closing_message.results[k] = Answer(calls[k], OutcomeOf(log[r], calls, k))
        BY <2>3
      <4> QED BY <4>1 DEF Tells, Answer
    <3> QED BY <3>1, <3>2
  <2>5. (\E k \in DOMAIN calls : calls[k] = call /\ OutcomeOf(log[r], calls, k) = calls[k])
          <=> (\E k \in DOMAIN calls : calls[k] = call) /\ Finished(log[r], call)
    <3> HIDE DEF calls
    <3>1. \A k \in DOMAIN calls :
            OutcomeOf(log[r], calls, k) = calls[k] <=> Finished(log[r], calls[k])
      BY <2>1, OutcomeKnown
    <3> QED BY <3>1
  <2> QED BY <1>1, <1>3, <2>2, <2>4, <2>5 DEF KnownFrom
<1> QED BY <1>1, <1>2, <1>3

(* A new event at the end of a log takes nothing from the tail, unless it is *)
(* a ModelCall, and adds nothing to what it tells but its own result.        *)
LEMMA FinishedAppend ==
  ASSUME NEW events \in Seq(EventType), NEW event \in EventType, NEW call
  PROVE  /\ event.kind # "model_call" /\ Finished(events, call) =>
              Finished(Append(events, event), call)
         /\ event # ToolCallResult(call) /\ Finished(Append(events, event), call) =>
              Finished(events, call)
         /\ event.kind = "model_call" => ~Finished(Append(events, event), call)
<1> DEFINE longer == Append(events, event)
<1>1. /\ DOMAIN longer = 1..(Len(events) + 1) /\ Len(events) \in Nat
      /\ DOMAIN events = 1..Len(events)
      /\ \A i \in 1..Len(events) : longer[i] = events[i]
      /\ longer[Len(events) + 1] = event
  BY Grown
<1> HIDE DEF longer
<1>2. ASSUME event.kind # "model_call", Finished(events, call) PROVE Finished(longer, call)
  <2>1. PICK i \in ToolTail(events) :
          /\ i + 1 \in DOMAIN events
          /\ events[i] = ToolCallStarted(call) /\ events[i + 1] = ToolCallResult(call)
    BY <1>2 DEF Finished
  <2>2. i \in 1..Len(events) /\ i + 1 \in 1..Len(events)
    BY <1>1, <2>1 DEF ToolTail
  <2>3. i \in DOMAIN longer /\ i + 1 \in DOMAIN longer
    BY <1>1, <2>2
  <2>4. \A j \in DOMAIN longer : longer[j].kind = "model_call" => j < i
    <3> TAKE j \in DOMAIN longer
    <3>1. CASE j \in 1..Len(events)
      BY <1>1, <3>1 DEF ToolTail
    <3>2. CASE j = Len(events) + 1
      BY <1>1, <1>2, <3>2
    <3> QED BY <1>1, <3>1, <3>2
  <2>5. i \in ToolTail(longer)
    <3>1. ToolEvent(longer[i])
      BY <1>1, <2>2 DEF ToolTail
    <3> QED BY <2>3, <2>4, <3>1 DEF ToolTail
  <2> QED BY <1>1, <2>1, <2>2, <2>3, <2>5 DEF Finished
<1>3. ASSUME Finished(longer, call)
      PROVE  /\ event.kind # "model_call"
             /\ event # ToolCallResult(call) => Finished(events, call)
  <2>1. PICK i \in ToolTail(longer) :
          /\ i + 1 \in DOMAIN longer
          /\ longer[i] = ToolCallStarted(call) /\ longer[i + 1] = ToolCallResult(call)
    BY <1>3 DEF Finished
  <2>2. i \in 1..Len(events) /\ Len(events) + 1 \in DOMAIN longer
    BY <1>1, <2>1 DEF ToolTail
  <2>3. event.kind # "model_call"
    <3>1. event.kind = "model_call" => Len(events) + 1 < i
      BY <1>1, <2>2 DEF ToolTail
    <3> QED BY <1>1, <2>2, <3>1
  <2>4. ASSUME event # ToolCallResult(call) PROVE Finished(events, call)
    <3>1. i + 1 \in 1..Len(events)
      BY <1>1, <2>1, <2>2, <2>4
    <3>2. \A j \in DOMAIN events : events[j].kind = "model_call" => j < i
      <4> TAKE j \in DOMAIN events
      <4>1. j \in DOMAIN longer /\ longer[j] = events[j]
        BY <1>1
      <4> QED BY <4>1 DEF ToolTail
    <3>3. ToolEvent(events[i])
      BY <1>1, <2>2 DEF ToolTail
    <3>4. i \in ToolTail(events)
      BY <1>1, <2>2, <3>2, <3>3 DEF ToolTail
    <3> QED BY <1>1, <2>1, <2>2, <3>1, <3>4 DEF Finished
  <2> QED BY <2>3, <2>4
<1> QED BY <1>2, <1>3 DEF longer

(* What the conversation tells it goes on telling.                           *)
LEMMA RememberedStep ==
  /\ Typed /\ ConversationInvariant /\ LogsMatched /\ StartedOnce /\ Remembered
  /\ [Next]_vars
  => Remembered'
<1> SUFFICES ASSUME Typed, ConversationInvariant, LogsMatched, StartedOnce, Remembered,
                    [Next]_vars,
                    pc' \in {"ask", "modelcall", "tick", "save", "stop", "close", "closed"},
                    NEW call, KnownFrom(record'[rid'].messages, log'[rid'], call)
             PROVE  Told(messages', call)
  BY DEF Remembered
<1> USE DEF store, talk
<1>1. /\ rid \in Attempts /\ messages \in Seq(MessageType) /\ results \in Seq(AnswerType)
      /\ log[rid] \in Seq(EventType)
  BY DEF Typed, TypeOK, ControlType, TalkType, StoreType, AnswerType
<1>2. CASE ModelAnswers
  <2>1. PICK n \in 0..MaxCalls :
          messages' = Append(messages,
                        Message("assistant", [i \in 1..n |-> <<billed + 1, i>>], <<>>))
    BY <1>2 DEF ModelAnswers
  <2>2. [i \in 1..n |-> <<billed + 1, i>>] \in Seq(Calls)
    <3>1. billed + 1 \in 1..MaxTurns
      BY <1>2 DEF ModelAnswers, Typed, TypeOK, ObservedType
    <3> QED BY <3>1 DEF Calls
  <2>3. Message("assistant", [i \in 1..n |-> <<billed + 1, i>>], <<>>) \in MessageType
    BY <2>2, Constructors
  <2>4. Told(messages, call)
    BY <1>2 DEF ModelAnswers, Remembered
  <2> QED BY <1>1, <2>1, <2>3, <2>4, ToldAppend
<1>3. CASE StopNudge
  <2>1. Told(messages, call)
    BY <1>3 DEF StopNudge, Remembered
  <2> QED BY <1>1, <1>3, <2>1, ToldAppend, Constructors DEF StopNudge
<1>4. CASE AppendModelCall \/ AppendBudgetTick \/ AppendDisposition
  <2>1. PICK event \in {ModelCall, BudgetTick, DispositionSet} : AppendEvent(event)
    BY <1>4 DEF AppendModelCall, AppendBudgetTick, AppendDisposition
  <2>2. event \in EventType /\ event # ToolCallResult(call)
    BY Constructors DEF ModelCall, BudgetTick, DispositionSet, ToolCallResult, Event
  <2>3. UNCHANGED <<record, rid, messages>> /\ pc \in {"modelcall", "tick", "close"}
    BY <1>4 DEF AppendModelCall, AppendBudgetTick, AppendDisposition
  <2>4. log'[rid] = Append(log[rid], event)
    BY <1>1, <2>1, <2>2, Appended DEF AppendEvent
  <2>5. KnownFrom(record[rid].messages, log[rid], call)
    BY <1>1, <2>2, <2>3, <2>4, FinishedAppend DEF KnownFrom, EndsInCalls
  <2> QED BY <2>3, <2>5 DEF Remembered
<1>5. CASE SaveTurn
  <2>1. pc' = "stop" /\ LastMessage.calls = <<>> /\ rid' = rid /\ messages' = messages
    BY <1>5 DEF SaveTurn
  <2>2. record'[rid].messages = messages
    BY <1>5 DEF SaveTurn, Checkpoint, Typed, TypeOK, StoreType, ControlType
  <2> QED BY <2>1, <2>2 DEF KnownFrom, EndsInCalls, LastMessage
<1>6. CASE SaveResults
  <2>1. messages' = Append(messages, Message("user", <<>>, results)) /\ rid' = rid
    BY <1>6 DEF SaveResults, BatchDone
  <2>2. Message("user", <<>>, results) \in MessageType
    BY <1>1, Constructors
  <2>3. LastMessage'.calls = <<>>
    BY <2>1, <2>2, LastAppended DEF Message
  <2>4. record'[rid].messages = messages'
    BY <1>6 DEF SaveResults, Checkpoint, Typed, TypeOK, StoreType, ControlType
  <2> QED BY <2>1, <2>3, <2>4 DEF KnownFrom, EndsInCalls, LastMessage
<1>7. CASE FinishRun \/ FinishDiscipline
  <2>1. /\ messages' = Append(messages, Message("user", <<>>, results))
        /\ UNCHANGED <<record, log, rid>> /\ AtBatch
        /\ Len(results) = Len(LastMessage.calls)
    BY <1>7 DEF FinishRun, FinishDiscipline, BatchDone, Close, AtBatch
  <2>2. Message("user", <<>>, results) \in MessageType
        /\ Message("user", <<>>, results).results = results
    BY <1>1, Constructors DEF Message
  <2>3. record[rid].messages = messages
    BY <2>1 DEF ConversationInvariant, SavedTurn
  <2>4. CASE Told(messages, call)
    BY <1>1, <2>1, <2>2, <2>4, ToldAppend
  <2>5. CASE \E k \in DOMAIN LastMessage.calls : LastMessage.calls[k] = call
    <3>1. PICK k \in DOMAIN LastMessage.calls : LastMessage.calls[k] = call
      BY <2>5
    <3>2. k \in DOMAIN results
      BY <2>1, TurnCalls DEF AtBatch
    <3>3. results[k] = Answer(call, call)
      BY <2>1, <3>1, <3>2 DEF ConversationInvariant, InBatch
    <3>4. Tells(results[k], call)
      BY <3>3 DEF Tells, Answer
    <3> QED BY <1>1, <2>1, <2>2, <3>2, <3>4, ToldAppend
  <2> QED BY <2>1, <2>3, <2>4, <2>5 DEF KnownFrom, LastMessage
<1>8. CASE GiveUp \/ UNCHANGED vars
  BY <1>8 DEF GiveUp, Close, vars, Remembered
<1>9. CASE ResumeCrash
  <2>1. PICK r \in Attempts :
          /\ log' = RepairedLog(r) /\ rid' = r /\ messages' = Reconciled(r)
          /\ record' = record
    BY <1>9 DEF ResumeCrash, Begin
  <2>2. KnownFrom(record[r].messages, log[r], call)
    <3>1. CASE log' = log
      BY <2>1, <3>1
    <3>2. CASE /\ EndsInCalls(record[r].messages, log[r])
               /\ log' = [log EXCEPT ![r] = Append(@, ToolCallResult(Interrupted))]
      <4>1. ToolCallResult(Interrupted) \in EventType
        BY Constructors
      <4>2. log'[r] = Append(log[r], ToolCallResult(Interrupted))
            /\ log[r] \in Seq(EventType)
        BY <3>2, <4>1, Appended
      <4>3. CASE Told(record[r].messages, call)
        BY <4>3 DEF KnownFrom
      <4>4. CASE /\ \E k \in DOMAIN record[r].messages[Len(record[r].messages)].calls :
                      record[r].messages[Len(record[r].messages)].calls[k] = call
                 /\ Finished(log'[r], call)
        <5>1. call # Interrupted
          <6>1. record[r].messages[Len(record[r].messages)].calls \in Seq(Calls)
            BY <3>2, ReconciledCases
          <6>2. call \in Calls
            BY <4>4, <6>1
          <6> QED BY <6>2, TurnNumbers
        <5>2. ToolCallResult(Interrupted) # ToolCallResult(call)
          BY <5>1 DEF ToolCallResult, Event
        <5>3. Finished(log[r], call)
          BY <4>1, <4>2, <4>4, <5>2, FinishedAppend
        <5> QED BY <3>2, <4>4, <5>3 DEF KnownFrom
      <4> QED BY <2>1, <4>3, <4>4 DEF KnownFrom
    <3> QED BY <2>1, <3>1, <3>2 DEF RepairedLog
  <2> QED BY <2>1, <2>2, KnownMeans
<1>10. CASE ResumeFresh \/ Redispatch
  <2>1. ~HasRecord(rid') /\ rid' \in Attempts /\ record' = record
    <3>1. CASE ResumeFresh
      <4>1. PICK q \in Attempts : Latest(q) /\ q + 1 \in Attempts /\ rid' = q + 1
        BY <3>1 DEF ResumeFresh
      <4> QED BY <3>1, <4>1 DEF Latest, Attempts, ResumeFresh, Begin
    <3>2. CASE Redispatch
      BY <3>2 DEF Redispatch, Begin, Attempts
    <3> QED BY <1>10, <3>1, <3>2
  <2>2. record'[rid'].messages = <<>>
    BY <2>1 DEF HasRecord, NoRecord
  <2> QED BY <2>2 DEF KnownFrom, Told, EndsInCalls
<1> QED BY <1>2, <1>3, <1>4, <1>5, <1>6, <1>7, <1>8, <1>9, <1>10
        DEF Next, Turn, Batch, Terminal, Restart, Rest, HandleFinish, BatchOpen, StartCall,
            RunCall, WithholdCall, LogResult, SaveDisposition, Crash

(* What a resume would know, at every step.                                  *)
LEMMA RememberedAlways == Spec => [](StartedOnce /\ Remembered)
<1>1. Init => StartedOnce /\ Remembered
  <2> SUFFICES ASSUME Init PROVE StartedOnce /\ Remembered
    OBVIOUS
  <2>1. StartedOnce
    BY DEF Init, StartedOnce
  <2>2. rid \in Attempts /\ record[rid].messages = <<>>
    BY DEF Init, Attempts, NoRecord
  <2>3. \A call : ~KnownFrom(record[rid].messages, log[rid], call)
    BY <2>2 DEF KnownFrom, Told, EndsInCalls
  <2> QED BY <2>1, <2>3 DEF Remembered
<1> QED BY <1>1, TypedAlways, ConversationAlways, LogsAlways, TruthsAlways,
           StartedOnceStep, RememberedStep, PTL DEF Spec

(* A write to the store of an attempt takes no outcome from what a resume of *)
(* it would know, but for a ModelCall behind the turn a resume reconciled:   *)
(* the results read off the tail of the log are in memory only until the     *)
(* next checkpoint.                                                          *)
THEOREM ForgottenOnlyBehindResumeCorrect == Spec => ForgottenOnlyBehindResume
<1> DEFINE Invariant == /\ Typed /\ ConversationInvariant /\ LogsMatched /\ StartedOnce
                        /\ Remembered
           Forgetting(r) == Touched(r) =>
             \/ Known(r) \subseteq Known(r)'
             \/ /\ AppendModelCall /\ r = rid
                /\ EndsInCalls(record[r].messages, log[r])
           Means == \A r \in Attempts : \A call :
             call \in Known(r) <=> KnownFrom(record[r].messages, log[r], call)
<1>1. Typed /\ LogsMatched /\ StartedOnce => Means
  BY KnownMeans
<1>2. Invariant /\ Means /\ Means' /\ Next => \A r \in Attempts : Forgetting(r)
  <2> SUFFICES ASSUME Invariant, Means, Means', Next, NEW r \in Attempts, Touched(r),
                      ~ /\ AppendModelCall /\ r = rid
                        /\ EndsInCalls(record[r].messages, log[r])
               PROVE  Known(r) \subseteq Known(r)'
    OBVIOUS
  <2> SUFFICES ASSUME NEW call, KnownFrom(record[r].messages, log[r], call)
               PROVE  KnownFrom(record'[r].messages, log'[r], call)
    <3>1. \A call : call \in Known(r)' <=> KnownFrom(record'[r].messages, log'[r], call)
      OBVIOUS
    <3> QED BY <3>1
  <2> USE DEF store, talk
  <2>1. [Next]_vars /\ Typed
    OBVIOUS
  <2>2. /\ rid \in Attempts /\ messages \in Seq(MessageType) /\ results \in Seq(AnswerType)
    BY DEF Typed, TypeOK, ControlType, TalkType, AnswerType
  <2>3. CASE record'[r] # record[r]
    <3>1. /\ r = rid /\ record'[r].messages = messages'
          /\ SaveTurn \/ SaveResults \/ SaveDisposition
      BY <2>1, <2>3, RecordSteps
    <3>2. Told(messages', call) => KnownFrom(record'[r].messages, log'[r], call)
      BY <3>1 DEF KnownFrom
    <3>3. CASE SaveTurn \/ SaveDisposition
      <4>1. messages' = messages /\ pc \in {"save", "closed"}
        BY <3>3 DEF SaveTurn, SaveDisposition
      <4> QED BY <3>1, <3>2, <4>1 DEF Remembered
    <3>4. CASE SaveResults
      <4>1. /\ messages' = Append(messages, Message("user", <<>>, results))
            /\ AtBatch /\ pc = "calls" /\ Len(results) = Len(LastMessage.calls)
        BY <3>4 DEF SaveResults, BatchDone, AtBatch
      <4>2. Message("user", <<>>, results) \in MessageType
            /\ Message("user", <<>>, results).results = results
        BY <2>2, Constructors DEF Message
      <4>3. record[r].messages = messages
        BY <3>1, <4>1 DEF ConversationInvariant, SavedTurn
      <4>4. CASE Told(messages, call)
        BY <2>2, <3>2, <4>1, <4>2, <4>4, ToldAppend
      <4>5. CASE \E k \in DOMAIN LastMessage.calls : LastMessage.calls[k] = call
        <5>1. PICK k \in DOMAIN LastMessage.calls : LastMessage.calls[k] = call
          BY <4>5
        <5>2. k \in DOMAIN results
          BY <4>1, TurnCalls
        <5>3. results[k] = Answer(call, call)
          BY <4>1, <5>1, <5>2 DEF ConversationInvariant, InBatch
        <5>4. Tells(results[k], call)
          BY <5>3 DEF Tells, Answer
        <5> QED BY <2>2, <3>2, <4>1, <4>2, <5>2, <5>4, ToldAppend
      <4> QED BY <4>3, <4>4, <4>5 DEF KnownFrom, LastMessage
    <3> QED BY <3>1, <3>3, <3>4
  <2>4. ASSUME record'[r] = record[r], NEW q \in Attempts, NEW event \in EventType,
               log' = [log EXCEPT ![q] = Append(@, event)],
               event.kind = "model_call" => ~EndsInCalls(record[q].messages, log[q])
        PROVE  KnownFrom(record'[r].messages, log'[r], call)
    <3>1. CASE r # q
      BY <2>4, <3>1, Appended
    <3>2. CASE r = q
      <4>1. log'[q] = Append(log[q], event) /\ log[q] \in Seq(EventType)
        BY <2>4, Appended
      <4>2. event.kind # "model_call" /\ Finished(log[q], call) => Finished(log'[q], call)
        BY <4>1, FinishedAppend
      <4>3. CASE Told(record[r].messages, call)
        BY <2>4, <4>3 DEF KnownFrom
      <4>4. CASE ~Told(record[r].messages, call)
        <5>1. /\ EndsInCalls(record[r].messages, log[r]) /\ Finished(log[r], call)
              /\ \E k \in DOMAIN record[r].messages[Len(record[r].messages)].calls :
                   record[r].messages[Len(record[r].messages)].calls[k] = call
          BY <4>4 DEF KnownFrom
        <5>2. Finished(log'[r], call)
          BY <2>4, <3>2, <4>2, <5>1
        <5>3. EndsInCalls(record[r].messages, log'[r])
          BY <5>1 DEF EndsInCalls
        <5> QED BY <2>4, <5>1, <5>2, <5>3 DEF KnownFrom
      <4> QED BY <4>3, <4>4
    <3> QED BY <3>1, <3>2
  <2>5. CASE record'[r] = record[r] /\ log'[r] # log[r]
    <3>1. CASE AppendModelCall
      <4>1. AppendEvent(ModelCall) /\ ModelCall \in EventType
        BY <3>1, Constructors DEF AppendModelCall
      <4>2. r = rid
        BY <2>2, <2>5, <4>1, Appended DEF AppendEvent
      <4> QED BY <2>2, <2>4, <2>5, <3>1, <4>1, <4>2 DEF AppendEvent
    <3>2. CASE AppendBudgetTick \/ AppendDisposition
      <4>1. PICK event \in {BudgetTick, DispositionSet} : AppendEvent(event)
        BY <3>2 DEF AppendBudgetTick, AppendDisposition
      <4>2. event \in EventType /\ event.kind # "model_call"
        BY Constructors DEF BudgetTick, DispositionSet, Event
      <4> QED BY <2>2, <2>4, <2>5, <4>1, <4>2 DEF AppendEvent
    <3>3. CASE StartCall /\ NextCall \in Calls /\ AppendEvent(ToolCallStarted(NextCall))
      <4>1. ToolCallStarted(NextCall) \in EventType
            /\ ToolCallStarted(NextCall).kind # "model_call"
        BY <3>3, Constructors DEF ToolCallStarted, Event
      <4> QED BY <2>2, <2>4, <2>5, <3>3, <4>1 DEF AppendEvent
    <3>4. CASE LogResult /\ NextCall \in Calls /\ AppendEvent(ToolCallResult(NextCall))
      <4>1. ToolCallResult(NextCall) \in EventType
            /\ ToolCallResult(NextCall).kind # "model_call"
        BY <3>4, Constructors DEF ToolCallResult, Event
      <4> QED BY <2>2, <2>4, <2>5, <3>4, <4>1 DEF AppendEvent
    <3>5. CASE \E q \in Attempts :
                 log' = [log EXCEPT ![q] = Append(@, ToolCallResult(Interrupted))]
      <4>1. ToolCallResult(Interrupted) \in EventType
            /\ ToolCallResult(Interrupted).kind # "model_call"
        BY Constructors DEF ToolCallResult, Event
      <4> QED BY <2>4, <2>5, <3>5, <4>1
    <3> QED BY <2>1, <2>5, <3>1, <3>2, <3>3, <3>4, <3>5, LogSteps
  <2> QED BY <2>3, <2>5 DEF Touched
<1>3. UNCHANGED vars => \A r \in Attempts : Forgetting(r)
  BY DEF Touched, vars, store
<1>4. Invariant /\ Means /\ Means' /\ [Next]_vars =>
        [\A r \in Attempts : Forgetting(r)]_vars
  BY <1>2
<1>5. Spec => [][\A r \in Attempts : Forgetting(r)]_vars
  BY <1>1, <1>4, TypedAlways, ConversationAlways, LogsAlways, RememberedAlways, PTL DEF Spec
<1> QED BY <1>5 DEF ForgottenOnlyBehindResume
=============================================================================
