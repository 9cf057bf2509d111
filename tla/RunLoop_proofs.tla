--------------------------- MODULE RunLoop_proofs ---------------------------
(***************************************************************************)
(* Theorems about RunLoop for every value of its constants: the types, the  *)
(* safety invariants, and that the loop implements FinishContract.          *)
(***************************************************************************)
EXTENDS RunLoop, SequenceTheorems, TLAPS

USE ClaimsAssumption, RunLoopAssumption

(* The disposition constructors build the records TypeOK speaks of.          *)
LEMMA Dispositions ==
  /\ NoFinish.kind = "none" /\ Running.kind = "running"
  /\ NoFinish # Running
  /\ NoFinish \notin Accepted /\ Running \notin Accepted
  /\ NoFinish \notin GiveUps /\ Running \notin GiveUps
  /\ Accepted \cap GiveUps = {}
  /\ \A k \in EvidenceKinds, c \in ChangeEvidence :
       Disposition(k, HasChecks, c) \in Accepted
  /\ \A k \in DeclaredKinds : Plain(k) \in Accepted
BY DEF NoFinish, Running, Plain, Disposition, Accepted, GiveUps, EvidenceKinds,
       DeclaredKinds, ChangeEvidence

(* What classify_change returns is change evidence.                          *)
LEMMA ChangesAreEvidence == \A t : Changes(t) \subseteq ChangeEvidence
BY DEF Changes, ChangeEvidence

(* Recording a verdict keeps the window a sequence of verdicts.              *)
LEMMA RecordType ==
  ASSUME NEW S, verdicts \in Seq(S), NEW v \in S, Record(v)
  PROVE  verdicts' \in Seq(S)
<1> DEFINE all == Append(verdicts, v)
<1>1. all \in Seq(S) /\ all # <<>>
  BY AppendProperties
<1>2. Tail(all) \in Seq(S)
  BY <1>1, HeadTailProperties
<1> QED BY <1>1, <1>2 DEF Record

(* The counters the end of a turn computes.                                  *)
LEMMA CountersType ==
  ASSUME NudgeType
  PROVE  /\ StatusesWithReply \in Nat
         /\ StatusesSettled \in Nat
         /\ SinceChangeNow \in Nat
<1>1. statuses \in Nat /\ sinceChange \in Nat
  BY DEF NudgeType
<1>2. StatusesWithReply \in Nat
  BY <1>1 DEF StatusesWithReply
<1>3. StatusesSettled \in Nat
  BY <1>1 DEF StatusesSettled
<1>4. SinceChangeNow \in Nat
  BY <1>1 DEF SinceChangeNow
<1> QED BY <1>2, <1>3, <1>4

(* What the terminals write.                                                 *)
LEMMA ReturnType ==
  ASSUME LatchType, NEW d \in Accepted \cup GiveUps, NEW n \in Nat, NEW facts,
         facts \in {Facts(n), NoFacts}, Return(d, facts),
         left' = left, injected' = injected, ControlType
  PROVE  ControlType' /\ ResultType'
<1> DEFINE AllFacts == [kept : BOOLEAN, green : BOOLEAN, dirty : BOOLEAN, statuses : Nat]
<1>1. Facts(n) \in AllFacts
  BY DEF LatchType, Facts
<1>2. NoFacts \in AllFacts
  BY DEF NoFacts
<1>3. facts \in AllFacts
  BY <1>1, <1>2
<1>4. ResultType'
  BY <1>3 DEF Return, ResultType
<1>5. ControlType'
  BY DEF Return, ControlType
<1> QED BY <1>4, <1>5

(* The endings without an accepted claim are give-ups.                       *)
LEMMA GiveUpKinds ==
  \A kind \in {"budget_exhausted", "max_iterations", "backend_error", "truncated",
               "stopped_without_finish", "finish_discipline"} :
    Plain(kind) \in GiveUps
BY DEF GiveUps

(* A call leaves a tree of the model's.                                      *)
LEMMA TreeType ==
  ASSUME WorkType, NEW isError, NEW t \in Trees, TreeBecomes(t, isError)
  PROVE  WorkType'
<1>1. stray' \in {"no", "since", "before"}
  BY DEF WorkType, TreeBecomes
<1>2. trail' \in BOOLEAN
  BY Zenon DEF WorkType, TreeBecomes
<1> QED BY <1>1, <1>2 DEF TreeBecomes, WorkType

(* What an action leaves alone keeps its type.                               *)
LEMMA Frames ==
  /\ ControlType /\ UNCHANGED control => ControlType'
  /\ PassType /\ UNCHANGED pass => PassType'
  /\ LatchType /\ UNCHANGED latch => LatchType'
  /\ NudgeType /\ UNCHANGED nudging => NudgeType'
  /\ SchemaType /\ UNCHANGED schema => SchemaType'
  /\ WorkType /\ UNCHANGED work => WorkType'
  /\ VerdictType /\ UNCHANGED verdict => VerdictType'
  /\ ResultType /\ UNCHANGED result => ResultType'
<1>1. ControlType /\ UNCHANGED control => ControlType'
  BY DEF ControlType, control
<1>2. PassType /\ UNCHANGED pass => PassType'
  BY DEF PassType, pass
<1>3. LatchType /\ UNCHANGED latch => LatchType'
  BY DEF LatchType, latch
<1>4. NudgeType /\ UNCHANGED nudging => NudgeType'
  BY DEF NudgeType, nudging
<1>5. SchemaType /\ UNCHANGED schema => SchemaType'
  BY DEF SchemaType, schema
<1>6. WorkType /\ UNCHANGED work => WorkType'
  BY DEF WorkType, work
<1>7. VerdictType /\ UNCHANGED verdict => VerdictType'
  BY DEF VerdictType, verdict
<1>8. ResultType /\ UNCHANGED result => ResultType'
  BY DEF ResultType, result
<1> QED BY <1>1, <1>2, <1>3, <1>4, <1>5, <1>6, <1>7, <1>8

-----------------------------------------------------------------------------
(* Type correctness, one lemma per group of actions.                         *)

(* The initial state is typed.                                               *)
LEMMA TypeInit == Init => TypeOK
<1> SUFFICES ASSUME Init PROVE TypeOK
  OBVIOUS
<1> USE DEF Init
<1>1. ControlType
  <2>1. left \in 0..MaxCalls
    OBVIOUS
  <2> QED BY <2>1 DEF ControlType
<1>2. PassType
  <2>1. iterations \in 0..MaxIterations /\ attempt \in 0..MaxRetries
    OBVIOUS
  <2> QED BY <2>1 DEF PassType
<1>3. LatchType
  BY DEF LatchType
<1>4. NudgeType
  <2>1. nudges \in 0..MaxNudges
    OBVIOUS
  <2> QED BY <2>1 DEF NudgeType
<1>5. SchemaType
  BY DEF SchemaType
<1>6. WorkType /\ VerdictType
  BY DEF WorkType, VerdictType
<1>7. ResultType
  BY DEF ResultType, NoFacts
<1> QED BY <1>1, <1>2, <1>3, <1>4, <1>5, <1>6, <1>7 DEF TypeOK

(* The head of the loop keeps types.                                         *)
LEMMA TypeHead == TypeOK /\ TopOfLoop => TypeOK'
<1> SUFFICES ASSUME TypeOK, TopOfLoop PROVE TypeOK'
  OBVIOUS
<1> USE Frames DEF TypeOK
<1>0. statuses \in Nat
  BY DEF NudgeType
<1>1. CASE WallClockExhausted
  <2>1. ControlType' /\ ResultType'
    BY <1>0, <1>1, ReturnType, GiveUpKinds DEF WallClockExhausted
  <2> QED BY <1>1, <2>1 DEF WallClockExhausted
<1>2. CASE TokensExhausted
  <2>1. ControlType' /\ ResultType'
    BY <1>0, <1>2, ReturnType, GiveUpKinds DEF TokensExhausted
  <2> QED BY <1>2, <2>1 DEF TokensExhausted
<1>3. CASE StartPass
  <2>1. ControlType'
    BY <1>3 DEF StartPass, ControlType
  <2>2. PassType'
    BY <1>3 DEF StartPass, PassType
  <2> QED BY <1>3, <2>1, <2>2 DEF StartPass
<1>4. CASE IterationCap
  <2>1. ControlType' /\ ResultType'
    BY <1>0, <1>4, ReturnType, GiveUpKinds DEF IterationCap
  <2> QED BY <1>4, <2>1 DEF IterationCap
<1> QED BY <1>1, <1>2, <1>3, <1>4 DEF TopOfLoop

(* The model call and its retries keep types.                                *)
LEMMA TypeModel == TypeOK /\ ModelCall => TypeOK'
<1> SUFFICES ASSUME TypeOK, ModelCall PROVE TypeOK'
  OBVIOUS
<1> USE Frames DEF TypeOK
<1>1. CASE Retry
  <2>1. PassType'
    BY <1>1 DEF Retry, MayRetry, PassType
  <2> QED BY <1>1, <2>1 DEF Retry
<1>2. CASE InterceptOverflow
  <2>1. PassType'
    BY <1>2 DEF InterceptOverflow, PassType
  <2> QED BY <1>2, <2>1 DEF InterceptOverflow
<1>3. CASE BackendFails
  <2>1. ControlType' /\ ResultType'
    BY <1>3, ReturnType, GiveUpKinds DEF BackendFails
  <2> QED BY <1>3, <2>1 DEF BackendFails
<1>4. CASE TurnReturns
  <2>1. PICK cost \in 0..MaxCost, n \in 0..MaxCalls, inject \in BOOLEAN :
          /\ consumed' = consumed + cost
          /\ injected' = inject
          /\ left' = IF inject THEN 0 ELSE n
          /\ pc' = IF n = 0 THEN "stop" ELSE "calls"
    BY <1>4 DEF TurnReturns
  <2>2. ControlType'
    BY <2>1 DEF ControlType
  <2>3. PassType'
    BY <1>4, <2>1 DEF TurnReturns, PassType
  <2>4. LatchType' /\ VerdictType'
    BY <1>4 DEF TurnReturns, LatchType, VerdictType
  <2> QED BY <1>4, <2>2, <2>3, <2>4 DEF TurnReturns
<1> QED BY <1>1, <1>2, <1>3, <1>4 DEF ModelCall

(* A turn without calls keeps types.                                         *)
LEMMA TypeNoCalls == TypeOK /\ NoCalls => TypeOK'
<1> SUFFICES ASSUME TypeOK, NoCalls PROVE TypeOK'
  OBVIOUS
<1> USE Frames DEF TypeOK
<1>1. CASE Truncated
  <2>1. ControlType' /\ ResultType'
    BY <1>1, ReturnType, GiveUpKinds DEF Truncated
  <2> QED BY <1>1, <2>1 DEF Truncated
<1>2. CASE StopNudge
  <2>1. ControlType'
    BY <1>2 DEF StopNudge, ControlType
  <2>2. NudgeType'
    BY <1>2, CountersType DEF StopNudge, NudgeType
  <2> QED BY <1>2, <2>1, <2>2 DEF StopNudge
<1>3. CASE StopNudgesExhausted
  <2>1. NudgeType'
    BY <1>3, CountersType DEF StopNudgesExhausted, NudgeType
  <2>2. ControlType' /\ ResultType'
    BY <1>3, CountersType, ReturnType, GiveUpKinds DEF StopNudgesExhausted
  <2> QED BY <1>3, <2>1, <2>2 DEF StopNudgesExhausted
<1>4. CASE StoppedWithoutFinish
  <2>1. ControlType' /\ ResultType'
    BY <1>4, ReturnType, GiveUpKinds DEF StoppedWithoutFinish
  <2> QED BY <1>4, <2>1 DEF StoppedWithoutFinish
<1> QED BY <1>1, <1>2, <1>3, <1>4 DEF NoCalls

(* Every kind of call keeps types.                                           *)
LEMMA TypeCall == TypeOK /\ OneCall => TypeOK'
<1> SUFFICES ASSUME TypeOK, OneCall PROVE TypeOK'
  OBVIOUS
<1> USE Frames DEF TypeOK
<1>0. ASSUME NextCall, UNCHANGED <<pc, injected>> PROVE ControlType'
  BY <1>0 DEF NextCall, ControlType
<1>1. CASE RunChecksCall
  <2>1. LatchType'
    BY <1>1 DEF RunChecksCall, RunChecksResults, GateRuns, LatchType
  <2>2. WorkType'
    BY <1>1 DEF RunChecksCall, WorkType
  <2> QED BY <1>0, <1>1, <2>1, <2>2 DEF RunChecksCall, ToolCall
<1>2. CASE EditFileCall
  <2>1. LatchType' /\ WorkType'
    BY <1>2, TreeType DEF EditFileCall, LatchMutation, LatchType
  <2> QED BY <1>0, <1>2, <2>1 DEF EditFileCall, ToolCall
<1>3. CASE BashSucceeds
  <2>1. LatchType' /\ WorkType'
    BY <1>3, TreeType DEF BashSucceeds, LatchMutation, LatchType
  <2> QED BY <1>0, <1>3, <2>1 DEF BashSucceeds, ToolCall
<1>4. CASE BashFails
  <2>1. WorkType'
    BY <1>4, TreeType DEF BashFails
  <2> QED BY <1>0, <1>4, <2>1 DEF BashFails, ToolCall
<1>5. CASE InertCall
  BY <1>0, <1>5 DEF InertCall, ToolCall
<1>6. CASE ClaimDone
  <2>1. VerdictType'
    BY <1>6, Dispositions, ChangesAreEvidence
       DEF VerdictType, ClaimDone, Claiming, Accept, Reject, EvidenceKinds
  <2> QED BY <1>0, <1>6, <2>1 DEF ClaimDone, Claiming
<1>7. CASE ClaimAlreadySatisfied
  <2>1. VerdictType'
    BY <1>7, Dispositions, ChangesAreEvidence
       DEF VerdictType, ClaimAlreadySatisfied, Claiming, Accept, Reject, EvidenceKinds
  <2> QED BY <1>0, <1>7, <2>1 DEF ClaimAlreadySatisfied, Claiming
<1>8. CASE ClaimDefeat
  <2>1. VerdictType'
    BY <1>8, Dispositions DEF VerdictType, ClaimDefeat, Accept, DeclaredKinds
  <2> QED BY <1>0, <1>8, <2>1 DEF ClaimDefeat, Claiming
<1>9. CASE ClaimMalformed
  <2>1. VerdictType'
    BY <1>9 DEF VerdictType, ClaimMalformed, Reject
  <2> QED BY <1>0, <1>9, <2>1 DEF ClaimMalformed, Claiming
<1>10. CASE ClaimInvalidAnswer
  <2>1. SchemaType'
    <3>1. verdicts' \in Seq(ErrorLists \cup {"ok"})
      BY <1>10, RecordType DEF SchemaType, ClaimInvalidAnswer
    <3>2. streak' \in Nat /\ prevErrors' \in ErrorLists
      BY <1>10 DEF SchemaType, ClaimInvalidAnswer, NextStreak
    <3> QED BY <3>1, <3>2 DEF SchemaType
  <2>2. VerdictType'
    BY <1>10, Dispositions DEF VerdictType, ClaimInvalidAnswer, DeclaredKinds
  <2> QED BY <1>0, <1>10, <2>1, <2>2 DEF ClaimInvalidAnswer, Claiming
<1>11. CASE ClaimValidAnswer
  <2>1. SchemaType'
    <3>1. verdicts' \in Seq(ErrorLists \cup {"ok"})
      BY <1>11, RecordType DEF SchemaType, ClaimValidAnswer
    <3> QED BY <1>11, <3>1 DEF SchemaType, ClaimValidAnswer
  <2>2. VerdictType'
    BY <1>11, Dispositions, ChangesAreEvidence
       DEF VerdictType, ClaimValidAnswer, Accept, Reject, EvidenceKinds
  <2> QED BY <1>0, <1>11, <2>1, <2>2 DEF ClaimValidAnswer, Claiming
<1> QED BY <1>1, <1>2, <1>3, <1>4, <1>5, <1>6, <1>7, <1>8, <1>9, <1>10, <1>11
        DEF OneCall

(* The end of a batch keeps types.                                           *)
LEMMA TypeBatch == TypeOK /\ EndOfBatch => TypeOK'
<1> SUFFICES ASSUME TypeOK, EndOfBatch PROVE TypeOK'
  OBVIOUS
<1> USE Frames DEF TypeOK
<1>1. CASE FinishRun
  <2>1. ControlType'
    BY <1>1 DEF FinishRun, Return, ControlType
  <2>2. NudgeType'
    BY <1>1, CountersType DEF FinishRun, NudgeType
  <2>3. ResultType'
    BY <1>1 DEF FinishRun, Return, ResultType, VerdictType
  <2> QED BY <1>1, <2>1, <2>2, <2>3 DEF FinishRun
<1>2. CASE NextPass
  <2>1. ControlType'
    BY <1>2 DEF NextPass, ControlType
  <2>2. NudgeType'
    BY <1>2, CountersType DEF NextPass, NudgeType
  <2> QED BY <1>2, <2>1, <2>2 DEF NextPass
<1>3. CASE StaticNudge
  <2>1. ControlType'
    BY <1>3 DEF StaticNudge, ControlType
  <2>2. NudgeType'
    BY <1>3, CountersType DEF StaticNudge, NudgeType
  <2> QED BY <1>3, <2>1, <2>2 DEF StaticNudge
<1>4. CASE StaticNudgesExhausted
  <2>1. NudgeType'
    BY <1>4, CountersType DEF StaticNudgesExhausted, NudgeType
  <2>2. ControlType' /\ ResultType'
    BY <1>4, CountersType, ReturnType, GiveUpKinds DEF StaticNudgesExhausted
  <2> QED BY <1>4, <2>1, <2>2 DEF StaticNudgesExhausted
<1> QED BY <1>1, <1>2, <1>3, <1>4 DEF EndOfBatch

(* A stuttering step keeps types.                                            *)
LEMMA TypeStutter == TypeOK /\ UNCHANGED vars => TypeOK'
BY Frames DEF TypeOK, vars

(* Every variable of the loop stays in its range: iterations, retries and    *)
(* nudges stay inside the caps of RunConfig in every run.                    *)
THEOREM TypeCorrect == Spec => []TypeOK
<1>1. TypeOK /\ [Next]_vars => TypeOK'
  BY TypeHead, TypeModel, TypeNoCalls, TypeCall, TypeBatch, TypeStutter
     DEF Next, Ended
<1> QED BY <1>1, TypeInit, PTL DEF Spec

-----------------------------------------------------------------------------
(* The shape of a run: the outcome is set exactly at the end, an accepted    *)
(* claim exists only inside its batch or at the end, and recovery facts are  *)
(* written by terminals only.                                                *)
Shape ==
  /\ pc = "end" <=> outcome # Running
  /\ finish # NoFinish => pc \in {"calls", "end"}
  /\ outcome \in Accepted => outcome = finish
  /\ outcome \in GiveUps => finish = NoFinish
  /\ pc # "end" => recovery = NoFacts

(* The run starts without claim, facts or outcome.                           *)
LEMMA ShapeInit == Init => Shape
BY Dispositions DEF Init, Shape

(* A terminal without an accepted claim.                                     *)
LEMMA GiveUpShape ==
  ASSUME Shape, NEW d \in GiveUps, NEW facts, Return(d, facts),
         pc \in {"top", "turn", "stop"} \/ finish = NoFinish, finish' = finish
  PROVE  Shape'
BY Dispositions DEF Shape, Return

(* A step that does not end the run.                                         *)
LEMMA MidRunShape ==
  ASSUME Shape, pc # "end", pc' # "end", UNCHANGED result,
         finish' = NoFinish \/ pc' = "calls"
  PROVE  Shape'
BY Dispositions DEF Shape, result

(* Shape holds across the head of the loop, the model call and a stop.       *)
LEMMA ShapeHead == TypeOK /\ Shape /\ (TopOfLoop \/ ModelCall \/ NoCalls) => Shape'
<1> SUFFICES ASSUME TypeOK, Shape, TopOfLoop \/ ModelCall \/ NoCalls PROVE Shape'
  OBVIOUS
<1>1. ASSUME pc \in {"top", "turn", "stop"}, UNCHANGED <<verdict, result>>,
             pc' \in {"top", "turn"}
      PROVE  Shape'
  BY <1>1, MidRunShape DEF Shape, verdict
<1>2. ASSUME pc \in {"top", "turn", "stop"}, UNCHANGED verdict,
             NEW kind \in {"budget_exhausted", "max_iterations", "backend_error",
                           "truncated", "stopped_without_finish", "finish_discipline"},
             NEW facts, Return(Plain(kind), facts)
      PROVE  Shape'
  BY <1>2, GiveUpShape, GiveUpKinds DEF verdict
<1>3. CASE TopOfLoop
  BY <1>1, <1>2, <1>3
     DEF TopOfLoop, WallClockExhausted, TokensExhausted, StartPass, IterationCap
<1>4. CASE Retry \/ InterceptOverflow
  BY <1>1, <1>4 DEF Retry, InterceptOverflow, control
<1>5. CASE BackendFails
  BY <1>2, <1>5 DEF BackendFails
<1>6. CASE TurnReturns
  <2>1. pc = "turn" /\ pc' # "end" /\ finish' = finish
    BY <1>6 DEF TurnReturns
  <2> QED BY <1>6, <2>1, MidRunShape DEF TurnReturns, Shape
<1>7. CASE NoCalls
  BY <1>1, <1>2, <1>7
     DEF NoCalls, Truncated, StopNudge, StopNudgesExhausted, StoppedWithoutFinish
<1> QED BY <1>3, <1>4, <1>5, <1>6, <1>7 DEF ModelCall

(* Shape holds across the calls of a batch and its end.                      *)
LEMMA ShapeCalls == TypeOK /\ Shape /\ (OneCall \/ EndOfBatch) => Shape'
<1> SUFFICES ASSUME TypeOK, Shape, OneCall \/ EndOfBatch PROVE Shape'
  OBVIOUS
<1>1. CASE OneCall
  <2>1. pc = "calls" /\ pc' = pc /\ UNCHANGED result
    BY <1>1 DEF OneCall, RunChecksCall, EditFileCall, BashSucceeds, BashFails,
                InertCall, ClaimDone, ClaimAlreadySatisfied, ClaimDefeat,
                ClaimMalformed, ClaimInvalidAnswer, ClaimValidAnswer,
                ToolCall, Claiming, NextCall
  <2> QED BY <2>1, MidRunShape
<1>2. CASE FinishRun
  <2>1. finish \in Accepted
    BY <1>2 DEF FinishRun, TypeOK, VerdictType
  <2> QED BY <1>2, <2>1, Dispositions DEF FinishRun, Return, Shape, verdict
<1>3. CASE NextPass \/ StaticNudge
  BY <1>3, MidRunShape DEF NextPass, StaticNudge, BatchDone, verdict
<1>4. CASE StaticNudgesExhausted
  BY <1>4, GiveUpShape, GiveUpKinds DEF StaticNudgesExhausted, verdict
<1> QED BY <1>1, <1>2, <1>3, <1>4 DEF EndOfBatch

(* Shape is inductive.                                                       *)
LEMMA ShapeStep == TypeOK /\ Shape /\ [Next]_vars => Shape'
<1>1. Shape /\ UNCHANGED vars => Shape'
  BY DEF Shape, vars, control, verdict, result
<1> QED BY <1>1, ShapeHead, ShapeCalls DEF Next, Ended

(* A run is over exactly when it has an outcome; the outcome is the accepted *)
(* claim or a give-up; facts are written only at the end.                    *)
THEOREM ShapeCorrect == Spec => []Shape
BY TypeCorrect, ShapeInit, ShapeStep, PTL DEF Spec

-----------------------------------------------------------------------------
(* Who touches the workspace and the latch: the four tools, nothing else.    *)
LEMMA Hands ==
  ASSUME [Next]_vars
  PROVE  \/ UNCHANGED <<lastGateGreen, treeDirty, work>>
         \/ RunChecksCall \/ EditFileCall \/ BashSucceeds \/ BashFails
<1> USE DEF latch
<1>1. CASE TopOfLoop
  BY <1>1 DEF TopOfLoop, WallClockExhausted, TokensExhausted, StartPass, IterationCap
<1>2. CASE ModelCall
  BY <1>2 DEF ModelCall, Retry, InterceptOverflow, BackendFails, TurnReturns
<1>3. CASE NoCalls
  BY <1>3 DEF NoCalls, Truncated, StopNudge, StopNudgesExhausted, StoppedWithoutFinish
<1>4. CASE OneCall
  BY <1>4 DEF OneCall, InertCall, ClaimDone, ClaimAlreadySatisfied, ClaimDefeat,
              ClaimMalformed, ClaimInvalidAnswer, ClaimValidAnswer, Claiming
<1>5. CASE EndOfBatch
  BY <1>5 DEF EndOfBatch, FinishRun, NextPass, StaticNudge, StaticNudgesExhausted
<1>6. CASE UNCHANGED vars
  BY <1>6 DEF vars
<1> QED BY <1>1, <1>2, <1>3, <1>4, <1>5, <1>6 DEF Next, Ended

(* A call that changes the tree without being seen as a mutation is one that *)
(* reported an error.                                                        *)
ChangesNoticed == tree # Baseline => treeDirty \/ stray # "no"

(* The latch starts down, on the baseline.                                   *)
LEMMA LatchInit == Init => GateLatchFresh /\ ChangesNoticed
BY DEF Init, GateLatchFresh, ChangesNoticed

(* A step keeps the latch fresh and every change noticed.                    *)
LEMMA LatchStep ==
  TypeOK /\ GateLatchFresh /\ ChangesNoticed /\ [Next]_vars
    => GateLatchFresh' /\ ChangesNoticed'
<1> SUFFICES ASSUME TypeOK, GateLatchFresh, ChangesNoticed, [Next]_vars
             PROVE  GateLatchFresh' /\ ChangesNoticed'
  OBVIOUS
<1>1. CASE UNCHANGED <<lastGateGreen, treeDirty, work>>
  BY <1>1 DEF GateLatchFresh, ChangesNoticed, work
<1>2. CASE RunChecksCall
  <2>1. lastGateGreen' => tree \in GreenTrees
    BY <1>2 DEF RunChecksCall, RunChecksResults, GateRuns
  <2>2. tree' = tree /\ treeDirty' = treeDirty /\ (stray # "no" => stray' # "no")
    BY <1>2 DEF RunChecksCall
  <2> QED BY <2>1, <2>2 DEF GateLatchFresh, ChangesNoticed
<1>3. CASE EditFileCall \/ BashSucceeds
  BY <1>3 DEF EditFileCall, BashSucceeds, LatchMutation, GateLatchFresh, ChangesNoticed
<1>4. CASE BashFails
  <2>1. lastGateGreen' = lastGateGreen /\ treeDirty' = treeDirty
    BY <1>4 DEF BashFails, latch
  <2>2. \/ tree' # tree /\ stray' = "since"
        \/ tree' = tree /\ stray' = stray
    BY <1>4 DEF BashFails, TreeBecomes
  <2> QED BY <2>1, <2>2 DEF GateLatchFresh, ChangesNoticed
<1> QED BY <1>1, <1>2, <1>3, <1>4, Hands

(* The done-oracle: finish recovery is armed by a green gate only while the  *)
(* gate still passes, up to calls that changed the tree and reported failure.*)
THEOREM GateLatchCorrect == Spec => []GateLatchFresh
<1>1. Spec => [](GateLatchFresh /\ ChangesNoticed)
  BY TypeCorrect, LatchInit, LatchStep, PTL DEF Spec
<1> QED BY <1>1, PTL

-----------------------------------------------------------------------------
(* How a claim comes to be accepted.                                         *)
LEMMA AcceptedJustified ==
  ASSUME TypeOK, OneCall, finish' # finish
  PROVE  /\ finish = NoFinish
         /\ finish' \in Accepted
         /\ Contract!Justified(finish', tree)
         /\ UNCHANGED <<work, outcome>>
<1> DEFINE Goal == /\ finish = NoFinish
                   /\ finish' \in Accepted
                   /\ Contract!Justified(finish', tree)
                   /\ UNCHANGED <<work, outcome>>
<1>0. ASSUME Claiming PROVE finish = NoFinish /\ UNCHANGED <<work, outcome>>
  BY <1>0 DEF Claiming, result
<1>1. CASE ClaimDone
  <2>1. PICK passed \in Verdicts(tree), change \in Changes(tree) :
          /\ ~AnswerMode /\ passed /\ change # "unchanged"
          /\ finish' = Disposition("done", HasChecks, change)
    BY <1>1 DEF ClaimDone, Accept, Reject, NoChangeToShow
  <2>2. HasChecks => tree \in GreenTrees
    BY <2>1 DEF Verdicts, GateRuns
  <2>3. Contract!Justified(finish', tree)
    BY <2>1, <2>2 DEF Contract!Justified, Disposition, Changes,
                      EvidenceKinds, Contract!EvidenceKinds
  <2>4. finish' \in Accepted
    BY <2>1, Dispositions, ChangesAreEvidence DEF EvidenceKinds
  <2> QED BY <1>0, <1>1, <2>3, <2>4 DEF ClaimDone
<1>2. CASE ClaimAlreadySatisfied
  <2>1. PICK passed \in Verdicts(tree), change \in Changes(tree) :
          /\ ~AnswerMode /\ passed
          /\ finish' = Disposition("already_satisfied", HasChecks, change)
    BY <1>2 DEF ClaimAlreadySatisfied, Accept, Reject
  <2>2. HasChecks => tree \in GreenTrees
    BY <2>1 DEF Verdicts, GateRuns
  <2>3. Contract!Justified(finish', tree)
    BY <2>1, <2>2 DEF Contract!Justified, Disposition, Changes,
                      EvidenceKinds, Contract!EvidenceKinds
  <2>4. finish' \in Accepted
    BY <2>1, Dispositions, ChangesAreEvidence DEF EvidenceKinds
  <2> QED BY <1>0, <1>2, <2>3, <2>4 DEF ClaimAlreadySatisfied
<1>3. CASE ClaimDefeat
  <2>1. PICK kind \in {"blocked", "failed"} : finish' = Plain(kind)
    BY <1>3 DEF ClaimDefeat, Accept
  <2>2. Contract!Justified(finish', tree)
    BY <2>1 DEF Contract!Justified, Plain, Disposition, EvidenceKinds,
                Contract!EvidenceKinds
  <2>3. finish' \in Accepted
    BY <2>1, Dispositions DEF DeclaredKinds
  <2> QED BY <1>0, <1>3, <2>2, <2>3 DEF ClaimDefeat
<1>4. CASE ClaimInvalidAnswer
  <2>1. AnswerMode /\ finish' = Plain("answer_schema_exhausted")
    BY <1>4 DEF ClaimInvalidAnswer
  <2>2. Contract!Justified(finish', tree)
    BY <2>1 DEF Contract!Justified, Plain, Disposition, EvidenceKinds,
                Contract!EvidenceKinds
  <2>3. finish' \in Accepted
    BY <2>1, Dispositions DEF DeclaredKinds
  <2> QED BY <1>0, <1>4, <2>2, <2>3 DEF ClaimInvalidAnswer
<1>5. CASE ClaimValidAnswer
  <2>1. PICK change \in Changes(tree) :
          /\ AnswerMode /\ change # "changed"
          /\ finish' = Disposition("answer", HasChecks, change)
    BY <1>5 DEF ClaimValidAnswer, Accept, Reject, ChangedUnderAnswer
  <2>2. Contract!Justified(finish', tree)
    BY <2>1 DEF Contract!Justified, Disposition, Changes,
                EvidenceKinds, Contract!EvidenceKinds
  <2>3. finish' \in Accepted
    BY <2>1, Dispositions, ChangesAreEvidence DEF EvidenceKinds
  <2> QED BY <1>0, <1>5, <2>2, <2>3 DEF ClaimValidAnswer
<1>6. CASE ClaimMalformed
  BY <1>6 DEF ClaimMalformed, Reject
<1>7. CASE RunChecksCall \/ EditFileCall \/ BashSucceeds \/ BashFails \/ InertCall
  BY <1>7 DEF RunChecksCall, EditFileCall, BashSucceeds, BashFails, InertCall,
              ToolCall, verdict
<1> QED BY <1>1, <1>2, <1>3, <1>4, <1>5, <1>6, <1>7 DEF OneCall

(* Only the per-call loop sets finish.                                       *)
LEMMA FinishSetByCalls ==
  ASSUME [Next]_vars, finish' # finish
  PROVE  OneCall
<1> USE DEF verdict
<1>1. CASE TopOfLoop
  BY <1>1 DEF TopOfLoop, WallClockExhausted, TokensExhausted, StartPass, IterationCap
<1>2. CASE ModelCall
  BY <1>2 DEF ModelCall, Retry, InterceptOverflow, BackendFails, TurnReturns
<1>3. CASE NoCalls
  BY <1>3 DEF NoCalls, Truncated, StopNudge, StopNudgesExhausted, StoppedWithoutFinish
<1>4. CASE EndOfBatch
  BY <1>4 DEF EndOfBatch, FinishRun, NextPass, StaticNudge, StaticNudgesExhausted
<1>5. CASE UNCHANGED vars
  BY <1>5 DEF vars
<1> QED BY <1>1, <1>2, <1>3, <1>4, <1>5 DEF Next, Ended

(* An accepted claim stays justified until a later call of its batch changes *)
(* the tree.                                                                 *)
ClaimFresh == finish # NoFinish /\ ~trail => Contract!Justified(finish, tree)

(* There is no claim at the start.                                           *)
LEMMA ClaimInit == Init => ClaimFresh
BY DEF Init, ClaimFresh

(* An accepted claim stays justified until a later call changes the tree.    *)
LEMMA ClaimStep == TypeOK /\ ClaimFresh /\ [Next]_vars => ClaimFresh'
<1> SUFFICES ASSUME TypeOK, ClaimFresh, [Next]_vars PROVE ClaimFresh'
  OBVIOUS
<1>1. CASE finish' # finish
  BY <1>1, FinishSetByCalls, AcceptedJustified DEF ClaimFresh, work
<1>2. CASE finish' = finish /\ UNCHANGED work
  BY <1>2 DEF ClaimFresh, work
<1>3. CASE finish' = finish /\ ~UNCHANGED work
  <2>1. CASE RunChecksCall
    BY <1>3, <2>1 DEF RunChecksCall, ClaimFresh
  <2>2. CASE EditFileCall \/ BashSucceeds \/ BashFails
    <3>1. PICK t \in Trees, isError \in BOOLEAN : TreeBecomes(t, isError)
      BY <2>2 DEF EditFileCall, BashSucceeds, BashFails
    <3>2. /\ trail => trail'
          /\ finish # NoFinish /\ tree' # tree => trail'
      BY <3>1, Zenon DEF TreeBecomes
    <3> QED BY <1>3, <3>2 DEF ClaimFresh
  <2> QED BY <1>3, <2>1, <2>2, Hands
<1> QED BY <1>1, <1>2, <1>3

(* The accepted claim is justified by the tree as it is, unless a later call *)
(* of its batch changed the tree.                                            *)
THEOREM ClaimCorrect == Spec => []ClaimFresh
BY TypeCorrect, ClaimInit, ClaimStep, PTL DEF Spec

(* A run that ends done ends on a tree its gate passes on, with change       *)
(* evidence true of that tree, unless a later call of the finishing batch    *)
(* changed it.                                                               *)
THEOREM DoneEvidenceCorrect == Spec => []DoneEvidence
<1>1. TypeOK /\ Shape /\ ClaimFresh => DoneEvidence
  <2> SUFFICES ASSUME TypeOK, Shape, ClaimFresh, outcome.kind = "done", ~trail
               PROVE  /\ HasChecks => tree \in GreenTrees
                      /\ outcome.change = "changed" => Snapshot[tree] # Snapshot[Baseline]
                      /\ BaselineObserved /\ Snapshot[tree] = Snapshot[Baseline] =>
                           outcome.change = "unobservable"
    BY DEF DoneEvidence
  <2>1. outcome \in Accepted
    BY DEF TypeOK, ResultType, GiveUps, Running, Plain, Disposition
  <2>2. outcome = finish /\ finish # NoFinish
    BY <2>1, Dispositions DEF Shape
  <2>3. Contract!Justified(outcome, tree)
    BY <2>2 DEF ClaimFresh
  <2>4. outcome.change \in ChangeEvidence
    BY <2>1 DEF Accepted, DeclaredKinds, Plain, Disposition
  <2> QED BY <2>3, <2>4
          DEF Contract!Justified, Contract!EvidenceKinds, ChangeEvidence
<1> QED BY <1>1, TypeCorrect, ShapeCorrect, ClaimCorrect, PTL

(* A run that ends with an answer ends on a tree that looks like the one it  *)
(* started from, if it could be observed, under the same proviso.            *)
THEOREM AnswerEvidenceCorrect == Spec => []AnswerEvidence
<1>1. TypeOK /\ Shape /\ ClaimFresh => AnswerEvidence
  <2> SUFFICES ASSUME TypeOK, Shape, ClaimFresh, outcome.kind = "answer", ~trail,
                      outcome.change # "unobservable"
               PROVE  Snapshot[tree] = Snapshot[Baseline]
    BY DEF AnswerEvidence
  <2>1. outcome \in Accepted
    BY DEF TypeOK, ResultType, GiveUps, Running, Plain, Disposition
  <2>2. outcome = finish /\ finish # NoFinish
    BY <2>1, Dispositions DEF Shape
  <2>3. Contract!Justified(outcome, tree)
    BY <2>2 DEF ClaimFresh
  <2>4. outcome.change \in ChangeEvidence
    BY <2>1 DEF Accepted, DeclaredKinds, Plain, Disposition
  <2> QED BY <2>3, <2>4
          DEF Contract!Justified, Contract!EvidenceKinds, ChangeEvidence
<1> QED BY <1>1, TypeCorrect, ShapeCorrect, ClaimCorrect, PTL

-----------------------------------------------------------------------------
(* The loop implements FinishContract.                                       *)

(* A per-call step is a piece of work or an acceptance.                      *)
LEMMA ContractCall ==
  ASSUME TypeOK, TypeOK', Shape, OneCall
  PROVE  Contract!Next
<1>1. pc = "calls" /\ outcome' = outcome
  BY DEF OneCall, RunChecksCall, EditFileCall, BashSucceeds, BashFails, InertCall,
         ClaimDone, ClaimAlreadySatisfied, ClaimDefeat, ClaimMalformed,
         ClaimInvalidAnswer, ClaimValidAnswer, ToolCall, Claiming, NextCall, result
<1>2. outcome = Running
  BY <1>1 DEF Shape
<1>3. CASE finish' # finish
  <2>1. Contract!Accept
    BY <1>2, <1>3, AcceptedJustified
       DEF Contract!Accept, Contract!Accepted, Accepted, Contract!NoFinish,
           Contract!Running, Contract!Plain, Contract!Disposition, NoFinish,
           Running, Plain, Disposition, work, Contract!EvidenceKinds,
           EvidenceKinds, Contract!DeclaredKinds, DeclaredKinds,
           Contract!ChangeEvidence, ChangeEvidence
  <2> QED BY <2>1 DEF Contract!Next
<1>4. CASE finish' = finish
  <2>1. tree' \in Trees
    BY DEF TypeOK, WorkType
  <2>2. Contract!Work
    BY <1>1, <1>2, <1>4, <2>1
       DEF Contract!Work, Contract!Running, Contract!Plain, Contract!Disposition,
           Running, Plain, Disposition
  <2> QED BY <2>2 DEF Contract!Next
<1> QED BY <1>3, <1>4

(* Every other step leaves tree and claim alone, and ends the run with the   *)
(* claim or, when there is none, with a reason.                              *)
LEMMA Endings ==
  ASSUME Shape, TopOfLoop \/ ModelCall \/ NoCalls \/ EndOfBatch
  PROVE  /\ UNCHANGED <<tree, finish>>
         /\ \/ UNCHANGED outcome
            \/ pc # "end" /\ finish = NoFinish /\ outcome' \in GiveUps
            \/ pc # "end" /\ finish # NoFinish /\ outcome' = finish
<1> USE GiveUpKinds DEF verdict, work, result, Return
<1>1. CASE TopOfLoop
  BY <1>1 DEF Shape, TopOfLoop, WallClockExhausted, TokensExhausted, StartPass,
              IterationCap
<1>2. CASE ModelCall
  BY <1>2 DEF Shape, ModelCall, Retry, InterceptOverflow, BackendFails, TurnReturns
<1>3. CASE NoCalls
  BY <1>3 DEF Shape, NoCalls, Truncated, StopNudge, StopNudgesExhausted,
              StoppedWithoutFinish
<1>4. CASE EndOfBatch
  BY <1>4 DEF EndOfBatch, FinishRun, NextPass, StaticNudge, StaticNudgesExhausted,
              BatchDone
<1> QED BY <1>1, <1>2, <1>3, <1>4

(* Every step of the loop is a step of the contract or a stutter.            *)
LEMMA ContractStep ==
  TypeOK /\ TypeOK' /\ Shape /\ [Next]_vars
    => [Contract!Next]_(Contract!contractVars)
<1> SUFFICES ASSUME TypeOK, TypeOK', Shape, [Next]_vars
             PROVE  [Contract!Next]_(Contract!contractVars)
  OBVIOUS
<1> USE DEF Contract!contractVars
<1>1. CASE OneCall
  BY <1>1, ContractCall
<1>2. CASE TopOfLoop \/ ModelCall \/ NoCalls \/ EndOfBatch
  <2>1. /\ UNCHANGED <<tree, finish>>
        /\ \/ UNCHANGED outcome
           \/ pc # "end" /\ finish = NoFinish /\ outcome' \in GiveUps
           \/ pc # "end" /\ finish # NoFinish /\ outcome' = finish
    BY <1>2, Endings
  <2>2. Contract!NoFinish = NoFinish /\ Contract!Running = Running
    BY DEF Contract!NoFinish, Contract!Running, Contract!Plain, Contract!Disposition,
           NoFinish, Running, Plain, Disposition
  <2>3. Contract!GiveUps = GiveUps
    BY DEF Contract!GiveUps, GiveUps, Contract!Plain, Contract!Disposition, Plain,
           Disposition
  <2>4. CASE UNCHANGED outcome
    BY <2>1, <2>4
  <2>5. CASE pc # "end" /\ finish = NoFinish /\ outcome' \in GiveUps
    <3>1. Contract!GiveUp
      BY <2>1, <2>2, <2>3, <2>5 DEF Contract!GiveUp, Shape
    <3> QED BY <3>1 DEF Contract!Next
  <2>6. CASE pc # "end" /\ finish # NoFinish /\ outcome' = finish
    <3>1. Contract!Conclude
      BY <2>1, <2>2, <2>6 DEF Contract!Conclude, Shape
    <3> QED BY <3>1 DEF Contract!Next
  <2> QED BY <2>1, <2>4, <2>5, <2>6
<1>3. CASE UNCHANGED vars
  BY <1>3 DEF vars, work, verdict, result
<1> QED BY <1>1, <1>2, <1>3 DEF Next, Ended

(* Whatever the machinery of the loop does, its runs are runs of the         *)
(* completion contract: one claim at most is accepted, on evidence about the *)
(* tree at that moment, and it is the outcome.                               *)
THEOREM ContractKept == Spec => KeepsContract
<1>1. Init => Contract!Init
  BY DEF Init, Contract!Init, Contract!NoFinish, Contract!Running, Contract!Plain,
         Contract!Disposition, NoFinish, Running, Plain, Disposition
<1> QED BY <1>1, TypeCorrect, ShapeCorrect, ContractStep, PTL
        DEF Spec, KeepsContract, Contract!Spec

-----------------------------------------------------------------------------
(* Nudges and their replies.                                                 *)

(* No nudge, no reply.                                                       *)
LEMMA NudgeInit == Init => NudgesAccounted
BY Dispositions DEF Init, NudgesAccounted

(* Steps that leave nudges, replies and the ending alone.                    *)
LEMMA NudgeFrame ==
  ASSUME TypeOK, Shape, NudgesAccounted, pc # "end",
         UNCHANGED <<nudges, awaiting, statuses, outcome, recovery>>
  PROVE  NudgesAccounted'
<1>1. outcome' = Running
  BY DEF Shape
<1>2. outcome'.kind # "finish_discipline"
  BY <1>1, Dispositions
<1>3. statuses + (IF awaiting THEN 1 ELSE 0) = nudges
  BY DEF NudgesAccounted, TypeOK, ControlType
<1> QED BY <1>2, <1>3 DEF NudgesAccounted

(* Terminals for another reason than finish discipline.                      *)
LEMMA NudgeEnd ==
  ASSUME NEW d, NEW facts, Return(d, facts), d.kind # "finish_discipline"
  PROVE  NudgesAccounted'
BY DEF Return, NudgesAccounted

(* Terminals for finish discipline, once every reply is on record.           *)
LEMMA NudgeExhausted ==
  ASSUME TypeOK, MaxNudges > 0, nudges >= MaxNudges, nudges' = nudges,
         statuses' = nudges, Return(Plain("finish_discipline"), Facts(statuses'))
  PROVE  NudgesAccounted'
<1>1. nudges = MaxNudges
  BY DEF TypeOK, NudgeType
<1>2. recovery'.statuses = MaxNudges
  BY <1>1 DEF Return, Facts
<1> QED BY <1>1, <1>2 DEF Return, NudgesAccounted

(* Every step keeps the account of nudges and replies.                       *)
LEMMA NudgeStep == TypeOK /\ Shape /\ NudgesAccounted /\ [Next]_vars => NudgesAccounted'
<1> SUFFICES ASSUME TypeOK, Shape, NudgesAccounted, [Next]_vars
             PROVE  NudgesAccounted'
  OBVIOUS
<1>0. \A kind \in {"budget_exhausted", "max_iterations", "backend_error", "truncated",
                   "stopped_without_finish"} : Plain(kind).kind # "finish_discipline"
  BY DEF Plain, Disposition
<1>1. pc # "end" => statuses + (IF awaiting THEN 1 ELSE 0) = nudges
  BY DEF NudgesAccounted, TypeOK, ControlType
<1>2. StatusesWithReply = statuses + (IF awaiting THEN 1 ELSE 0)
  BY DEF StatusesWithReply
<1>3. finish = NoFinish =>
        StatusesSettled = statuses + (IF awaiting THEN 1 ELSE 0)
  BY DEF StatusesSettled, CleanSuccess, NoFinish, Plain, Disposition, EvidenceKinds
<1>4. CASE WallClockExhausted \/ TokensExhausted \/ IterationCap
  BY <1>0, <1>4, NudgeEnd DEF WallClockExhausted, TokensExhausted, IterationCap
<1>5. CASE BackendFails \/ Truncated \/ StoppedWithoutFinish
  BY <1>0, <1>5, NudgeEnd DEF BackendFails, Truncated, StoppedWithoutFinish
<1>6. CASE StartPass \/ Retry \/ InterceptOverflow \/ TurnReturns
  BY <1>6, NudgeFrame
     DEF StartPass, Retry, InterceptOverflow, TurnReturns, nudging, result
<1>7. CASE OneCall
  <2>1. pc = "calls" /\ UNCHANGED <<nudging, result>>
    BY <1>7 DEF OneCall, RunChecksCall, EditFileCall, BashSucceeds, BashFails,
                InertCall, ClaimDone, ClaimAlreadySatisfied, ClaimDefeat,
                ClaimMalformed, ClaimInvalidAnswer, ClaimValidAnswer,
                ToolCall, Claiming, NextCall
  <2> QED BY <2>1, NudgeFrame DEF nudging, result
<1>8. CASE StopNudge
  <2>1. statuses' = nudges /\ nudges' = nudges + 1 /\ awaiting' = TRUE
    BY <1>1, <1>2, <1>8 DEF StopNudge
  <2>2. outcome'.kind = "running"
    BY <1>8, Dispositions DEF StopNudge, Shape, result
  <2> QED BY <2>1, <2>2 DEF NudgesAccounted, TypeOK, NudgeType
<1>9. CASE StopNudgesExhausted
  BY <1>1, <1>2, <1>9, NudgeExhausted DEF StopNudgesExhausted, RecoveryArmed
<1>10. CASE FinishRun
  <2>1. finish.kind # "finish_discipline"
    BY <1>10 DEF FinishRun, TypeOK, VerdictType, Accepted, EvidenceKinds,
                 DeclaredKinds, Plain, Disposition
  <2> QED BY <1>10, <2>1, NudgeEnd DEF FinishRun
<1>11. CASE NextPass
  <2>1. statuses' = nudges /\ nudges' = nudges /\ awaiting' = FALSE
    BY <1>1, <1>3, <1>11 DEF NextPass, BatchDone
  <2>2. outcome'.kind = "running"
    BY <1>11, Dispositions DEF NextPass, BatchDone, Shape, result
  <2> QED BY <2>1, <2>2 DEF NudgesAccounted, TypeOK, NudgeType
<1>12. CASE StaticNudge
  <2>1. statuses' = nudges /\ nudges' = nudges + 1 /\ awaiting' = TRUE
    BY <1>1, <1>3, <1>12 DEF StaticNudge, BatchDone
  <2>2. outcome'.kind = "running"
    BY <1>12, Dispositions DEF StaticNudge, BatchDone, Shape, result
  <2> QED BY <2>1, <2>2 DEF NudgesAccounted, TypeOK, NudgeType
<1>13. CASE StaticNudgesExhausted
  BY <1>1, <1>3, <1>13, NudgeExhausted
     DEF StaticNudgesExhausted, BatchDone, StaticTrip
<1>14. CASE UNCHANGED vars
  BY <1>14 DEF vars, control, nudging, result, NudgesAccounted
<1> QED BY <1>4, <1>5, <1>6, <1>7, <1>8, <1>9, <1>10, <1>11, <1>12, <1>13, <1>14
        DEF Next, Ended, TopOfLoop, ModelCall, NoCalls, EndOfBatch

(* Every nudge is answered once, and a run given up for finish discipline    *)
(* has the replies to all MaxNudges of them on record.                       *)
THEOREM NudgesCorrect == Spec => []NudgesAccounted
BY TypeCorrect, ShapeCorrect, NudgeInit, NudgeStep, PTL DEF Spec

-----------------------------------------------------------------------------
(* Work and budgets.                                                         *)

(* A run that stopped without finish never had its work noticed.             *)
StoppedUnarmed ==
  outcome.kind = "stopped_without_finish" => MaxNudges = 0 \/ ~treeDirty

(* A run is stopped without finish only while recovery is not armed.         *)
LEMMA StoppedStep == TypeOK /\ Shape /\ StoppedUnarmed /\ [Next]_vars => StoppedUnarmed'
<1> SUFFICES ASSUME TypeOK, Shape, StoppedUnarmed, [Next]_vars,
                    outcome'.kind = "stopped_without_finish"
             PROVE  MaxNudges = 0 \/ ~treeDirty'
  BY DEF StoppedUnarmed
<1>1. outcome' # Running
  BY Dispositions
<1>2. CASE pc = "end"
  <2>1. UNCHANGED vars
    BY <1>2 DEF Next, Ended, TopOfLoop, ModelCall, NoCalls, OneCall, EndOfBatch,
          WallClockExhausted, TokensExhausted, StartPass, IterationCap, Retry,
          InterceptOverflow, BackendFails, TurnReturns, Truncated, StopNudge,
          StopNudgesExhausted, StoppedWithoutFinish, RunChecksCall, EditFileCall,
          BashSucceeds, BashFails, InertCall, ClaimDone, ClaimAlreadySatisfied,
          ClaimDefeat, ClaimMalformed, ClaimInvalidAnswer, ClaimValidAnswer,
          ToolCall, Claiming, NextCall, FinishRun, NextPass, StaticNudge,
          StaticNudgesExhausted, BatchDone
  <2> QED BY <2>1 DEF vars, latch, result, StoppedUnarmed
<1>3. CASE pc # "end"
  <2>1. outcome = Running
    BY <1>3 DEF Shape
  <2>2. CASE StoppedWithoutFinish
    BY <2>2 DEF StoppedWithoutFinish, RecoveryArmed, latch
  <2>3. CASE FinishRun
    <3>1. finish.kind # "stopped_without_finish"
      BY <2>3 DEF FinishRun, TypeOK, VerdictType, Accepted, EvidenceKinds,
                  DeclaredKinds, Plain, Disposition
    <3> QED BY <2>3, <3>1 DEF FinishRun, Return
  <2>4. CASE TopOfLoop
    BY <1>1, <2>1, <2>4 DEF TopOfLoop, WallClockExhausted, TokensExhausted,
          StartPass, IterationCap, Return, Plain, Disposition, result
  <2>5. CASE ModelCall
    BY <1>1, <2>1, <2>5 DEF ModelCall, Retry, InterceptOverflow, BackendFails,
          TurnReturns, Return, Plain, Disposition, result
  <2>6. CASE Truncated \/ StopNudge \/ StopNudgesExhausted
    BY <1>1, <2>1, <2>6 DEF Truncated, StopNudge, StopNudgesExhausted, Return,
          Plain, Disposition, result
  <2>7. CASE OneCall
    BY <1>1, <2>1, <2>7 DEF OneCall, RunChecksCall, EditFileCall, BashSucceeds,
          BashFails, InertCall, ClaimDone, ClaimAlreadySatisfied, ClaimDefeat,
          ClaimMalformed, ClaimInvalidAnswer, ClaimValidAnswer, ToolCall,
          Claiming, result
  <2>8. CASE NextPass \/ StaticNudge \/ StaticNudgesExhausted
    BY <1>1, <2>1, <2>8 DEF NextPass, StaticNudge, StaticNudgesExhausted, Return,
          Plain, Disposition, result
  <2>9. CASE UNCHANGED vars
    BY <1>1, <2>1, <2>9 DEF vars, result
  <2> QED BY <2>2, <2>3, <2>4, <2>5, <2>6, <2>7, <2>8, <2>9
          DEF Next, Ended, NoCalls, EndOfBatch
<1> QED BY <1>2, <1>3

(* With recovery on, work is forfeited at a stop only if every change to the *)
(* tree was made by a call that reported an error.                           *)
THEOREM WorkNeverForfeitedCorrect == Spec => []WorkNeverForfeited
<1>1. Init => StoppedUnarmed
  BY Dispositions DEF Init, StoppedUnarmed
<1>2. StoppedUnarmed /\ ChangesNoticed => WorkNeverForfeited
  BY DEF StoppedUnarmed, ChangesNoticed, WorkNeverForfeited
<1>3. Spec => []ChangesNoticed
  <2>1. Spec => [](GateLatchFresh /\ ChangesNoticed)
    BY TypeCorrect, LatchInit, LatchStep, PTL DEF Spec
  <2> QED BY <2>1, PTL
<1> QED BY <1>1, <1>2, <1>3, TypeCorrect, ShapeCorrect, StoppedStep, PTL DEF Spec

(* The budget is consulted between any two model calls.                      *)
BudgetConsulted ==
  /\ TokenBudget > 0 /\ pc = "turn" => consumed < TokenBudget
  /\ BudgetOvershoot

(* Past the consult at the head of the loop the budget is not yet spent.     *)
LEMMA BudgetStep == TypeOK /\ Shape /\ BudgetConsulted /\ [Next]_vars => BudgetConsulted'
<1> SUFFICES ASSUME TypeOK, Shape, BudgetConsulted, [Next]_vars, TokenBudget > 0
             PROVE  /\ pc' = "turn" => consumed' < TokenBudget
                    /\ consumed' = 0 \/ consumed' < TokenBudget + MaxCost
                    /\ outcome'.kind = "max_iterations" => consumed' < TokenBudget
  BY DEF BudgetConsulted, BudgetOvershoot
<1>0. consumed \in Nat /\ TokenBudget \in Nat /\ MaxCost \in Nat
  BY DEF TypeOK, PassType
<1>1. /\ pc = "turn" => consumed < TokenBudget
      /\ consumed = 0 \/ consumed < TokenBudget + MaxCost
      /\ outcome.kind = "max_iterations" => consumed < TokenBudget
  BY DEF BudgetConsulted, BudgetOvershoot
<1>2. ASSUME UNCHANGED <<consumed, outcome>>, pc' = "turn" => pc = "turn"
      PROVE  /\ pc' = "turn" => consumed' < TokenBudget
             /\ consumed' = 0 \/ consumed' < TokenBudget + MaxCost
             /\ outcome'.kind = "max_iterations" => consumed' < TokenBudget
  BY <1>1, <1>2
<1>3. ASSUME UNCHANGED consumed, pc' = "end", outcome'.kind # "max_iterations"
      PROVE  /\ pc' = "turn" => consumed' < TokenBudget
             /\ consumed' = 0 \/ consumed' < TokenBudget + MaxCost
             /\ outcome'.kind = "max_iterations" => consumed' < TokenBudget
  BY <1>1, <1>3
<1>4. CASE WallClockExhausted \/ TokensExhausted \/ BackendFails
  BY <1>3, <1>4 DEF WallClockExhausted, TokensExhausted, BackendFails, Return,
                    Plain, Disposition, pass
<1>5. CASE Truncated \/ StopNudgesExhausted \/ StoppedWithoutFinish
  BY <1>3, <1>5 DEF Truncated, StopNudgesExhausted, StoppedWithoutFinish, Return,
                    Plain, Disposition, pass
<1>6. CASE StaticNudgesExhausted
  BY <1>3, <1>6 DEF StaticNudgesExhausted, Return, Plain, Disposition, pass
<1>7. CASE FinishRun
  <2>1. finish.kind # "max_iterations"
    BY <1>7 DEF FinishRun, TypeOK, VerdictType, Accepted, EvidenceKinds,
                DeclaredKinds, Plain, Disposition
  <2> QED BY <1>3, <1>7, <2>1 DEF FinishRun, Return, pass
<1>8. CASE StartPass
  <2>1. consumed < TokenBudget
    BY <1>0, <1>8 DEF StartPass, BudgetBreached
  <2> QED BY <1>0, <1>1, <1>8, <2>1 DEF StartPass, result
<1>9. CASE IterationCap
  <2>1. consumed < TokenBudget
    BY <1>0, <1>9 DEF IterationCap, BudgetBreached
  <2> QED BY <1>0, <1>1, <1>9, <2>1 DEF IterationCap, Return, pass
<1>10. CASE Retry \/ InterceptOverflow
  BY <1>2, <1>10 DEF Retry, InterceptOverflow, control, result
<1>11. CASE TurnReturns
  <2>1. PICK cost \in 0..MaxCost : consumed' = consumed + cost
    BY <1>11 DEF TurnReturns
  <2>2. consumed' < TokenBudget + MaxCost
    BY <1>0, <1>1, <1>11, <2>1 DEF TurnReturns
  <2>3. pc' # "turn" /\ outcome'.kind = "running"
    BY <1>11, Dispositions DEF TurnReturns, Shape, result
  <2> QED BY <2>2, <2>3
<1>12. CASE OneCall
  BY <1>2, <1>12 DEF OneCall, RunChecksCall, EditFileCall, BashSucceeds,
       BashFails, InertCall, ClaimDone, ClaimAlreadySatisfied, ClaimDefeat,
       ClaimMalformed, ClaimInvalidAnswer, ClaimValidAnswer, ToolCall,
       Claiming, pass, result
<1>13. CASE StopNudge \/ NextPass \/ StaticNudge
  BY <1>2, <1>13 DEF StopNudge, NextPass, StaticNudge, pass, result
<1>14. CASE UNCHANGED vars
  BY <1>2, <1>14 DEF vars, control, pass, result
<1> QED BY <1>4, <1>5, <1>6, <1>7, <1>8, <1>9, <1>10, <1>11, <1>12, <1>13, <1>14
        DEF Next, Ended, TopOfLoop, ModelCall, NoCalls, EndOfBatch

(* A token budget is overshot by less than the cost of one turn, and the     *)
(* iteration cap is never reported over a spent budget.                      *)
THEOREM BudgetCorrect == Spec => []BudgetOvershoot
<1>1. Init => BudgetConsulted
  BY Dispositions DEF Init, BudgetConsulted, BudgetOvershoot
<1>2. BudgetConsulted => BudgetOvershoot
  BY DEF BudgetConsulted
<1> QED BY <1>1, <1>2, TypeCorrect, ShapeCorrect, BudgetStep, PTL DEF Spec

-----------------------------------------------------------------------------
(* The facts a run leaves.                                                   *)

(* Endings that are no cap, no budget and no discipline.                     *)
LEMMA FactsNotOwed ==
  ASSUME NEW d, Return(d, NoFacts),
         d.kind \notin {"budget_exhausted", "max_iterations", "finish_discipline"}
  PROVE  GreenWorkRecorded'
BY DEF Return, NoFacts, GreenWorkRecorded

(* Endings that are, with the facts as they stand.                           *)
LEMMA FactsLeft ==
  ASSUME NEW d, NEW n, Return(d, Facts(n)), UNCHANGED latch,
         d.kind \in {"budget_exhausted", "max_iterations", "finish_discipline"}
  PROVE  GreenWorkRecorded'
BY DEF Return, Facts, latch, GreenWorkRecorded

(* A run that goes on owes none and has none.                                *)
LEMMA FactsLater ==
  ASSUME Shape, pc # "end", UNCHANGED result
  PROVE  GreenWorkRecorded'
<1>1. outcome' = Running /\ recovery' = NoFacts
  BY DEF Shape, result
<1> QED BY <1>1, Dispositions DEF NoFacts, GreenWorkRecorded

(* Every ending leaves the facts it owes.                                    *)
LEMMA FactsStep == TypeOK /\ Shape /\ GreenWorkRecorded /\ [Next]_vars => GreenWorkRecorded'
<1> SUFFICES ASSUME TypeOK, Shape, GreenWorkRecorded, [Next]_vars
             PROVE  GreenWorkRecorded'
  OBVIOUS
<1>1. CASE WallClockExhausted \/ TokensExhausted
  BY <1>1, FactsLeft DEF WallClockExhausted, TokensExhausted, Plain, Disposition
<1>2. CASE IterationCap
  <2>1. CASE lastGateGreen
    BY <1>2, <2>1, FactsLeft DEF IterationCap, Plain, Disposition
  <2>2. CASE ~lastGateGreen
    BY <1>2, <2>2 DEF IterationCap, Return, NoFacts, latch, GreenWorkRecorded
  <2> QED BY <2>1, <2>2
<1>3. CASE BackendFails \/ Truncated \/ StoppedWithoutFinish
  BY <1>3, FactsNotOwed
     DEF BackendFails, Truncated, StoppedWithoutFinish, Plain, Disposition
<1>4. CASE StopNudgesExhausted \/ StaticNudgesExhausted
  BY <1>4, FactsLeft DEF StopNudgesExhausted, StaticNudgesExhausted, Plain, Disposition
<1>5. CASE FinishRun
  <2>1. recovery = NoFacts
    BY <1>5 DEF FinishRun, BatchDone, Shape
  <2>2. finish.kind \notin {"budget_exhausted", "max_iterations", "finish_discipline"}
    BY <1>5 DEF FinishRun, TypeOK, VerdictType, Accepted, EvidenceKinds,
                DeclaredKinds, Plain, Disposition
  <2> QED BY <1>5, <2>1, <2>2, FactsNotOwed DEF FinishRun
<1>6. CASE StartPass \/ Retry \/ InterceptOverflow \/ TurnReturns \/ StopNudge
  BY <1>6, FactsLater
     DEF StartPass, Retry, InterceptOverflow, TurnReturns, StopNudge, result
<1>7. CASE OneCall
  <2>1. pc = "calls" /\ UNCHANGED result
    BY <1>7 DEF OneCall, RunChecksCall, EditFileCall, BashSucceeds, BashFails,
                InertCall, ClaimDone, ClaimAlreadySatisfied, ClaimDefeat,
                ClaimMalformed, ClaimInvalidAnswer, ClaimValidAnswer,
                ToolCall, Claiming, NextCall
  <2> QED BY <2>1, FactsLater
<1>8. CASE NextPass \/ StaticNudge
  BY <1>8, FactsLater DEF NextPass, StaticNudge, BatchDone, result
<1>9. CASE UNCHANGED vars
  BY <1>9 DEF vars, latch, result, GreenWorkRecorded
<1> QED BY <1>1, <1>2, <1>3, <1>4, <1>5, <1>6, <1>7, <1>8, <1>9
        DEF Next, Ended, TopOfLoop, ModelCall, NoCalls, EndOfBatch

(* Whichever cap, budget or discipline ends a run on a green gate, what its  *)
(* record says of the gate and of the tree is what the loop believed then.   *)
THEOREM GreenWorkRecordedCorrect == Spec => []GreenWorkRecorded
<1>1. Init => GreenWorkRecorded
  BY Dispositions DEF Init, NoFacts, GreenWorkRecorded
<1> QED BY <1>1, TypeCorrect, ShapeCorrect, FactsStep, PTL DEF Spec

-----------------------------------------------------------------------------
(* The streak of rejected answers and the window it could be made of.        *)
LastVerdict == verdicts[Len(verdicts)]

(* The streak is the run of equal verdicts at the end of the window, and it  *)
(* is no longer than that; a run is failed when the streak fills the window. *)
Trailing ==
  /\ Len(verdicts) <= StreakCap /\ streak <= Len(verdicts)
  /\ \A k \in 0..(streak - 1) : verdicts[Len(verdicts) - k] = prevErrors
  /\ 0 < streak /\ streak < Len(verdicts) => verdicts[Len(verdicts) - streak] # prevErrors
  /\ streak = 0 => prevErrors = NoErrors /\ (verdicts = <<>> \/ LastVerdict = "ok")
  /\ streak > 0 => prevErrors \in ErrorLists
  /\ finish.kind = "answer_schema_exhausted" <=> streak = StreakCap

(* Seen from its end, the window moves by one.                               *)
LEMMA WindowMoves ==
  ASSUME SchemaType, Len(verdicts) <= StreakCap, NEW v \in ErrorLists \cup {"ok"}, Record(v)
  PROVE  /\ Len(verdicts') \in 1..StreakCap /\ Len(verdicts) \in Nat
         /\ Len(verdicts') <= Len(verdicts) + 1
         /\ verdicts'[Len(verdicts')] = v
         /\ \A k \in 1..(Len(verdicts') - 1) :
              verdicts'[Len(verdicts') - k] = verdicts[Len(verdicts) - (k - 1)]
         /\ Len(verdicts) < StreakCap => Len(verdicts') = Len(verdicts) + 1
         /\ Len(verdicts) = StreakCap => Len(verdicts') = StreakCap
<1> DEFINE S == ErrorLists \cup {"ok"}
           L == Len(verdicts)
           all == Append(verdicts, v)
<1>1. verdicts \in Seq(S) /\ L \in Nat
  BY DEF SchemaType
<1>2. /\ all \in Seq(S) /\ Len(all) = L + 1 /\ all[L + 1] = v
      /\ \A i \in 1..L : all[i] = verdicts[i]
  BY <1>1
<1>3. verdicts' = IF Len(all) > StreakCap THEN Tail(all) ELSE all
  BY DEF Record
<1> HIDE DEF all, L
<1>4. CASE L < StreakCap
  <2>1. verdicts' = all
    BY <1>1, <1>2, <1>3, <1>4
  <2>2. \A k \in 1..L : all[L + 1 - k] = verdicts[L - (k - 1)]
    <3> TAKE k \in 1..L
    <3>1. L + 1 - k \in 1..L /\ L + 1 - k = L - (k - 1)
      BY <1>1
    <3> QED BY <1>2, <3>1
  <2> QED BY <1>1, <1>2, <1>4, <2>1, <2>2 DEF L
<1>5. CASE L = StreakCap
  <2>1. verdicts' = Tail(all) /\ all # <<>>
    BY <1>1, <1>2, <1>3, <1>5
  <2>2. Len(verdicts') = L /\ \A i \in 1..L : verdicts'[i] = all[i + 1]
    <3>1. Len(Tail(all)) = Len(all) - 1 /\ \A i \in 1..(Len(all) - 1) : Tail(all)[i] = all[i + 1]
      BY <1>2, <2>1, HeadTailProperties
    <3> QED BY <1>1, <1>2, <2>1, <3>1
  <2>3. \A k \in 1..(L - 1) : verdicts'[L - k] = verdicts[L - (k - 1)]
    <3> TAKE k \in 1..(L - 1)
    <3>1. L - k \in 1..L /\ L - k + 1 = L - (k - 1) /\ L - k + 1 \in 1..L
      BY <1>1
    <3> QED BY <1>2, <2>2, <3>1
  <2>4. verdicts'[L] = v
    BY <1>1, <1>2, <1>5, <2>2
  <2> QED BY <1>1, <1>5, <2>2, <2>3, <2>4 DEF L
<1>6. L < StreakCap \/ L = StreakCap
  BY <1>1 DEF L
<1> QED BY <1>4, <1>5, <1>6

(* An answer the schema refuses lengthens the streak or starts one.          *)
LEMMA TrailingRefused ==
  ASSUME TypeOK, Trailing, ClaimInvalidAnswer
  PROVE  Trailing'
<1> DEFINE L == Len(verdicts)
           M == Len(verdicts')
<1>1. PICK errors \in ErrorLists :
        streak' = NextStreak(errors) /\ prevErrors' = errors /\ Record(errors)
  BY DEF ClaimInvalidAnswer
<1>2. finish = NoFinish /\ streak \in Nat
  BY DEF ClaimInvalidAnswer, Claiming, TypeOK, SchemaType
<1>3. streak < StreakCap
  BY <1>2, Dispositions DEF Trailing, TypeOK, SchemaType
<1>4. /\ M \in 1..StreakCap /\ L \in Nat /\ M <= L + 1
      /\ verdicts'[M] = errors
      /\ \A k \in 1..(M - 1) : verdicts'[M - k] = verdicts[L - (k - 1)]
      /\ L < StreakCap => M = L + 1
      /\ L = StreakCap => M = StreakCap
  BY <1>1, WindowMoves DEF TypeOK, Trailing
<1>5. /\ L <= StreakCap /\ streak <= L
      /\ \A k \in 0..(streak - 1) : verdicts[L - k] = prevErrors
      /\ 0 < streak /\ streak < L => verdicts[L - streak] # prevErrors
      /\ streak = 0 => prevErrors = NoErrors /\ (L = 0 \/ verdicts[L] = "ok")
  <2>1. verdicts \in Seq(ErrorLists \cup {"ok"})
    BY DEF TypeOK, SchemaType
  <2> QED BY <2>1 DEF Trailing, LastVerdict
<1>6. errors # NoErrors /\ errors # "ok"
  BY DEF NoErrors
<1>7. finish'.kind = "answer_schema_exhausted" <=> streak' >= StreakCap
  BY <1>2, Dispositions DEF ClaimInvalidAnswer, Plain, Disposition
<1> HIDE DEF L, M
<1>8. CASE errors = prevErrors
  <2>1. streak' = streak + 1 /\ streak > 0 /\ streak' <= M
    BY <1>1, <1>2, <1>3, <1>4, <1>5, <1>6, <1>8 DEF NextStreak
  <2>2. \A k \in 0..(streak' - 1) : verdicts'[M - k] = errors
    <3> TAKE k \in 0..(streak' - 1)
    <3>1. CASE k = 0
      BY <1>4, <3>1
    <3>2. CASE k > 0
      <4>1. k \in 1..(M - 1) /\ k - 1 \in 0..(streak - 1)
        BY <1>2, <1>4, <2>1, <3>2
      <4> QED BY <1>4, <1>5, <1>8, <4>1
    <3> QED BY <3>1, <3>2
  <2>3. streak' < M => verdicts'[M - streak'] # errors
    <3> SUFFICES ASSUME streak' < M PROVE verdicts'[M - streak'] # errors
      OBVIOUS
    <3>1. streak' \in 1..(M - 1) /\ streak < L /\ streak' - 1 = streak
      BY <1>2, <1>4, <2>1
    <3> QED BY <1>4, <1>5, <1>8, <2>1, <3>1
  <2>4. streak' = StreakCap <=> streak' >= StreakCap
    BY <1>2, <1>3, <2>1
  <2> QED BY <1>1, <1>2, <1>4, <1>7, <2>1, <2>2, <2>3, <2>4 DEF Trailing, M
<1>9. CASE errors # prevErrors
  <2>1. streak' = 1 /\ streak' <= M
    BY <1>1, <1>4, <1>9 DEF NextStreak
  <2>2. \A k \in 0..(streak' - 1) : verdicts'[M - k] = errors
    BY <1>4, <2>1
  <2>3. streak' < M => verdicts'[M - streak'] # errors
    <3> SUFFICES ASSUME 1 < M PROVE verdicts'[M - 1] # errors
      BY <2>1
    <3>1. verdicts'[M - 1] = verdicts[L] /\ L > 0
      BY <1>4
    <3>2. CASE streak = 0
      BY <1>5, <1>6, <3>1, <3>2
    <3>3. CASE streak > 0
      <4>1. verdicts[L - 0] = prevErrors
        BY <1>2, <1>5, <3>3
      <4> QED BY <1>4, <1>9, <3>1, <4>1
    <3> QED BY <1>2, <3>2, <3>3
  <2>4. streak' = StreakCap <=> streak' >= StreakCap
    BY <2>1
  <2> QED BY <1>1, <1>4, <1>7, <2>1, <2>2, <2>3, <2>4 DEF Trailing, M
<1> QED BY <1>8, <1>9

(* A valid answer ends the streak.                                           *)
LEMMA TrailingValid ==
  ASSUME TypeOK, Trailing, ClaimValidAnswer
  PROVE  Trailing'
<1>1. finish = NoFinish /\ Record("ok") /\ streak' = 0 /\ prevErrors' = NoErrors
  BY DEF ClaimValidAnswer, Claiming
<1>2. /\ Len(verdicts') \in 1..StreakCap /\ verdicts'[Len(verdicts')] = "ok"
  BY <1>1, WindowMoves DEF TypeOK, Trailing
<1>3. finish'.kind # "answer_schema_exhausted"
  BY <1>1, Dispositions
     DEF ClaimValidAnswer, Accept, Reject, Disposition
<1> QED BY <1>1, <1>2, <1>3 DEF Trailing, LastVerdict

(* No other step touches the streak, or fails a run for it.                  *)
LEMMA TrailingStep == TypeOK /\ Trailing /\ [Next]_vars => Trailing'
<1> SUFFICES ASSUME TypeOK, Trailing, [Next]_vars PROVE Trailing'
  OBVIOUS
<1>1. ASSUME UNCHANGED schema, finish' = finish PROVE Trailing'
  BY <1>1 DEF schema, Trailing, LastVerdict
<1>2. CASE finish' = finish /\ ~ClaimInvalidAnswer /\ ~ClaimValidAnswer
  <2>1. UNCHANGED schema
    <3>1. CASE TopOfLoop
      BY <3>1 DEF TopOfLoop, WallClockExhausted, TokensExhausted, StartPass, IterationCap
    <3>2. CASE ModelCall
      BY <3>2 DEF ModelCall, Retry, InterceptOverflow, BackendFails, TurnReturns
    <3>3. CASE NoCalls
      BY <3>3 DEF NoCalls, Truncated, StopNudge, StopNudgesExhausted, StoppedWithoutFinish
    <3>4. CASE OneCall
      BY <1>2, <3>4 DEF OneCall, RunChecksCall, EditFileCall, BashSucceeds, BashFails,
           InertCall, ToolCall, ClaimDone, ClaimAlreadySatisfied, ClaimDefeat, ClaimMalformed
    <3>5. CASE EndOfBatch
      BY <3>5 DEF EndOfBatch, FinishRun, NextPass, StaticNudge, StaticNudgesExhausted
    <3>6. CASE UNCHANGED vars
      BY <3>6 DEF vars
    <3> QED BY <3>1, <3>2, <3>3, <3>4, <3>5, <3>6 DEF Next, Ended
  <2> QED BY <1>1, <1>2, <2>1
<1>3. CASE finish' # finish /\ ~ClaimInvalidAnswer /\ ~ClaimValidAnswer
  <2>1. OneCall
    BY <1>3, FinishSetByCalls
  <2>2. ClaimDone \/ ClaimAlreadySatisfied \/ ClaimDefeat
    BY <1>3, <2>1
       DEF OneCall, RunChecksCall, EditFileCall, BashSucceeds, BashFails, InertCall,
           ToolCall, verdict, ClaimMalformed, Reject
  <2>3. /\ finish = NoFinish /\ UNCHANGED schema
        /\ finish'.kind # "answer_schema_exhausted"
    <3>1. CASE ClaimDone
      BY <1>3, <3>1 DEF ClaimDone, Claiming, Accept, Reject, Disposition
    <3>2. CASE ClaimAlreadySatisfied
      BY <1>3, <3>2 DEF ClaimAlreadySatisfied, Claiming, Accept, Reject, Disposition
    <3>3. CASE ClaimDefeat
      BY <1>3, <3>3 DEF ClaimDefeat, Claiming, Accept, Plain, Disposition
    <3> QED BY <2>2, <3>1, <3>2, <3>3
  <2>4. finish.kind # "answer_schema_exhausted"
    BY <2>3, Dispositions
  <2> QED BY <2>3, <2>4 DEF schema, Trailing, LastVerdict
<1> QED BY <1>2, <1>3, TrailingRefused, TrailingValid

(* With any cap and any error lists a run is failed for its answers on the   *)
(* last StreakCap verdicts being one and the same rejection, and only then.  *)
THEOREM SchemaCapCorrect == Spec => []SchemaCapExact
<1>1. Init => Trailing
  BY Dispositions, EmptySeq DEF Init, Trailing
<1>2. TypeOK /\ Trailing => SchemaCapExact
  <2> SUFFICES ASSUME TypeOK, Trailing PROVE SchemaCapExact
    OBVIOUS
  <2> DEFINE L == Len(verdicts)
  <2>1. L \in Nat /\ streak \in Nat /\ (verdicts = <<>> => L = 0)
    BY DEF TypeOK, SchemaType
  <2>2. CASE finish.kind = "answer_schema_exhausted"
    <3>1. streak = StreakCap /\ L = StreakCap /\ prevErrors \in ErrorLists
      BY <2>1, <2>2 DEF Trailing
    <3>2. \A i \in 1..StreakCap : verdicts[i] = prevErrors
      <4> TAKE i \in 1..StreakCap
      <4>1. L - i \in 0..(streak - 1) /\ L - (L - i) = i
        BY <3>1
      <4>2. verdicts[L - (L - i)] = prevErrors
        BY <4>1 DEF Trailing
      <4> QED BY <4>1, <4>2
    <3> QED BY <2>2, <3>1, <3>2 DEF SchemaCapExact
  <2>3. CASE finish.kind # "answer_schema_exhausted"
    <3> SUFFICES ASSUME L = StreakCap, verdicts[1] # "ok",
                        \A i \in 1..StreakCap : verdicts[i] = verdicts[1]
                 PROVE  FALSE
      BY <2>3 DEF SchemaCapExact
    <3>1. streak < L
      BY <2>1, <2>3 DEF Trailing
    <3>2. L - streak \in 1..StreakCap /\ L \in 1..StreakCap
      BY <2>1, <3>1
    <3>3. CASE streak = 0
      BY <2>1, <3>2, <3>3 DEF Trailing, LastVerdict
    <3>4. CASE streak > 0
      <4>1. verdicts[L - 0] = prevErrors
        BY <2>1, <3>4 DEF Trailing
      <4>2. verdicts[L - streak] # prevErrors
        BY <3>1, <3>4 DEF Trailing
      <4> QED BY <2>1, <3>2, <4>1, <4>2
    <3> QED BY <2>1, <3>3, <3>4
  <2> QED BY <2>2, <2>3
<1> QED BY <1>1, <1>2, TypeCorrect, TrailingStep, PTL DEF Spec
=============================================================================
