----------------------------- MODULE Ralph_proofs -----------------------------
(***************************************************************************)
(* Theorems about Ralph, for any trees and any caps: types, what a commit   *)
(* of the loop holds, which tree the stop command judges, and that the      *)
(* report alone explains why the loop ended.                                *)
(***************************************************************************)
EXTENDS Ralph, FiniteSetTheorems, TLAPS

USE RalphAssumption

(* A loop that goes on has no breaker at its cap, and a probe is made only   *)
(* while a retry is left.                                                    *)
BelowCaps ==
  /\ pc # "over" =>
       doOvers < MaxDoOvers /\ backendErrors < MaxBackendErrors /\ stuck < StuckK
  /\ pc \in {"probe", "restage"} => commitRetries < MaxCommitRetries

Typed == TypeOK /\ BelowCaps

(* The start is typed.                                                       *)
LEMMA TypedInit == Init => Typed
<1> SUFFICES ASSUME Init PROVE Typed
  OBVIOUS
<1> USE DEF Init
<1>1. GitType
  BY DEF GitType
<1>2. ControlType /\ CountersType
  BY DEF ControlType, CountersType
<1>5. PassType
  <2>1. commitRetries \in 0..MaxCommitRetries
    OBVIOUS
  <2> QED BY <2>1, Zenon DEF PassType, Outcomes
<1>3. BelowCaps
  BY DEF BelowCaps
<1>4. iterations \in Seq(Pass)
  OBVIOUS
<1> QED BY <1>1, <1>2, <1>3, <1>4, <1>5 DEF Typed, TypeOK

(* The counters move by one at most.                                         *)
LEMMA CountType ==
  ASSUME Typed, Count
  PROVE  /\ CountersType'
         /\ Verdict \in {"none", "do_overs", "backend_errors", "stuck", "max_iterations"}
         /\ Verdict = "none" =>
              /\ doOvers' < MaxDoOvers /\ backendErrors' < MaxBackendErrors
              /\ stuck' < StuckK /\ i + 1 < MaxOuter
<1>1. /\ doOvers \in Nat /\ backendErrors \in Nat /\ stuck \in Nat /\ i \in Nat
      /\ doOvers < MaxDoOvers /\ backendErrors < MaxBackendErrors /\ stuck < StuckK
  BY DEF Typed, TypeOK, BelowCaps, CountersType, ControlType, Count
<1>2. /\ NextDoOvers \in 0..MaxDoOvers /\ NextBackendErrors \in 0..MaxBackendErrors
      /\ NextStuck \in 0..StuckK
  BY <1>1 DEF NextDoOvers, NextBackendErrors, NextStuck
<1>3. CountersType'
  BY <1>2 DEF Count, CountersType
<1>4. Verdict \in {"none", "do_overs", "backend_errors", "stuck", "max_iterations"}
  BY DEF Verdict
<1>5. Verdict = "none" =>
        /\ NextDoOvers < MaxDoOvers /\ NextBackendErrors < MaxBackendErrors
        /\ NextStuck < StuckK /\ i + 1 < MaxOuter
  BY <1>1, <1>2 DEF Verdict
<1> QED BY <1>3, <1>4, <1>5 DEF Count

(* The pass, up to the decision what to do with its work.                    *)
LEMMA TypedPass == Typed /\ (RunInner \/ Observe) => Typed'
<1> SUFFICES ASSUME Typed, RunInner \/ Observe PROVE Typed'
  OBVIOUS
<1> USE DEF git, pass, counters, Typed, TypeOK, BelowCaps
<1>1. CASE RunInner
  <2>1. GitType'
    BY <1>1 DEF RunInner, GitType
  <2> QED BY <1>1, <2>1 DEF RunInner, ControlType, PassType, CountersType
<1>2. CASE Observe
  <2>1. PassType'
    <3>1. madeChanges' \in BOOLEAN /\ progressEmpty' \in BOOLEAN
      BY <1>2, Zenon DEF Observe, Dirty, ProgressDirty
    <3>2. commitRetries' \in 0..MaxCommitRetries
      BY <1>2 DEF Observe
    <3> QED BY <1>2, <3>1, <3>2, Zenon DEF Observe, PassType
  <2> QED BY <1>2, <2>1 DEF Observe, GitType, ControlType, CountersType, Behind
<1> QED BY <1>1, <1>2

(* The commit of a green pass and its retries.                               *)
LEMMA TypedCommit == Typed /\ Commit => Typed'
<1> SUFFICES ASSUME Typed, Commit PROVE Typed'
  OBVIOUS
<1> USE DEF git, pass, counters, Typed, TypeOK, BelowCaps
<1>1. CASE Stage
  BY <1>1 DEF Stage, GitType, ControlType, PassType, CountersType
<1>2. CASE CommitAccepted
  <2>1. GitType'
    BY <1>2 DEF CommitAccepted, Hook, GitType
  <2> QED BY <1>2, <2>1 DEF CommitAccepted, ControlType, PassType, CountersType, Behind
<1>3. CASE CommitRejected
  <2>1. GitType'
    BY <1>3 DEF CommitRejected, Hook, GitType
  <2>2. PassType'
    BY <1>3 DEF CommitRejected, PassType, RetryLeft
  <2>3. ControlType' /\ BelowCaps'
    BY <1>3 DEF CommitRejected, ControlType, PassType, RetryLeft, Behind
  <2> QED BY <1>3, <2>1, <2>2, <2>3 DEF CommitRejected, CountersType
<1>4. CASE ProbeRetries
  BY <1>4 DEF ProbeRetries, GitType, ControlType, PassType, CountersType
<1>5. CASE ProbeGivesUp
  BY <1>5 DEF ProbeGivesUp, GitType, ControlType, PassType, CountersType, Behind
<1>6. CASE Restage
  BY <1>6 DEF Restage, GitType, ControlType, PassType, CountersType
<1> QED BY <1>1, <1>2, <1>3, <1>4, <1>5, <1>6 DEF Commit

(* The revert, the stop command and the breakers.                            *)
LEMMA TypedEnd ==
  Typed /\ (Revert \/ StopCommand \/ Breakers \/ HardError \/ UNCHANGED vars) => Typed'
<1> SUFFICES ASSUME Typed, Revert \/ StopCommand \/ Breakers \/ HardError \/ UNCHANGED vars
             PROVE  Typed'
  OBVIOUS
<1> USE DEF git, pass, counters
<1>0. /\ {head, index, work} \subseteq Trees /\ GitType /\ ControlType /\ PassType
      /\ CountersType /\ iterations \in Seq(Pass) /\ BelowCaps
  BY DEF Typed, TypeOK, GitType
<1>1. CASE Reset
  <2>1. work' \in Trees
    BY <1>0, <1>1 DEF Reset, Trees
  <2>2. GitType'
    BY <1>0, <1>1, <2>1 DEF Reset, GitType
  <2> QED BY <1>0, <1>1, <2>2 DEF Reset, Typed, TypeOK, ControlType, PassType,
                                  CountersType, BelowCaps
<1>2. CASE Clean
  BY <1>0, <1>2 DEF Clean, Typed, TypeOK, GitType, ControlType, PassType, CountersType,
                    BelowCaps
<1>3. CASE StopCommand
  <2>1. work' \in Trees
    BY <1>0, <1>3 DEF StopCommand, Trees
  <2>2. GitType'
    BY <1>0, <1>3, <2>1 DEF StopCommand, GitType
  <2>3. [outcome |-> outcome, madeChanges |-> madeChanges, committed |-> committed,
         progress |-> ~progressEmpty] \in Pass
    BY <1>0 DEF PassType, Pass
  <2>4. iterations' \in Seq(Pass)
    BY <1>0, <1>3, <2>3 DEF StopCommand
  <2> QED BY <1>0, <1>3, <2>2, <2>4
          DEF StopCommand, End, Typed, TypeOK, ControlType, PassType, CountersType,
              BelowCaps
<1>4. CASE Breakers
  <2>1. Count
    BY <1>4 DEF Breakers, Break, TimeBudgetExhausted, NextIteration
  <2>2. GitType' /\ PassType' /\ iterations' \in Seq(Pass)
    BY <1>0, <2>1 DEF Count, GitType, PassType
  <2>3. CountersType'
    BY <2>1, CountType
  <2>4. ControlType' /\ BelowCaps'
    <3>1. CASE Break \/ TimeBudgetExhausted
      BY <1>0, <2>1, <3>1, CountType
       DEF Break, TimeBudgetExhausted, End, ControlType, BelowCaps
    <3>2. CASE NextIteration
      BY <1>0, <2>1, <3>2, CountType DEF NextIteration, ControlType, BelowCaps
    <3> QED BY <1>4, <3>1, <3>2 DEF Breakers
  <2> QED BY <2>2, <2>3, <2>4 DEF Typed, TypeOK
<1>5. CASE HardError
  BY <1>0, <1>5 DEF HardError, End, Typed, TypeOK, GitType, ControlType, PassType,
                    CountersType, BelowCaps
<1>6. CASE UNCHANGED vars
  BY <1>0, <1>6 DEF vars, Typed, TypeOK, GitType, ControlType, PassType, CountersType,
                    BelowCaps
<1> QED BY <1>1, <1>2, <1>3, <1>4, <1>5, <1>6 DEF Revert

(* Typed holds throughout.                                                   *)
LEMMA TypedAlways == Spec => []Typed
<1>1. Typed /\ [Next]_vars => Typed'
  BY TypedPass, TypedCommit, TypedEnd DEF Next, Over
<1> QED BY <1>1, TypedInit, PTL DEF Spec

(* Every variable of run_ralph stays in its range for all caps: the retry    *)
(* bound its debug_assert states, and no counter past its breaker.           *)
THEOREM TypeCorrect == Spec => []TypeOK
<1>1. Typed => TypeOK
  BY DEF Typed
<1> QED BY <1>1, TypedAlways, PTL

-----------------------------------------------------------------------------
(* The tree through a commit and a revert.                                   *)

(* While a commit is tried, the work tree is what was vouched for, and what  *)
(* git commit is about to take is staged.  Behind a reset only untracked     *)
(* files can differ from HEAD, and clean removes them.                       *)
Tracked ==
  /\ pc = "observe" /\ IsGreen => vouched = work
  /\ pc \in {"stage", "commit", "probe", "restage"} =>
       IsGreen /\ madeChanges /\ ~committed /\ vouched = work
  /\ pc = "commit" => index = work
  /\ pc = "clean" => index = head
  /\ pc = "reset" => madeChanges
  /\ ObjectiveOnHead

(* The pass and the commit keep track of the tree.                           *)
LEMMA TrackedCommit == Tracked /\ (RunInner \/ Observe \/ Commit) => Tracked'
<1> SUFFICES ASSUME Tracked, RunInner \/ Observe \/ Commit PROVE Tracked'
  OBVIOUS
<1> USE DEF Tracked, ObjectiveOnHead, IsGreen, git, pass
<1>1. CASE RunInner
  BY <1>1 DEF RunInner
<1>2. CASE Observe
  BY <1>2 DEF Observe, Behind, Reverts, Dirty
<1>3. CASE Stage
  BY <1>3 DEF Stage
<1>4. CASE CommitAccepted
  BY <1>4 DEF CommitAccepted, Hook, Behind, Reverts
<1>5. CASE CommitRejected
  BY <1>5 DEF CommitRejected, Hook, Behind, Reverts
<1>6. CASE ProbeRetries \/ ProbeGivesUp
  BY <1>6 DEF ProbeRetries, ProbeGivesUp, Behind, Reverts
<1>7. CASE Restage
  BY <1>7 DEF Restage
<1> QED BY <1>1, <1>2, <1>3, <1>4, <1>5, <1>6, <1>7 DEF Commit

(* So do the revert and what follows it.                                     *)
LEMMA TrackedEnd ==
  Tracked /\ (Revert \/ StopCommand \/ Breakers \/ HardError \/ UNCHANGED vars) => Tracked'
<1> SUFFICES ASSUME Tracked,
                    Revert \/ StopCommand \/ Breakers \/ HardError \/ UNCHANGED vars
             PROVE  Tracked'
  OBVIOUS
<1> USE DEF Tracked, ObjectiveOnHead, IsGreen
<1>1. CASE Revert
  BY <1>1 DEF Revert, Reset, Clean
<1>2. CASE StopCommand \/ Breakers \/ HardError
  BY <1>2 DEF StopCommand, Breakers, Break, TimeBudgetExhausted, NextIteration, End,
              HardError
<1>3. CASE UNCHANGED vars
  BY <1>3 DEF vars, git, pass
<1> QED BY <1>1, <1>2, <1>3

(* Tracked holds throughout.                                                 *)
LEMMA TrackedAlways == Spec => []Tracked
<1>1. Init => Tracked
  BY DEF Init, Tracked, ObjectiveOnHead
<1>2. Tracked /\ [Next]_vars => Tracked'
  BY TrackedCommit, TrackedEnd DEF Next, Over
<1> QED BY <1>1, <1>2, PTL DEF Spec

(* The stop command judges what is committed: whatever a do-over left, in    *)
(* the index or untracked, is gone when it runs.                             *)
THEOREM ObjectiveOnHeadCorrect == Spec => []ObjectiveOnHead
<1>1. Tracked => ObjectiveOnHead
  BY DEF Tracked
<1> QED BY <1>1, TrackedAlways, PTL

(* A commit of the loop is what the green claim was about, as rewritten by   *)
(* the hook: only CommitAccepted moves HEAD, and it takes what was staged    *)
(* from the vouched tree, or what the hook itself staged.                    *)
THEOREM CommitsVouchedCorrect == Spec => CommitsVouched
<1>1. Tracked /\ [Next]_vars
        => [head' # head => RunInner \/ (IsGreen /\ head' = vouched')]_vars
  <2> SUFFICES ASSUME Tracked, [Next]_vars, head' # head
               PROVE  RunInner \/ (IsGreen /\ head' = vouched')
    OBVIOUS
  <2>1. RunInner \/ CommitAccepted
    BY DEF Next, Observe, Commit, Stage, CommitRejected, ProbeRetries, ProbeGivesUp,
           Restage, Revert, Reset, Clean, StopCommand, Breakers, Break,
           TimeBudgetExhausted, NextIteration, Count, HardError, Over, vars, git
  <2>2. CASE CommitAccepted
    BY <2>2 DEF CommitAccepted, Hook, Tracked
  <2> QED BY <2>1, <2>2
<1> QED BY <1>1, TrackedAlways, PTL DEF Spec, CommitsVouched

-----------------------------------------------------------------------------
(* The report explains the terminal.                                         *)

(* The passes a reader of a report counts for each breaker.                  *)
DoOversIn(report) ==
  {k \in DOMAIN report :
    /\ DidOver(report[k])
    /\ \A j \in DOMAIN report : j > k => ~report[j].committed}
BackendErrorsIn(report) ==
  {k \in DOMAIN report :
    \A j \in k..Len(report) : report[j].outcome = "backend_error"}
StuckIn(report) ==
  {k \in DOMAIN report :
    /\ Kept(report[k]) /\ ~report[k].progress
    /\ \A j \in DOMAIN report : j > k => ~(Kept(report[j]) /\ report[j].progress)}

LastPass ==
  [outcome |-> outcome, madeChanges |-> madeChanges, committed |-> committed,
   progress |-> ~progressEmpty]

(* Only a green pass is committed, and a green one that is not either failed *)
(* to or had nothing to commit.                                              *)
PassTold ==
  /\ pc \in {"stage", "commit", "probe", "restage"} =>
       IsGreen /\ madeChanges /\ ~committed /\ ~commitFailed
  /\ pc \in {"reset", "clean", "stop", "breakers"} =>
       /\ committed => IsGreen
       /\ IsGreen => (commitFailed <=> madeChanges /\ ~committed)

(* The counters are what the report counts; while the breakers are looked at *)
(* the report is one pass ahead of them.                                     *)
Counted ==
  /\ pc # "over" => terminal = "none"
  /\ pc \notin {"breakers", "over"} =>
       /\ Len(iterations) = i
       /\ doOvers = DoOverCount /\ backendErrors = BackendErrorRun /\ stuck = StuckCount
  /\ pc = "breakers" =>
       /\ Len(iterations) = i + 1 /\ iterations[i + 1] = LastPass
       /\ NextDoOvers = DoOverCount /\ NextBackendErrors = BackendErrorRun
       /\ NextStuck = StuckCount

(* The counts are of those passes.                                           *)
LEMMA Counts ==
  /\ DoOverCount = Cardinality(DoOversIn(iterations))
  /\ BackendErrorRun = Cardinality(BackendErrorsIn(iterations))
  /\ StuckCount = Cardinality(StuckIn(iterations))
BY DEF DoOverCount, BackendErrorRun, StuckCount, DoOversIn, BackendErrorsIn, StuckIn

(* A report that grew by one pass.                                           *)
LEMMA Reported ==
  ASSUME NEW report \in Seq(Pass), NEW p \in Pass
  PROVE  /\ Len(Append(report, p)) = Len(report) + 1 /\ Len(report) \in Nat
         /\ DOMAIN Append(report, p) = 1..(Len(report) + 1) /\ DOMAIN report = 1..Len(report)
         /\ \A k \in 1..Len(report) : Append(report, p)[k] = report[k]
         /\ Append(report, p)[Len(report) + 1] = p
OBVIOUS

(* The passes counted when one more, the n-th, is there: the earlier ones go  *)
(* on to count or none of them does, and the n-th is one more or is not.     *)
LEMMA CountMoves ==
  ASSUME NEW n \in Nat, NEW longer, NEW shorter,
         longer \subseteq 1..n, shorter \subseteq 1..(n - 1)
  PROVE  /\ (\A k \in 1..(n - 1) : k \notin longer) /\ n \notin longer => longer = {}
         /\ (\A k \in 1..(n - 1) : k \in longer <=> k \in shorter) /\ n \in longer
              => longer = shorter \cup {n}
<1>1. \A k \in 1..n : k \in 1..(n - 1) \/ k = n
  OBVIOUS
<1>2. (\A k \in longer : k = n \/ k \in 1..(n - 1)) /\ n \notin shorter
  BY <1>1
<1>3. ASSUME \A k \in 1..(n - 1) : k \notin longer PROVE longer \subseteq {n}
  BY <1>2, <1>3, Zenon
<1>4. ASSUME \A k \in 1..(n - 1) : k \in longer <=> k \in shorter
      PROVE  \A k : k \in longer <=> k \in shorter \/ (k = n /\ n \in longer)
  BY <1>2, <1>4, Zenon
<1>5. (\A k \in 1..(n - 1) : k \in longer <=> k \in shorter)
          /\ n \in longer => longer = shorter \cup {n}
  BY <1>4, SMT
<1> QED BY <1>3, <1>5

(* A committed pass starts the count of do-overs anew, a do-over adds one.   *)
LEMMA DoOversAppend ==
  ASSUME NEW report \in Seq(Pass), NEW p \in Pass, p.committed => ~DidOver(p)
  PROVE  DoOversIn(Append(report, p)) =
           IF p.committed THEN {}
           ELSE IF DidOver(p) THEN DoOversIn(report) \cup {Len(report) + 1}
           ELSE DoOversIn(report)
<1> DEFINE longer == Append(report, p)
           n == Len(report) + 1
<1>1. /\ DOMAIN longer = 1..n /\ n \in Nat \ {0} /\ DOMAIN report = 1..(n - 1)
      /\ \A k \in 1..(n - 1) : longer[k] = report[k]
      /\ longer[n] = p
  BY Reported
<1> HIDE DEF longer, n
<1>2. \A k \in 1..n : k \in 1..(n - 1) \/ k = n
  BY <1>1
<1>3. n \in DoOversIn(longer) <=> DidOver(p)
  <2>1. n \in DOMAIN longer /\ \A j \in DOMAIN longer : ~(j > n)
    BY <1>1
  <2> QED BY <1>1, <2>1, Zenon DEF DoOversIn
<1>4. ASSUME NEW k \in 1..(n - 1)
      PROVE  k \in DoOversIn(longer) <=> k \in DoOversIn(report) /\ ~p.committed
  <2>1. k \in DoOversIn(longer) <=>
          /\ DidOver(report[k])
          /\ \A j \in 1..n : j > k => ~longer[j].committed
    BY <1>1 DEF DoOversIn
  <2>2. k \in DoOversIn(report) <=>
          /\ DidOver(report[k])
          /\ \A j \in 1..(n - 1) : j > k => ~report[j].committed
    BY <1>1 DEF DoOversIn
  <2>3. (\A j \in 1..n : j > k => ~longer[j].committed) <=>
          /\ \A j \in 1..(n - 1) : j > k => ~report[j].committed
          /\ ~p.committed
    BY <1>1, <1>2
  <2> QED BY <2>1, <2>2, <2>3
<1>5. DoOversIn(longer) \subseteq 1..n /\ DoOversIn(report) \subseteq 1..(n - 1)
  BY <1>1 DEF DoOversIn
<1>6. CASE p.committed
  <2>1. (\A k \in 1..(n - 1) : k \notin DoOversIn(longer)) /\ n \notin DoOversIn(longer)
    BY <1>3, <1>4, <1>6
  <2>2. DoOversIn(longer) = {}
    BY <1>1, <1>5, <2>1, CountMoves
  <2> QED BY <1>6, <2>2 DEF longer
<1>7. CASE ~p.committed
  <2>1. \A k \in 1..(n - 1) : k \in DoOversIn(longer) <=> k \in DoOversIn(report)
    BY <1>4, <1>7
  <2>2. CASE n \in DoOversIn(longer)
    <3>1. DoOversIn(longer) = DoOversIn(report) \cup {n}
      BY <1>1, <1>5, <2>1, <2>2, CountMoves
    <3> QED BY <1>3, <1>7, <2>2, <3>1 DEF longer, n
  <2>3. CASE n \notin DoOversIn(longer)
    <3>1. \A k : k \in DoOversIn(longer) <=> k \in DoOversIn(report)
      BY <1>2, <1>5, <2>1, <2>3, Zenon
    <3> QED BY <1>3, <1>7, <2>3, <3>1 DEF longer, n
  <2> QED BY <2>2, <2>3
<1> QED BY <1>6, <1>7

(* A pass the backend failed adds to the run of them, any other ends it.     *)
LEMMA BackendErrorsAppend ==
  ASSUME NEW report \in Seq(Pass), NEW p \in Pass
  PROVE  BackendErrorsIn(Append(report, p)) =
           IF p.outcome = "backend_error" THEN BackendErrorsIn(report) \cup {Len(report) + 1}
           ELSE {}
<1> DEFINE longer == Append(report, p)
           n == Len(report) + 1
<1>1. /\ DOMAIN longer = 1..n /\ n \in Nat \ {0} /\ DOMAIN report = 1..(n - 1)
      /\ Len(longer) = n /\ Len(report) = n - 1
      /\ \A k \in 1..(n - 1) : longer[k] = report[k]
      /\ longer[n] = p
  BY Reported
<1> HIDE DEF longer, n
<1>2. \A k \in 1..n : k \in 1..(n - 1) \/ k = n
  BY <1>1
<1>3. n \in BackendErrorsIn(longer) <=> p.outcome = "backend_error"
  <2>1. n..Len(longer) = {n} /\ n \in DOMAIN longer
    BY <1>1
  <2> QED BY <1>1, <2>1 DEF BackendErrorsIn
<1>4. ASSUME NEW k \in 1..(n - 1)
      PROVE  k \in BackendErrorsIn(longer) <=>
               k \in BackendErrorsIn(report) /\ p.outcome = "backend_error"
  <2>1. k \in BackendErrorsIn(longer) <=>
          \A j \in k..n : longer[j].outcome = "backend_error"
    BY <1>1 DEF BackendErrorsIn
  <2>2. k \in BackendErrorsIn(report) <=>
          \A j \in k..(n - 1) : report[j].outcome = "backend_error"
    BY <1>1 DEF BackendErrorsIn
  <2>3. \A j \in k..n : j \in k..(n - 1) \/ j = n
    BY <1>1
  <2>4. /\ \A j \in k..(n - 1) : j \in k..n /\ longer[j] = report[j]
        /\ n \in k..n
    BY <1>1
  <2> QED BY <1>1, <2>1, <2>2, <2>3, <2>4
<1>5. BackendErrorsIn(longer) \subseteq 1..n /\ BackendErrorsIn(report) \subseteq 1..(n - 1)
  BY <1>1 DEF BackendErrorsIn
<1>6. CASE p.outcome = "backend_error"
  <2>1. \A k \in 1..(n - 1) : k \in BackendErrorsIn(longer) <=> k \in BackendErrorsIn(report)
    BY <1>4, <1>6
  <2>2. BackendErrorsIn(longer) = BackendErrorsIn(report) \cup {n}
    BY <1>1, <1>3, <1>5, <1>6, <2>1, CountMoves
  <2> QED BY <1>6, <2>2 DEF longer, n
<1>7. CASE p.outcome # "backend_error"
  <2>1. /\ \A k \in 1..(n - 1) : k \notin BackendErrorsIn(longer)
        /\ n \notin BackendErrorsIn(longer)
    BY <1>3, <1>4, <1>7
  <2>2. BackendErrorsIn(longer) = {}
    BY <1>1, <1>5, <2>1, CountMoves
  <2> QED BY <1>7, <2>2 DEF longer
<1> QED BY <1>6, <1>7

(* A kept pass with progress starts the count anew, one without adds to it.  *)
LEMMA StuckAppend ==
  ASSUME NEW report \in Seq(Pass), NEW p \in Pass
  PROVE  StuckIn(Append(report, p)) =
           IF Kept(p) /\ p.progress THEN {}
           ELSE IF Kept(p) THEN StuckIn(report) \cup {Len(report) + 1}
           ELSE StuckIn(report)
<1> DEFINE longer == Append(report, p)
           n == Len(report) + 1
<1>1. /\ DOMAIN longer = 1..n /\ n \in Nat \ {0} /\ DOMAIN report = 1..(n - 1)
      /\ \A k \in 1..(n - 1) : longer[k] = report[k]
      /\ longer[n] = p
  BY Reported
<1> HIDE DEF longer, n
<1>2. \A k \in 1..n : k \in 1..(n - 1) \/ k = n
  BY <1>1
<1>3. n \in StuckIn(longer) <=> Kept(p) /\ ~p.progress
  <2>1. n \in DOMAIN longer /\ \A j \in DOMAIN longer : ~(j > n)
    BY <1>1
  <2> QED BY <1>1, <2>1, Zenon DEF StuckIn
<1>4. ASSUME NEW k \in 1..(n - 1)
      PROVE  k \in StuckIn(longer) <=> k \in StuckIn(report) /\ ~(Kept(p) /\ p.progress)
  <2>1. k \in StuckIn(longer) <=>
          /\ Kept(report[k]) /\ ~report[k].progress
          /\ \A j \in 1..n : j > k => ~(Kept(longer[j]) /\ longer[j].progress)
    BY <1>1 DEF StuckIn
  <2>2. k \in StuckIn(report) <=>
          /\ Kept(report[k]) /\ ~report[k].progress
          /\ \A j \in 1..(n - 1) : j > k => ~(Kept(report[j]) /\ report[j].progress)
    BY <1>1 DEF StuckIn
  <2>3. (\A j \in 1..n : j > k => ~(Kept(longer[j]) /\ longer[j].progress)) <=>
          /\ \A j \in 1..(n - 1) : j > k => ~(Kept(report[j]) /\ report[j].progress)
          /\ ~(Kept(p) /\ p.progress)
    BY <1>1, <1>2
  <2> QED BY <2>1, <2>2, <2>3
<1>5. StuckIn(longer) \subseteq 1..n /\ StuckIn(report) \subseteq 1..(n - 1)
  BY <1>1 DEF StuckIn
<1>6. CASE Kept(p) /\ p.progress
  <2>1. (\A k \in 1..(n - 1) : k \notin StuckIn(longer)) /\ n \notin StuckIn(longer)
    BY <1>3, <1>4, <1>6
  <2>2. StuckIn(longer) = {}
    BY <1>1, <1>5, <2>1, CountMoves
  <2> QED BY <1>6, <2>2 DEF longer
<1>7. CASE ~(Kept(p) /\ p.progress)
  <2>1. \A k \in 1..(n - 1) : k \in StuckIn(longer) <=> k \in StuckIn(report)
    BY <1>4, <1>7
  <2>2. CASE n \in StuckIn(longer)
    <3>1. StuckIn(longer) = StuckIn(report) \cup {n}
      BY <1>1, <1>5, <2>1, <2>2, CountMoves
    <3> QED BY <1>3, <1>7, <2>2, <3>1 DEF longer, n
  <2>3. CASE n \notin StuckIn(longer)
    <3>1. \A k : k \in StuckIn(longer) <=> k \in StuckIn(report)
      BY <1>2, <1>5, <2>1, <2>3, Zenon
    <3> QED BY <1>3, <1>7, <2>3, <3>1 DEF longer, n
  <2> QED BY <2>2, <2>3
<1> QED BY <1>6, <1>7

(* The passes counted are finitely many, and the next is not yet among them. *)
LEMMA CountedPasses ==
  ASSUME NEW report \in Seq(Pass), NEW counted,
         counted \in {DoOversIn(report), BackendErrorsIn(report), StuckIn(report)}
  PROVE  /\ IsFiniteSet(counted) /\ Cardinality(counted) \in Nat
         /\ Cardinality(counted \cup {Len(report) + 1}) = Cardinality(counted) + 1
<1>1. DOMAIN report = 1..Len(report) /\ Len(report) \in Nat
  OBVIOUS
<1>2. counted \subseteq 1..Len(report)
  BY <1>1 DEF DoOversIn, BackendErrorsIn, StuckIn
<1>3. IsFiniteSet(1..Len(report))
  BY <1>1, FS_Interval
<1>4. IsFiniteSet(counted)
  BY <1>2, <1>3, FS_Subset
<1>5. Len(report) + 1 \notin counted
  BY <1>1, <1>2
<1> QED BY <1>4, <1>5, FS_AddElement, FS_CardinalityType

(* What a pass leaves behind is told by its commit.                          *)
LEMMA PassToldStep == Typed /\ Tracked /\ PassTold /\ [Next]_vars => PassTold'
<1> SUFFICES ASSUME Typed, Tracked, PassTold, [Next]_vars PROVE PassTold'
  OBVIOUS
<1> USE DEF PassTold, pass, IsGreen
<1>1. CASE RunInner
  BY <1>1 DEF RunInner
<1>2. CASE Observe
  BY <1>2 DEF Observe, Behind, Reverts
<1>3. CASE Stage \/ ProbeRetries \/ Restage
  BY <1>3 DEF Stage, ProbeRetries, Restage
<1>4. CASE CommitAccepted
  BY <1>4 DEF CommitAccepted, Behind, Reverts
<1>5. CASE CommitRejected
  <2>1. CASE RetryLeft
    BY <1>5, <2>1 DEF CommitRejected
  <2>2. CASE ~RetryLeft
    BY <1>5, <2>2 DEF CommitRejected, Behind, Reverts
  <2> QED BY <2>1, <2>2
<1>8. CASE ProbeGivesUp
  BY <1>8 DEF ProbeGivesUp, Behind, Reverts
<1>6. CASE Revert \/ StopCommand \/ Breakers \/ HardError
  BY <1>6 DEF Revert, Reset, Clean, StopCommand, Breakers, Break, TimeBudgetExhausted,
              NextIteration, Count, End, HardError
<1>7. CASE UNCHANGED vars
  BY <1>7 DEF vars
<1> QED BY <1>1, <1>2, <1>3, <1>4, <1>5, <1>6, <1>7, <1>8 DEF Next, Commit, Over

(* The stop command reports the pass the breakers are about to count.        *)
LEMMA CountedReport ==
  ASSUME Typed, PassTold, Counted, StopCommand
  PROVE  /\ Len(iterations') = i + 1 /\ iterations'[i + 1] = LastPass
         /\ NextDoOvers = DoOverCount' /\ NextBackendErrors = BackendErrorRun'
         /\ NextStuck = StuckCount'
<1>1. LastPass \in Pass /\ iterations \in Seq(Pass) /\ Len(iterations) = i
      /\ iterations' = Append(iterations, LastPass)
  BY DEF Typed, TypeOK, PassType, Pass, LastPass, StopCommand, Counted
<1>2. /\ LastPass.committed = committed /\ LastPass.outcome = outcome
      /\ LastPass.madeChanges = madeChanges /\ LastPass.progress = ~progressEmpty
  BY DEF LastPass
<1>3. /\ committed => IsGreen
      /\ IsGreen => (commitFailed <=> madeChanges /\ ~committed)
  BY DEF PassTold, StopCommand
<1>4. DidOver(LastPass) <=> FailedPass
  BY <1>2, <1>3 DEF DidOver, FailedPass, IsGreen, IsBackendError
<1>5. Kept(LastPass) <=> IsGreen /\ (committed \/ ~madeChanges)
  BY <1>2, <1>3 DEF DidOver, Kept, IsGreen
<1>6. LastPass.committed => ~DidOver(LastPass)
  BY <1>2, <1>3 DEF DidOver, IsGreen
<1>7. /\ doOvers = Cardinality(DoOversIn(iterations))
      /\ backendErrors = Cardinality(BackendErrorsIn(iterations))
      /\ stuck = Cardinality(StuckIn(iterations))
  BY Counts DEF Counted, StopCommand
<1>8. NextDoOvers = Cardinality(DoOversIn(iterations'))
  <2>1. DoOversIn(iterations') =
          IF committed THEN {}
          ELSE IF FailedPass THEN DoOversIn(iterations) \cup {Len(iterations) + 1}
          ELSE DoOversIn(iterations)
    BY <1>1, <1>2, <1>4, <1>6, DoOversAppend
  <2>2. Cardinality(DoOversIn(iterations) \cup {Len(iterations) + 1}) = doOvers + 1
    BY <1>1, <1>7, CountedPasses
  <2> QED BY <1>3, <1>7, <2>1, <2>2, FS_EmptySet DEF NextDoOvers
<1>9. NextBackendErrors = Cardinality(BackendErrorsIn(iterations'))
  <2>1. BackendErrorsIn(iterations') =
          IF IsBackendError THEN BackendErrorsIn(iterations) \cup {Len(iterations) + 1}
          ELSE {}
    BY <1>1, <1>2, BackendErrorsAppend DEF IsBackendError
  <2>2. Cardinality(BackendErrorsIn(iterations) \cup {Len(iterations) + 1})
          = backendErrors + 1
    BY <1>1, <1>7, CountedPasses
  <2> QED BY <2>1, <2>2, FS_EmptySet DEF NextBackendErrors
<1>10. NextStuck = Cardinality(StuckIn(iterations'))
  <2>1. progressEmpty \in BOOLEAN
    BY DEF Typed, TypeOK, PassType
  <2>2. StuckIn(iterations') =
          IF Kept(LastPass) /\ ~progressEmpty THEN {}
          ELSE IF Kept(LastPass) THEN StuckIn(iterations) \cup {Len(iterations) + 1}
          ELSE StuckIn(iterations)
    BY <1>1, <1>2, StuckAppend
  <2>3. Cardinality(StuckIn(iterations) \cup {Len(iterations) + 1}) = stuck + 1
    BY <1>1, <1>7, CountedPasses
  <2> QED BY <1>5, <1>7, <2>2, <2>3, FS_EmptySet DEF NextStuck
<1>11. Len(iterations') = i + 1 /\ iterations'[i + 1] = LastPass
  BY <1>1, Reported
<1>12. /\ DoOverCount' = Cardinality(DoOversIn(iterations'))
       /\ BackendErrorRun' = Cardinality(BackendErrorsIn(iterations'))
       /\ StuckCount' = Cardinality(StuckIn(iterations'))
  BY DEF DoOverCount, BackendErrorRun, StuckCount, DoOversIn, BackendErrorsIn, StuckIn
<1> QED BY <1>8, <1>9, <1>10, <1>11, <1>12

(* The passes counted depend on the report alone.                            *)
LEMMA CountsKept ==
  ASSUME UNCHANGED iterations
  PROVE  /\ DoOverCount' = DoOverCount /\ BackendErrorRun' = BackendErrorRun
         /\ StuckCount' = StuckCount
BY DEF DoOverCount, BackendErrorRun, StuckCount

(* The counters go on telling what the report counts.                        *)
LEMMA CountedStep == Typed /\ PassTold /\ Counted /\ [Next]_vars => Counted'
<1> SUFFICES ASSUME Typed, PassTold, Counted, [Next]_vars PROVE Counted'
  OBVIOUS
<1>1. CASE RunInner \/ Observe \/ Commit \/ Revert
  <2>1. UNCHANGED <<i, counters, iterations, terminal>> /\ pc \notin {"breakers", "over"}
    BY <1>1 DEF RunInner, Observe, Commit, Stage, CommitAccepted, CommitRejected,
                ProbeRetries, ProbeGivesUp, Restage, Revert, Reset, Clean, pass, counters
  <2>2. pc' \notin {"breakers", "over"}
    BY <1>1 DEF RunInner, Observe, Commit, Stage, CommitAccepted, CommitRejected,
                ProbeRetries, ProbeGivesUp, Restage, Revert, Reset, Clean, Behind
  <2> QED BY <2>1, <2>2, CountsKept DEF Counted, counters
<1>2. CASE StopCommand
  <2>1. pc' \in {"breakers", "over"} /\ (pc' = "breakers" => terminal' = "none")
    BY <1>2 DEF StopCommand, End, Counted
  <2>2. UNCHANGED <<i, pass, counters>>
    BY <1>2 DEF StopCommand
  <2>3. /\ Len(iterations') = i + 1 /\ iterations'[i + 1] = LastPass
        /\ NextDoOvers = DoOverCount' /\ NextBackendErrors = BackendErrorRun'
        /\ NextStuck = StuckCount'
    BY <1>2, CountedReport
  <2>4. /\ LastPass' = LastPass /\ NextDoOvers' = NextDoOvers
        /\ NextBackendErrors' = NextBackendErrors /\ NextStuck' = NextStuck
    BY <2>2 DEF pass, counters, LastPass, NextDoOvers, NextBackendErrors, NextStuck,
                IsGreen, IsBackendError, FailedPass
  <2> QED BY <2>1, <2>2, <2>3, <2>4 DEF Counted
<1>3. CASE NextIteration
  <2>1. /\ pc = "breakers" /\ pc' = "pass" /\ i' = i + 1
        /\ UNCHANGED <<iterations, terminal>>
        /\ doOvers' = NextDoOvers /\ backendErrors' = NextBackendErrors
        /\ stuck' = NextStuck
    BY <1>3 DEF NextIteration, Count
  <2> QED BY <2>1, CountsKept DEF Counted
<1>4. CASE Break \/ TimeBudgetExhausted \/ HardError
  BY <1>4 DEF Break, TimeBudgetExhausted, HardError, End, Counted
<1>5. CASE UNCHANGED vars
  BY <1>5, CountsKept
  DEF vars, pass, counters, Counted, LastPass, NextDoOvers, NextBackendErrors, NextStuck,
      IsGreen, IsBackendError, FailedPass
<1> QED BY <1>1, <1>2, <1>3, <1>4, <1>5 DEF Next, Breakers, Over

(* The breaker that trips is the first whose count is reached, and the pass  *)
(* just reported is what reached it.                                         *)
LEMMA BreakExplained ==
  ASSUME Typed, PassTold, Counted, Break
  PROVE  TerminalExplained'
<1>1. /\ pc = "breakers" /\ Count /\ Verdict # "none" /\ terminal' = Verdict
      /\ pc' = "over" /\ UNCHANGED iterations
  BY DEF Break, Count, End
<1>2. /\ DoOverCount' = NextDoOvers /\ BackendErrorRun' = NextBackendErrors
      /\ StuckCount' = NextStuck
      /\ Len(iterations') = i + 1 /\ iterations'[Len(iterations')] = LastPass
  BY <1>1, CountsKept DEF Counted
<1>3. /\ NextDoOvers \in 0..MaxDoOvers /\ NextBackendErrors \in 0..MaxBackendErrors
      /\ NextStuck \in 0..StuckK /\ i \in 0..(MaxOuter - 1)
  BY <1>1, CountType DEF Count, CountersType, Typed, TypeOK, ControlType
<1>4. doOvers < MaxDoOvers /\ stuck < StuckK /\ doOvers \in Nat /\ stuck \in Nat
  BY <1>1 DEF Typed, TypeOK, CountersType, BelowCaps
<1>5. /\ LastPass.outcome = outcome /\ LastPass.madeChanges = madeChanges
      /\ LastPass.committed = committed
  BY DEF LastPass
<1>6. /\ committed => IsGreen
      /\ IsGreen => (commitFailed <=> madeChanges /\ ~committed)
  BY <1>1 DEF PassTold
<1>7. ASSUME NextDoOvers >= MaxDoOvers PROVE DidOver(LastPass)
  <2>1. FailedPass
    BY <1>3, <1>4, <1>7 DEF NextDoOvers
  <2> QED BY <1>5, <1>6, <2>1 DEF DidOver, FailedPass, IsGreen, IsBackendError
<1>8. ASSUME NextStuck >= StuckK PROVE Kept(LastPass)
  <2>1. IsGreen /\ (committed \/ ~madeChanges)
    BY <1>3, <1>4, <1>8 DEF NextStuck
  <2> QED BY <1>5, <2>1 DEF Kept, DidOver, IsGreen
<1>9. CASE Verdict = "do_overs"
  <2>1. NextDoOvers >= MaxDoOvers
    BY <1>9 DEF Verdict
  <2>2. DoOverCount' = MaxDoOvers /\ DidOver(iterations'[Len(iterations')])
    BY <1>2, <1>3, <1>7, <2>1
  <2> QED BY <1>1, <1>9, <2>2 DEF TerminalExplained, DidOver
<1>10. CASE Verdict = "backend_errors"
  <2>1. BackendErrorRun' = MaxBackendErrors /\ DoOverCount' < MaxDoOvers
    BY <1>2, <1>3, <1>10 DEF Verdict
  <2> QED BY <1>1, <1>10, <2>1 DEF TerminalExplained
<1>11. CASE Verdict = "stuck"
  <2>1. NextStuck >= StuckK /\ NextDoOvers < MaxDoOvers
    BY <1>3, <1>11 DEF Verdict
  <2>2. StuckCount' = StuckK /\ Kept(iterations'[Len(iterations')])
        /\ DoOverCount' < MaxDoOvers
    BY <1>2, <1>3, <1>8, <2>1
  <2> QED BY <1>1, <1>11, <2>2 DEF TerminalExplained, Kept, DidOver
<1>12. CASE Verdict = "max_iterations"
  <2>1. /\ NextDoOvers < MaxDoOvers /\ NextBackendErrors < MaxBackendErrors
        /\ NextStuck < StuckK /\ i + 1 = MaxOuter
    BY <1>3, <1>12 DEF Verdict
  <2> QED BY <1>1, <1>2, <1>12, <2>1 DEF TerminalExplained
<1> QED BY <1>1, <1>9, <1>10, <1>11, <1>12, CountType

(* Every other end, and every new pass, is explained as well.                *)
LEMMA EndExplained ==
  Typed /\ PassTold /\ Counted /\ TerminalExplained /\ [Next]_vars => TerminalExplained'
<1> SUFFICES ASSUME Typed, PassTold, Counted, TerminalExplained, [Next]_vars
             PROVE  TerminalExplained'
  OBVIOUS
<1>1. CASE RunInner \/ Observe \/ Commit \/ Revert
  <2>1. terminal' = "none" /\ pc' # "pass"
    BY <1>1 DEF Counted, RunInner, Observe, Commit, Stage, CommitAccepted, CommitRejected,
                ProbeRetries, ProbeGivesUp, Restage, Revert, Reset, Clean, Behind
  <2> QED BY <2>1 DEF TerminalExplained
<1>2. CASE StopCommand
  <2>1. terminal' \in {"none", "stop_condition_met"} /\ pc' # "pass"
    BY <1>2 DEF Counted, StopCommand, End
  <2> QED BY <2>1 DEF TerminalExplained
<1>3. CASE Break
  BY <1>3, BreakExplained
<1>4. CASE TimeBudgetExhausted \/ NextIteration
  <2>1. Count /\ Verdict = "none" /\ pc = "breakers" /\ UNCHANGED iterations
        /\ terminal' \in {"none", "time_budget"}
    BY <1>4 DEF TimeBudgetExhausted, NextIteration, Count, End, Counted
  <2>2. /\ DoOverCount' < MaxDoOvers /\ BackendErrorRun' < MaxBackendErrors
        /\ StuckCount' < StuckK
    BY <2>1, CountType, CountsKept DEF Counted, Count
  <2> QED BY <2>1, <2>2 DEF TerminalExplained
<1>5. CASE HardError
  <2>1. terminal' = "error" /\ pc' = "over" /\ Len(iterations') = i'
    BY <1>5 DEF HardError, End, Counted
  <2> QED BY <2>1 DEF TerminalExplained
<1>6. CASE UNCHANGED vars
  BY <1>6, CountsKept DEF vars, TerminalExplained, DidOver, Kept
<1> QED BY <1>1, <1>2, <1>3, <1>4, <1>5, <1>6 DEF Next, Breakers, Over

Explained == PassTold /\ Counted /\ TerminalExplained

(* Whoever reads the report can say why the loop ended: the terminal names   *)
(* the first breaker whose count, made from the report alone, is reached,    *)
(* whatever the caps and however the passes, hooks and commits went.         *)
THEOREM TerminalExplainedCorrect == Spec => []TerminalExplained
<1>1. Init => Explained
  <2> SUFFICES ASSUME Init PROVE Explained
    OBVIOUS
  <2>1. iterations = <<>> /\ Len(iterations) = 0 /\ DOMAIN iterations = {}
    BY DEF Init
  <2>2. DoOverCount = 0 /\ BackendErrorRun = 0 /\ StuckCount = 0
    BY <2>1, FS_EmptySet DEF DoOverCount, BackendErrorRun, StuckCount
  <2> QED BY <2>1, <2>2 DEF Init, Explained, PassTold, Counted, TerminalExplained
<1>2. Typed /\ Tracked /\ Explained /\ [Next]_vars => Explained'
  BY PassToldStep, CountedStep, EndExplained DEF Explained
<1>3. Explained => TerminalExplained
  BY DEF Explained
<1> QED BY <1>1, <1>2, <1>3, TypedAlways, TrackedAlways, PTL DEF Spec
=============================================================================
