---------------------------- MODULE Nightly_proofs ----------------------------
(***************************************************************************)
(* Theorems about Nightly, for any worklist, budget and costs: what a night *)
(* can spend, what it knows of what it spent, and what its stop says.       *)
(***************************************************************************)
EXTENDS Nightly, TLAPS

USE NightAssumption

Outcome == {"Ready", "UnknownProject", "NotEligible", "Unauthorized",
            "NotMachinePrincipal", "Aborted"}
UnitRecord == [outcome : Outcome, billed : Nat]

(* The outcomes of the contract, written out.                                *)
LEMMA OutcomesAre ==
  /\ Unit!Outcomes = Outcome
  /\ Unit!Ordinary = {"Ready", "UnknownProject", "NotEligible"}
  /\ Unit!ConfigFaults = {"Unauthorized", "NotMachinePrincipal"}
BY DEF Unit!Outcomes, Unit!Ordinary, Unit!ConfigFaults, Outcome

(* An ended unit has an outcome.                                             *)
EndedHasOutcome == phase = "ended" => outcome \in Outcome

Typed == TypeOK /\ EndedHasOutcome

(* The rows taken are a sequence of projects, as long as the cap allows.     *)
LEMMA SelectionBounded ==
  ASSUME NEW n \in Nat, NEW rows \in [1..n -> Projects]
  PROVE  SelectFirst(rows) \in Seq(Projects) /\ Len(SelectFirst(rows)) <= MaxProjects
<1> DEFINE m == IF Len(rows) < MaxProjects THEN Len(rows) ELSE MaxProjects
<1>1. rows \in Seq(Projects) /\ Len(rows) = n
  OBVIOUS
<1>2. m \in Nat /\ m <= n /\ m <= MaxProjects
  BY <1>1
<1>3. SelectFirst(rows) = [k \in 1..m |-> rows[k]]
  BY DEF SelectFirst
<1> HIDE DEF m
<1>4. [k \in 1..m |-> rows[k]] \in [1..m -> Projects]
  BY <1>2
<1>5. [k \in 1..m |-> rows[k]] \in Seq(Projects) /\ Len([k \in 1..m |-> rows[k]]) = m
  BY <1>2, <1>4
<1> QED BY <1>2, <1>3, <1>5

(* The start is typed.                                                       *)
LEMMA TypedInit == Init => Typed
BY OutcomesAre DEF Init, Typed, TypeOK, EndedHasOutcome

(* A step keeps the types.                                                   *)
LEMMA TypedNext == Typed /\ [Next]_vars => Typed'
<1> SUFFICES ASSUME Typed, [Next]_vars PROVE Typed'
  OBVIOUS
<1> USE OutcomesAre DEF night, unit, Typed, TypeOK, EndedHasOutcome
<1>1. ASSUME NEW n \in 0..(MaxProjects + 1), NEW rows \in [1..n -> Projects], Worklist(rows)
      PROVE  Typed'
  <2>1. n \in Nat
    OBVIOUS
  <2>2. selected' \in Seq(Projects)
    BY <1>1, <2>1, SelectionBounded DEF Worklist
  <2> QED BY <1>1, <2>2 DEF Worklist, Leave
<1>2. CASE BudgetStop
  BY <1>2 DEF BudgetStop, Leave
<1>3. CASE StartUnit
  BY <1>3 DEF StartUnit, Leave
<1>4. CASE UnitTurns
  <2>1. PICK c \in TurnCosts : paid' = paid + c
    BY <1>4 DEF UnitTurns, Unit!Turn
  <2>2. paid' \in Nat /\ spent' \in Nat
    BY <1>4, <2>1 DEF UnitTurns
  <2> QED BY <1>4, <2>2 DEF UnitTurns, Unit!Turn
<1>5. CASE UnitEnds
  BY <1>5 DEF UnitEnds, Unit!End
<1>6. CASE UnitReported
  <2>1. [outcome |-> outcome, billed |-> billed] \in UnitRecord
    BY <1>6 DEF UnitReported, UnitRecord
  <2>2. units' \in Seq(UnitRecord)
    BY <1>6, <2>1 DEF UnitReported, UnitRecord
  <2>3. total' \in Nat
    BY <1>6 DEF UnitReported, Accumulated
  <2>4. outcome \in Outcome /\ (~CarriesOn(outcome) => ExitCodeFor(outcome) \in 0..2)
    BY <1>6 DEF UnitReported, CarriesOn, ExitCodeFor, Outcome
  <2>5. stopReason' \in {"all_done", "fault", "nothing_eligible", "budget_stopped_before"}
        /\ exitCode' \in 0..2 /\ pc' \in {"loop", "record"}
    BY <1>6, <2>4 DEF UnitReported, Leave
  <2> QED BY <1>6, <2>2, <2>3, <2>5 DEF UnitReported, UnitRecord
<1>7. CASE AllDone
  BY <1>7 DEF AllDone
<1>8. CASE WriteInvocation
  BY <1>8 DEF WriteInvocation
<1>9. CASE UNCHANGED vars
  BY <1>9 DEF vars
<1> QED BY <1>1, <1>2, <1>3, <1>4, <1>5, <1>6, <1>7, <1>8, <1>9 DEF Next, Over

(* The binary's variables keep their types, and an ended unit its outcome.   *)
THEOREM AlwaysTyped == Spec => []Typed
<1> QED BY TypedInit, TypedNext, PTL DEF Spec

-----------------------------------------------------------------------------
(* Where the money is.  Between units everything spent is in the total;      *)
(* while one runs, what it paid is still to come; once it ended, its bill    *)
(* says so or it is an abort, which ends the night.                          *)
Account ==
  /\ pc = "worklist" => spent = 0 /\ total = 0
  /\ pc = "loop" => spent = total
  /\ pc = "unit" => phase \in {"running", "ended"}
  /\ pc = "unit" /\ phase = "running" => spent = total + paid
  /\ pc = "unit" /\ phase = "ended" => spent = total + billed \/ outcome = "Aborted"

Books == Typed /\ Account /\ NightOvershoot

(* An account that nothing was paid into is in order.                        *)
LEMMA BooksInit == Init => Books
<1> SUFFICES ASSUME Init PROVE Books
  OBVIOUS
<1>1. Account
  BY DEF Init, Account
<1>2. NightOvershoot
  BY DEF Init, NightOvershoot
<1> QED BY <1>1, <1>2, TypedInit DEF Books

(* A turn is paid for while what is spent is below the budget, and only then. *)
LEMMA TurnBooked == Books /\ UnitTurns => Account' /\ NightOvershoot'
<1> SUFFICES ASSUME Books, UnitTurns PROVE Account' /\ NightOvershoot'
  OBVIOUS
<1>1. PICK c \in TurnCosts : paid' = paid + c
  BY DEF UnitTurns, Unit!Turn
<1>2. /\ spent \in Nat /\ paid \in Nat /\ total \in Nat /\ c \in Nat /\ Budget \in Nat
      /\ pc = "unit" /\ phase = "running" /\ spent = total + paid
  BY DEF Books, Typed, TypeOK, Account, UnitTurns, Unit!Turn
<1>3. spent' = spent + c
  BY <1>1, <1>2 DEF UnitTurns
<1>4. Budget # 0 => spent < Budget
  BY <1>2 DEF UnitTurns, Unit!Turn, Unit!Breached
<1>5. Budget # 0 => spent' < Budget + c
  BY <1>2, <1>3, <1>4
<1>6. NightOvershoot'
  BY <1>5 DEF NightOvershoot
<1>7. Account'
  BY <1>1, <1>2, <1>3 DEF Account, UnitTurns, Unit!Turn, night
<1> QED BY <1>6, <1>7

(* Every step keeps the books.                                               *)
LEMMA BooksNext == Books /\ [Next]_vars => Books'
<1> SUFFICES ASSUME Books, [Next]_vars PROVE Account' /\ NightOvershoot'
  BY TypedNext DEF Books
<1> USE DEF night, unit
<1>0. spent \in Nat /\ total \in Nat /\ paid \in Nat /\ billed \in Nat /\ Account
  BY DEF Books, Typed, TypeOK
<1>1. CASE UnitTurns
  BY <1>1, TurnBooked
<1>2. CASE ~UnitTurns
  <2>1. spent' = spent
    BY <1>2 DEF Next, Worklist, BudgetStop, StartUnit, UnitEnds, UnitReported, AllDone,
                WriteInvocation, Over, vars
  <2>2. NightOvershoot'
    BY <2>1 DEF Books, NightOvershoot
  <2>3. ASSUME NEW n \in 0..(MaxProjects + 1), NEW rows \in [1..n -> Projects], Worklist(rows)
        PROVE  Account'
    BY <1>0, <2>3 DEF Worklist, Leave, Account
  <2>4. CASE BudgetStop
    BY <1>0, <2>2, <2>4 DEF BudgetStop, Leave, Account
  <2>5. CASE StartUnit
    BY <1>0, <2>2, <2>5 DEF StartUnit, Leave, Account
  <2>6. CASE UnitEnds
    BY <1>0, <2>2, <2>6 DEF UnitEnds, Unit!End, Account
  <2>7. CASE UnitReported
    BY <1>0, <2>2, <2>7, OutcomesAre DEF UnitReported, Accumulated, CarriesOn, Leave, Account
  <2>8. CASE AllDone \/ WriteInvocation
    BY <1>0, <2>2, <2>8 DEF AllDone, WriteInvocation, Account
  <2>9. CASE UNCHANGED vars
    BY <1>0, <2>2, <2>9 DEF vars, Account
  <2> QED BY <1>2, <2>2, <2>3, <2>4, <2>5, <2>6, <2>7, <2>8, <2>9 DEF Next, Over
<1> QED BY <1>1, <1>2

(* However the worklist, the costs and the ends of the units fall, a night   *)
(* goes over its budget by less than its last turn.                          *)
THEOREM OvershootIsOneTurn == Spec => []NightOvershoot
<1>1. Books => NightOvershoot
  BY DEF Books
<1> QED BY <1>1, BooksInit, BooksNext, PTL DEF Spec

(* The budget a unit is started with counts everything that was spent, the   *)
(* bills the wall clock lost included: there are none before it.             *)
THEOREM NothingIsSpentUnseen == Spec => []NothingSpentUnseen
<1>1. Books => NothingSpentUnseen
  BY DEF Books, Account, NothingSpentUnseen
<1> QED BY <1>1, BooksInit, BooksNext, PTL DEF Spec

-----------------------------------------------------------------------------
AllOrdinary == \A k \in 1..Len(units) : units[k].outcome \in Unit!Ordinary

(* What a night that still goes on has behind it.                            *)
Underway ==
  mode = "nightly" =>
    /\ pc = "worklist" => selected = <<>> /\ units = <<>>
    /\ pc \in {"worklist", "loop", "unit"} => stopReason = "all_done" /\ exitCode = 0
    /\ pc \in {"loop", "unit"} =>
         /\ selected # <<>> /\ Len(selected) <= MaxProjects
         /\ Len(units) <= Len(selected) /\ AllOrdinary
    /\ pc = "unit" => Len(units) < Len(selected)

Told == Books /\ Underway /\ StopExplained

(* Nothing has stopped yet.                                                  *)
LEMMA ToldInit == Init => Told
<1> SUFFICES ASSUME Init PROVE Underway /\ StopExplained
  BY BooksInit DEF Told
<1> QED BY DEF Init, Underway, StopExplained

(* The record of a unit goes behind those that are there.                    *)
LEMMA ReportAppended ==
  ASSUME Told, UnitReported
  PROVE  /\ Len(units') = Len(units) + 1
         /\ units'[Len(units')].outcome = outcome
         /\ \A k \in 1..Len(units) : units'[k] = units[k]
<1>1. units \in Seq(UnitRecord) /\ outcome \in Outcome /\ billed \in Nat
  BY OutcomesAre DEF Told, Books, Typed, TypeOK, EndedHasOutcome, UnitReported, UnitRecord
<1> QED BY <1>1 DEF UnitReported, UnitRecord

(* The report of a unit either lets the night go on or explains its stop.    *)
LEMMA ToldByReport == Told /\ UnitReported => Underway' /\ StopExplained'
<1> SUFFICES ASSUME Told, UnitReported, mode = "nightly" PROVE Underway' /\ StopExplained'
  BY DEF UnitReported, Underway, StopExplained
<1>1. /\ outcome \in Outcome /\ selected \in Seq(Projects) /\ units \in Seq(UnitRecord)
      /\ AllOrdinary /\ Len(units) < Len(selected) /\ Len(selected) <= MaxProjects
      /\ selected # <<>> /\ stopReason = "all_done" /\ exitCode = 0
  BY OutcomesAre DEF Told, Books, Typed, TypeOK, EndedHasOutcome, Underway, UnitReported,
                     UnitRecord
<1>2. Len(units') = Len(units) + 1 /\ Len(units') <= Len(selected)
  BY <1>1, ReportAppended
<1>3. \A k \in 1..(Len(units') - 1) : units'[k].outcome \in Unit!Ordinary
  BY <1>1, <1>2, ReportAppended DEF AllOrdinary
<1>4. CASE CarriesOn(outcome)
  <2>1. AllOrdinary'
    BY <1>1, <1>2, <1>3, <1>4, ReportAppended DEF CarriesOn, AllOrdinary
  <2> QED BY <1>1, <1>2, <1>4, <2>1 DEF UnitReported, Underway, StopExplained
<1>5. CASE ~CarriesOn(outcome)
  <2>1. exitCode' = ExitCodeFor(outcome) /\ stopReason' = "fault" /\ pc' = "record"
    BY <1>5 DEF UnitReported, Leave
  <2>2. /\ exitCode' \in {1, 2}
        /\ exitCode' = 1 => outcome \in Unit!ConfigFaults
        /\ exitCode' = 2 => outcome = "Aborted"
    BY <1>1, <1>5, <2>1, OutcomesAre DEF CarriesOn, ExitCodeFor, Outcome
  <2>3. units' # <<>> /\ Len(units') <= MaxProjects
    BY <1>1, <1>2
  <2> QED BY <1>1, <1>2, <1>3, <2>1, <2>2, <2>3, ReportAppended
          DEF UnitReported, Underway, StopExplained
<1> QED BY <1>4, <1>5

(* Every step leaves the night underway or explained.                        *)
LEMMA ToldNext == Told /\ [Next]_vars => Told'
<1> SUFFICES ASSUME Told, [Next]_vars PROVE Underway' /\ StopExplained'
  BY BooksNext DEF Told
<1> USE DEF night, unit
<1>0. /\ selected \in Seq(Projects) /\ Underway /\ StopExplained /\ Account
      /\ units \in Seq(UnitRecord) /\ spent \in Nat /\ total \in Nat
  BY OutcomesAre DEF Told, Books, Typed, TypeOK, UnitRecord
<1>1. ASSUME NEW n \in 0..(MaxProjects + 1), NEW rows \in [1..n -> Projects], Worklist(rows)
      PROVE  Underway' /\ StopExplained'
  <2>1. n \in Nat
    OBVIOUS
  <2>2. SelectFirst(rows) \in Seq(Projects) /\ Len(SelectFirst(rows)) <= MaxProjects
    BY <2>1, SelectionBounded
  <2> QED BY <1>0, <1>1, <2>2 DEF Worklist, Leave, Underway, StopExplained, AllOrdinary
<1>2. CASE BudgetStop
  BY <1>0, <1>2 DEF BudgetStop, BudgetStops, Left, Leave, Account, Underway, StopExplained,
                    AllOrdinary, Unit!Breached
<1>3. CASE StartUnit
  BY <1>0, <1>3 DEF StartUnit, Left, Leave, Underway, StopExplained, AllOrdinary
<1>4. CASE UnitTurns
  BY <1>0, <1>4 DEF UnitTurns, Underway, StopExplained, AllOrdinary
<1>5. CASE UnitEnds
  BY <1>0, <1>5 DEF UnitEnds, Underway, StopExplained, AllOrdinary
<1>6. CASE UnitReported
  BY <1>6, ToldByReport
<1>7. CASE AllDone
  BY <1>0, <1>7 DEF AllDone, Left, Underway, StopExplained, AllOrdinary
<1>8. CASE WriteInvocation
  BY <1>0, <1>8 DEF WriteInvocation, Underway, StopExplained, AllOrdinary
<1>9. CASE UNCHANGED vars
  BY <1>0, <1>9 DEF vars, Underway, StopExplained, AllOrdinary
<1> QED BY <1>1, <1>2, <1>3, <1>4, <1>5, <1>6, <1>7, <1>8, <1>9 DEF Next, Over

(* A night's record says why it is as short as it is: the one unit that      *)
(* stopped it is the last, and its exit code is that unit's.                 *)
THEOREM StopIsExplained == Spec => []StopExplained
<1>1. Told => StopExplained
  BY DEF Told
<1> QED BY <1>1, ToldInit, ToldNext, PTL DEF Spec

=============================================================================
