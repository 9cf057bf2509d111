------------------------------- MODULE Nightly -------------------------------
(***************************************************************************)
(* The somnus binary above the unit: `nightly`, which takes the first rows  *)
(* of the worklist and runs their units one after the other under one       *)
(* budget, and `run`/`backfill`, which run a single unit.  A unit is what   *)
(* UnitContract says; SomnusUnit is shown to keep it.                       *)
(***************************************************************************)
EXTENDS Integers, Sequences

CONSTANTS
  Projects,
  MaxProjects,                  \* SOMNUS_MAX_PROJECTS_PER_NIGHT
  Budget, TurnCosts, MaxTurns   \* as in UnitContract

ASSUME NightAssumption ==
  MaxProjects \in Nat /\ Budget \in Nat /\ TurnCosts \subseteq Nat /\ MaxTurns \in Nat

VARIABLES
  mode,       \* the subcommand: "nightly" or "single"
  pc,
  selected,   \* the projects to work, in the server's order
  units,      \* the records of the units that ended
  total,      \* cost_total_micros
  stopReason, exitCode,
  record,     \* the invocation record, once written
  phase, turns, paid, billed, outcome,   \* the unit that is running
  spent       \* observation: what all turns have cost

night == <<mode, selected, units, total, stopReason, exitCode, record>>
unit == <<phase, turns, paid, billed, outcome>>
vars == <<night, pc, unit, spent>>

Unit == INSTANCE UnitContract WITH before <- total

NoRecord == [stop |-> "none", exit |-> 0, units |-> <<>>]

Init ==
  /\ mode \in {"nightly", "single"} /\ selected = <<>> /\ units = <<>>
  /\ pc = IF mode = "nightly" THEN "worklist" ELSE "loop"
  /\ total = 0 /\ stopReason = "all_done" /\ exitCode = 0 /\ record = NoRecord
  /\ phase = "idle" /\ turns = 0 /\ paid = 0 /\ billed = 0 /\ outcome = "none"
  /\ spent = 0

SelectFirst(rows) ==
  [i \in 1..(IF Len(rows) < MaxProjects THEN Len(rows) ELSE MaxProjects) |-> rows[i]]

Leave(reason, code) ==
  /\ pc' = "record" /\ stopReason' = reason /\ exitCode' = code

(* One GET: refused, failed, or the rows in the order of the server.         *)
Worklist(rows) ==
  /\ pc = "worklist"
  /\ \/ Leave("fault", 1) /\ UNCHANGED selected
     \/ Leave("fault", 2) /\ UNCHANGED selected
     \/ /\ selected' = SelectFirst(rows)
        /\ IF selected' = <<>> THEN Leave("nothing_eligible", 0)
           ELSE pc' = "loop" /\ UNCHANGED <<stopReason, exitCode>>
  /\ UNCHANGED <<mode, units, total, record, unit, spent>>

Left == Len(units) < IF mode = "single" THEN 1 ELSE Len(selected)

(* Looked at before a unit is started, by the night only.                    *)
BudgetStops == mode = "nightly" /\ Unit!Breached(total)

BudgetStop ==
  /\ pc = "loop" /\ Left /\ BudgetStops
  /\ Leave("budget_stopped_before", 2)
  /\ UNCHANGED <<mode, selected, units, total, record, unit, spent>>

(* run_one_unit: the workspace cannot be built, or the unit is started.      *)
StartUnit ==
  /\ pc = "loop" /\ Left /\ ~BudgetStops
  /\ \/ Leave("fault", 2) /\ UNCHANGED unit
     \/ /\ pc' = "unit" /\ phase' = "running" /\ turns' = 0 /\ paid' = 0 /\ billed' = 0
        /\ outcome' = "none" /\ UNCHANGED <<stopReason, exitCode>>
  /\ UNCHANGED <<mode, selected, units, total, record, spent>>

UnitTurns ==
  /\ pc = "unit" /\ Unit!Turn
  /\ spent' = spent + (paid' - paid)
  /\ UNCHANGED <<night, pc>>

UnitEnds ==
  /\ pc = "unit" /\ Unit!End
  /\ UNCHANGED <<night, pc, spent>>

(* Mutant: an abort does not end the night.                                  *)
CarriesOnUnlessRefused(o) == o \notin Unit!ConfigFaults

CarriesOn(o) == o \in Unit!Ordinary

(* Mutant: every stopping outcome is taken for a refusal.                    *)
OneForAnyFault(o) == IF o \in Unit!Ordinary THEN 0 ELSE 1

ExitCodeFor(o) ==
  CASE o \in Unit!Ordinary     -> 0
    [] o \in Unit!ConfigFaults -> 1
    [] o = "Aborted"           -> 2

(* Mutant: the next unit is told of the last bill only.                      *)
LastBill == billed
Accumulated == total + billed

(* The report of the unit is taken into the record of the night.             *)
UnitReported ==
  /\ pc = "unit" /\ phase = "ended" /\ phase' = "idle"
  /\ total' = Accumulated
  /\ units' = Append(units, [outcome |-> outcome, billed |-> billed])
  /\ IF CarriesOn(outcome) THEN pc' = "loop" /\ UNCHANGED <<stopReason, exitCode>>
                           ELSE Leave("fault", ExitCodeFor(outcome))
  /\ UNCHANGED <<mode, selected, record, turns, paid, billed, outcome, spent>>

AllDone ==
  /\ pc = "loop" /\ ~Left /\ pc' = "record"
  /\ UNCHANGED <<night, unit, spent>>

(* A night leaves its record, or fails to: the return behind the loop says    *)
(* so, the ones before it do not.  A single unit has only its own report.    *)
WriteInvocation ==
  /\ pc = "record" /\ pc' = "over"
  /\ \/ mode = "nightly"
        /\ record' = [stop |-> stopReason, exit |-> exitCode, units |-> units]
     \/ UNCHANGED record
  /\ UNCHANGED <<mode, selected, units, total, stopReason, exitCode, unit, spent>>

Over == pc = "over" /\ UNCHANGED vars

Next ==
  \/ \E n \in 0..(MaxProjects + 1) : \E rows \in [1..n -> Projects] : Worklist(rows)
  \/ BudgetStop \/ StartUnit \/ UnitTurns \/ UnitEnds \/ UnitReported \/ AllDone
  \/ WriteInvocation \/ Over

Spec == Init /\ [][Next]_vars

-----------------------------------------------------------------------------
TypeOK ==
  /\ mode \in {"nightly", "single"}
  /\ pc \in {"worklist", "loop", "unit", "record", "over"}
  /\ selected \in Seq(Projects)
  /\ units \in Seq([outcome : Unit!Outcomes, billed : Nat])
  /\ total \in Nat /\ spent \in Nat /\ turns \in Nat /\ paid \in Nat /\ billed \in Nat
  /\ phase \in {"idle", "running", "ended"}
  /\ outcome \in Unit!Outcomes \cup {"none"}
  /\ stopReason \in {"all_done", "fault", "nothing_eligible", "budget_stopped_before"}
  /\ exitCode \in 0..2

(* The budget is one for the night: however the cost is spread over its      *)
(* units, and although a unit that the wall clock cut off reports none of    *)
(* it, what is really spent goes over by less than one turn.                 *)
NightOvershoot ==
  Budget # 0 /\ spent > 0 => \E c \in TurnCosts : spent < Budget + c

(* A bill is lost only with an abort, and an abort is the last unit of the   *)
(* night: the total the next unit starts from is never short.                *)
NothingSpentUnseen == pc = "loop" => spent = total

(* The record explains itself: units beyond the first bad one were never     *)
(* started, its outcome is the exit code, and a night that stopped without   *)
(* one either ran everything, or names the budget, or could not start a unit. *)
StopExplained ==
  pc \in {"record", "over"} /\ mode = "nightly" =>
    /\ Len(units) <= Len(selected) /\ Len(units) <= MaxProjects
    /\ \A i \in 1..(Len(units) - 1) : units[i].outcome \in Unit!Ordinary
    /\ exitCode = 0 => /\ Len(units) = Len(selected)
                       /\ \A i \in 1..Len(units) : units[i].outcome \in Unit!Ordinary
    /\ exitCode = 1 /\ selected # <<>> =>
         units # <<>> /\ units[Len(units)].outcome \in Unit!ConfigFaults
    /\ exitCode = 2 /\ Len(units) = Len(selected) /\ selected # <<>> =>
         units[Len(units)].outcome = "Aborted"
    /\ stopReason = "budget_stopped_before" =>
         /\ Len(units) < Len(selected) /\ spent >= Budget
         /\ \A i \in 1..Len(units) : units[i].outcome \in Unit!Ordinary

=============================================================================
