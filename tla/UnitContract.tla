---------------------------- MODULE UnitContract -----------------------------
(***************************************************************************)
(* What the nightly driver relies on of one unit, with none of the unit's   *)
(* machinery: it pays for inference turns one at a time, so many at most,   *)
(* starts none once what the invocation and it have billed reaches the      *)
(* budget, and ends once with an outcome and a bill.  The bill is what it   *)
(* paid, except that a unit the wall clock cuts off loses it, and is always *)
(* an abort.                                                                *)
(***************************************************************************)
EXTENDS Naturals

CONSTANTS
  Budget,      \* cost_budget_micros; 0 is unbounded
  TurnCosts,   \* what one inference may cost
  MaxTurns     \* one for the project and one per cluster, up to the cap

VARIABLES
  before,      \* cost_before_micros: what the invocation had billed
  phase,       \* "idle", "running", "ended"
  turns, paid, \* how many this unit has paid for, and what they cost
  billed,      \* what its report says they cost
  outcome
contractVars == <<before, phase, turns, paid, billed, outcome>>

Ordinary == {"Ready", "UnknownProject", "NotEligible"}
ConfigFaults == {"Unauthorized", "NotMachinePrincipal"}
Outcomes == Ordinary \cup ConfigFaults \cup {"Aborted"}

Breached(spent) == Budget # 0 /\ spent >= Budget

Init ==
  /\ before \in Nat /\ phase = "running"
  /\ turns = 0 /\ paid = 0 /\ billed = 0 /\ outcome = "none"

Turn ==
  /\ phase = "running" /\ turns < MaxTurns /\ ~Breached(before + paid)
  /\ turns' = turns + 1
  /\ \E c \in TurnCosts : paid' = paid + c
  /\ UNCHANGED <<before, phase, billed, outcome>>

End ==
  /\ phase = "running" /\ phase' = "ended"
  /\ outcome' \in Outcomes
  /\ billed' = paid \/ (billed' = 0 /\ outcome' = "Aborted")
  /\ UNCHANGED <<before, turns, paid>>

Next == Turn \/ End

Spec == Init /\ [][Next]_contractVars
=============================================================================
