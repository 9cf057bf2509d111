----------------------------- MODULE SomnusUnit ------------------------------
(***************************************************************************)
(* run_unit: one project's nightly unit.  It reads the project from the KB, *)
(* pays for one clustering inference and one inference per cluster, records *)
(* declines, composes map bodies, has each linted, and posts the ops of the *)
(* green ones, one request at a time.                                       *)
(*                                                                          *)
(* The KB is external: store, superseded and declines are its state, wire   *)
(* what became of each request.  A request the client has given up on may   *)
(* still be decided.  Other writers add pointers and supersede entries.     *)
(***************************************************************************)
EXTENDS MapOps

CONSTANTS
  OldBody,         \* the bodies of OldMaps
  Pockets,         \* the candidate pockets, a sequence of sets of entries
  Ledgers,         \* the sets of declines the ledger may hold at the start
  ClusterAnswers,  \* what rung 1 may answer: sequences of clusters, Unparsable
  OpAnswers,       \* what rung 2 may answer: sequences of ops, Unparsable
  MaxClusters,     \* SOMNUS_MAX_CLUSTERS_PER_UNIT
  CostBefore, Budget, TurnCosts,
  MaxOutside       \* bound: steps of other writers

ASSUME UnitAssumption ==
  /\ MaxClusters \in Nat /\ CostBefore \in Nat /\ Budget \in Nat /\ TurnCosts \subseteq Nat
  /\ OpAnswers \ {Unparsable} \subseteq Seq(Op)
  /\ OldBody \in [OldMaps -> Body] /\ OldMaps \cap ({"kb"} \X Nat) = {}

VARIABLES
  store, superseded, declines,
  wire,      \* per request: "todo", "sent", or the server's decision
  pc,
  input,     \* the maps as fetched
  baseline,  \* the pointer count at the start
  clusters, records, composed, gates,
  queue,     \* the requests of the application step, in order
  cur,       \* the one it is at
  report,
  (* Observations.                                                           *)
  turns, paid, \* the turns that answered, and what they cost
  cut,       \* the wall clock ended the unit
  outside

bill == <<turns, paid>>
kb == <<store, superseded, declines, outside>>
plan == <<input, baseline, clusters, records, composed, gates, queue>>
vars == <<kb, wire, pc, plan, cur, report, bill, cut>>

Contract == INSTANCE UnitContract WITH
  MaxTurns <- MaxClusters + 1,
  before  <- CostBefore,
  phase   <- IF pc = "done" THEN "ended" ELSE "running",
  billed  <- IF pc = "done" THEN report.usage ELSE 0,
  outcome <- IF pc = "done" THEN report.outcome ELSE "none"

EmptyReport ==
  [outcome |-> "Ready", kept |-> <<>>, declined |-> {}, applied |-> {},
   skipped |-> {}, capped |-> {}, change |-> "unobservable", usage |-> 0]

Init ==
  /\ store = OldBody /\ superseded = {} /\ declines \in Ledgers
  /\ wire = <<>> /\ pc = "start" /\ input = OldBody /\ baseline = 0
  /\ clusters = <<>> /\ records = <<>> /\ composed = <<>> /\ gates = <<>>
  /\ queue = <<>> /\ cur = 1 /\ report = EmptyReport
  /\ turns = 0 /\ paid = 0 /\ cut = FALSE /\ outside = 0

(* observe_and_finalize and the early returns: the report is written.        *)
Finish(outcome) ==
  /\ pc' = "done"
  /\ report' = [report EXCEPT !.outcome = outcome]

(* Mutant: the override is returned and not written into the report.         *)
StopUnmarked(outcome) == pc' = "observe" /\ UNCHANGED report

(* The application step's outcome_override: the last observation still runs. *)
Stop(outcome) ==
  /\ pc' = "observe"
  /\ report' = [report EXCEPT !.outcome = outcome]

Goto(step) == pc' = step /\ UNCHANGED report

PointerCount(maps) ==
  Cardinality(UNION {{m} \X maps[m].refs : m \in DOMAIN maps})

-----------------------------------------------------------------------------
(* (1)-(2) An invalid ref and a project that cannot be counted end it.       *)
Baseline ==
  /\ pc = "start"
  /\ \/ baseline' = PointerCount(store) /\ Goto("fetch")
     \/ Finish("Aborted") /\ UNCHANGED baseline
  /\ UNCHANGED <<kb, wire, input, clusters, records, composed, gates, queue,
                 cur, bill, cut>>

(* (3)-(4) A night whose pockets were not computed goes to the last step.    *)
Fetch ==
  /\ pc = "fetch"
  /\ \/ input' = store /\ (Goto("ledger") \/ Goto("observe"))
     \/ /\ \E o \in Contract!Outcomes \ {"Ready", "NotMachinePrincipal"} : Finish(o)
        /\ UNCHANGED input
  /\ UNCHANGED <<kb, wire, baseline, clusters, records, composed, gates, queue,
                 cur, bill, cut>>

(* The ledger's answer, in order, and two it should not give.                *)
Verdicts ==
  [i \in DOMAIN Pockets |->
     LET hits == {d \in declines : d \subseteq Pockets[i]}
     IN  [index |-> i, matched |-> hits # {},
          reopen |-> \E d \in hits : Cardinality(Pockets[i]) >= 2 * Cardinality(d)]]
LedgerAnswers ==
  {Verdicts, Reverse(Verdicts)} \cup (IF Pockets = <<>> THEN {} ELSE {Tail(Verdicts)})

(* filter_pockets fails closed on a malformed vector.                        *)
WellFormed(v) == Len(v) = Len(Pockets) /\ \A i \in DOMAIN v : v[i].index = i
Kept(v) ==
  Where(Pockets, {i \in DOMAIN v : ~(v[i].matched /\ ~v[i].reopen)})

(* (5)                                                                       *)
Ledger ==
  /\ pc = "ledger"
  /\ \/ \E v \in LedgerAnswers :
          IF WellFormed(v)
          THEN pc' = "rung1" /\ report' = [report EXCEPT !.kept = Kept(v)]
          ELSE Finish("Aborted")
     \/ Finish("Aborted")
  /\ UNCHANGED <<kb, wire, plan, cur, bill, cut>>

(* A turn that answered is paid for and billed.                              *)
Pay(c) == turns' = turns + 1 /\ paid' = paid + c

(* (6)                                                                       *)
Rung1 ==
  /\ pc = "rung1"
  /\ \/ Finish("Aborted") /\ UNCHANGED <<clusters, bill>>
     \/ /\ ~Contract!Breached(CostBefore)
        /\ \E c \in TurnCosts : Pay(c) /\ report' = [report EXCEPT !.usage = @ + c]
        /\ clusters' \in ClusterAnswers /\ pc' = "parse"
  /\ UNCHANGED <<kb, wire, input, baseline, records, composed, gates, queue, cur, cut>>

Parse ==
  /\ pc = "parse"
  /\ IF clusters = Unparsable THEN Finish("Aborted") ELSE Goto("rung2")
  /\ UNCHANGED <<kb, wire, plan, cur, bill, cut>>

(* What the budget is consulted with: the earlier units of the invocation    *)
(* and this one.                                                             *)
(* Mutant: the unit counts itself only.                                      *)
SpentHere == report.usage
Spent == CostBefore + report.usage

AtCap(k) == k > MaxClusters

(* What is kept of a rung-2 answer for cluster c.                            *)
Record(c, answer) ==
  LET fit == Admitted(c, clusters)
      ops == IF answer = Unparsable THEN <<>> ELSE ApplyVerdict(fit, answer)
      ok  == answer # Unparsable /\ ValidOps(c, ops)
  IN  [parsed |-> ok, refused |-> ~fit, ops |-> IF ok THEN ops ELSE <<>>]

(* (7)-(8) A cluster whose turn fails is skipped.                            *)
Rung2 ==
  LET k == Len(records) + 1 IN
  /\ pc = "rung2" /\ k <= Len(clusters)
  /\ ~AtCap(k) /\ ~Contract!Breached(Spent)
  /\ \/ /\ records' = Append(records, [parsed |-> FALSE, refused |-> FALSE, ops |-> <<>>])
        /\ UNCHANGED <<report, bill>>
     \/ \E c \in TurnCosts, a \in OpAnswers :
          /\ Pay(c) /\ report' = [report EXCEPT !.usage = @ + c]
          /\ records' = Append(records, Record(clusters[k], a))
  /\ UNCHANGED <<kb, wire, pc, input, baseline, clusters, composed, gates, queue, cur, cut>>

(* Out of clusters or of budget; the rest of the pipeline runs either way.   *)
Rung2Done ==
  LET k == Len(records) + 1 IN
  /\ pc = "rung2"
  /\ \/ k > Len(clusters) /\ UNCHANGED report
     \/ /\ k <= Len(clusters)
        /\ AtCap(k) \/ Contract!Breached(Spent)
        /\ report' = [report EXCEPT !.outcome = "Aborted"]
  /\ pc' = "decline"
  /\ UNCHANGED <<kb, wire, plan, cur, bill, cut>>

Members(k) == ToSet(clusters[k].members)

(* A decline with no members is a no-op with no request.                     *)
Declined(k) == {Members(k)} \ {{}}

ToDecline ==
  {k \in DOMAIN records :
     /\ records[k].parsed /\ ~records[k].refused /\ IsDecline(records[k].ops)
     /\ k >= cur}

(* (9) A decline that cannot be recorded, or whose answer is lost, ends it.  *)
Decline ==
  /\ pc = "decline" /\ ToDecline # {}
  /\ LET k == CHOOSE k \in ToDecline : \A j \in ToDecline : k <= j IN
     \/ /\ declines' = declines \cup Declined(k) /\ cur' = k + 1 /\ UNCHANGED pc
        /\ report' = [report EXCEPT !.declined = @ \cup {Members(k)}]
     \/ /\ declines' \in {declines, declines \cup Declined(k)}
        /\ Finish("Aborted") /\ UNCHANGED cur
  /\ UNCHANGED <<store, superseded, outside, wire, plan, bill, cut>>

(* (10)-(11) Compose, and put every body on disk, or end there.              *)
Compose ==
  /\ pc = "decline" /\ ToDecline = {}
  /\ composed' = FlattenSeq([k \in DOMAIN records |-> Composed(k, records[k].ops, input)])
  /\ Goto("gate") \/ (composed' # <<>> /\ Finish("Aborted"))
  /\ UNCHANGED <<kb, wire, input, baseline, clusters, records, gates, queue, cur, bill, cut>>

(* (12) There is one file per map, so two bodies of a map are both judged by *)
(* the one written last; the gate may fail to ask at all.                    *)
Gate ==
  LET i == Len(gates) + 1 IN
  /\ pc = "gate" /\ i <= Len(composed)
  /\ \E v \in {"passed", "refused", "unevaluated"} :
       /\ \A j \in DOMAIN gates :
            composed[j].map = composed[i].map => "unevaluated" \in {v, gates[j]} \/ gates[j] = v
       /\ gates' = Append(gates, v)
  /\ UNCHANGED <<kb, wire, pc, input, baseline, clusters, records, composed, queue,
                 cur, report, bill, cut>>

-----------------------------------------------------------------------------
(* (12.5) The application step.                                              *)

(* The edits of m by every cluster, in collection order.                     *)
EditsOf(m) ==
  FlattenSeq([k \in DOMAIN records |->
    IF m \in Owned THEN Chain(m, input[m], records[k].ops) ELSE <<>>])

(* One request per edit, with the body after it and the one before it.       *)
UpdateRequests(m) ==
  LET es == EditsOf(m) IN
  [j \in DOMAIN es |->
     [kind |-> es[j].edit.op, map |-> m, edit |-> es[j].edit, body |-> es[j].after,
      prev |-> IF j = 1 THEN input[m] ELSE es[j - 1].after]]

CreateRequest(b) ==
  [kind |-> "create_map", map |-> b.map, edit |-> None, body |-> b.body, prev |-> b.body]

(* The requests of composed body i; the first green body of an old map takes *)
(* the whole chain of the map.                                               *)
RequestsOf(i) ==
  LET b == composed[i] IN
  IF gates[i] # "passed" THEN <<>>
  ELSE IF b.map \notin OldMaps THEN <<CreateRequest(b)>>
  ELSE IF \E j \in 1..(i - 1) : composed[j].map = b.map /\ gates[j] = "passed" THEN <<>>
  ELSE UpdateRequests(b.map)

(* Mutant: only the last body's gate is looked at.                           *)
LastUnevaluated == gates # <<>> /\ Last(gates) = "unevaluated"
Unevaluated == "unevaluated" \in ToSet(gates)

(* A gate that could not be evaluated stops the unit before any request.     *)
GatesDone ==
  /\ pc = "gate" /\ Len(gates) = Len(composed)
  /\ IF Unevaluated
     THEN Finish("Aborted") /\ UNCHANGED <<queue, wire, cur>>
     ELSE /\ queue' = FlattenSeq([i \in DOMAIN composed |-> RequestsOf(i)])
          /\ wire' = [n \in DOMAIN queue' |-> "todo"]
          /\ cur' = 1 /\ Goto("apply")
  /\ UNCHANGED <<kb, input, baseline, clusters, records, composed, gates, bill, cut>>

(* apply_audit: an add must add its entry to the body before it, and nothing *)
(* else.                                                                     *)
Audited(r) == r.kind = "add_pointer" => r.body.refs \ r.prev.refs = {r.edit.entry}

Post ==
  /\ pc = "apply" /\ cur <= Len(queue)
  /\ IF Audited(queue[cur])
     THEN wire' = [wire EXCEPT ![cur] = "sent"] /\ Goto("await")
     ELSE Stop("Aborted") /\ UNCHANGED wire
  /\ UNCHANGED <<kb, plan, cur, bill, cut>>

NewMap(n) == <<"kb", n>>
Target(n) == IF queue[n].kind = "create_map" THEN NewMap(n) ELSE queue[n].map

(* What the server compares, and what it refuses for a superseded pointer.   *)
Fits(r) ==
  CASE r.kind = "create_map"  -> TRUE
    [] r.kind = "add_pointer" -> /\ store[r.map].refs \subseteq r.body.refs
                                 /\ r.body.refs \ store[r.map].refs = {r.edit.entry}
    [] r.kind = "strike_gap"  -> /\ r.body.refs = store[r.map].refs
                                 /\ r.edit.entry \in store[r.map].refs
NamesSuperseded(r) == r.kind # "strike_gap" /\ r.body.refs \cap superseded # {}

(* The server decides a request, whether or not anybody still waits.         *)
Decide(n) ==
  /\ n \in DOMAIN wire /\ wire[n] = "sent"
  /\ LET r == queue[n]
         decide(d) == wire' = [wire EXCEPT ![n] = d]
     IN \/ /\ Fits(r) /\ ~NamesSuperseded(r) /\ decide("applied")
           /\ store' = [m \in DOMAIN store \cup {Target(n)} |->
                          IF m = Target(n) THEN r.body ELSE store[m]]
        \/ /\ UNCHANGED store
           /\ \/ NamesSuperseded(r) /\ decide("superseded")
              \/ ~Fits(r) /\ decide("fault")
              \/ r.kind = "create_map" /\ decide("cap")
              \/ \E d \in {"unauthorized", "forbidden", "fault"} : decide(d)
  /\ UNCHANGED <<superseded, declines, outside, pc, plan, cur, report, bill, cut>>

Next1(field, item) ==
  /\ pc' = "apply" /\ cur' = cur + 1
  /\ report' = [report EXCEPT ![field] = @ \cup {item}]

(* The answer arrives, or the transport or the body of the answer fails.     *)
Receive ==
  /\ pc = "await"
  /\ \/ wire[cur] = "applied"      /\ Next1("applied", [n |-> cur, map |-> Target(cur)])
     \/ wire[cur] = "superseded"   /\ Next1("skipped", cur)
     \/ wire[cur] = "cap"          /\ Next1("capped", cur)
     \/ wire[cur] = "unauthorized" /\ Stop("Unauthorized") /\ UNCHANGED cur
     \/ wire[cur] = "forbidden"    /\ Stop("NotMachinePrincipal") /\ UNCHANGED cur
     \/ wire[cur] = "fault"        /\ Stop("Aborted") /\ UNCHANGED cur
     \/ Stop("Aborted") /\ UNCHANGED cur
  /\ UNCHANGED <<kb, wire, plan, bill, cut>>

TimedOut ==
  /\ pc = "await" /\ Goto("reconcile")
  /\ UNCHANGED <<kb, wire, plan, cur, bill, cut>>

(* Mutant: a re-read that answers is taken for proof of an edit.             *)
EvidenceByAnswer(n) ==
  LET r == queue[n] IN
  IF r.kind # "create_map" THEN {r.map}
  ELSE {m \in DOMAIN store : m \notin DOMAIN input /\ store[m].refs = r.body.refs}

(* What a re-read takes for proof that request n was carried out.            *)
Evidence(n) ==
  LET r == queue[n] IN
  CASE r.kind = "create_map" ->
         {m \in DOMAIN store : /\ m \notin DOMAIN input
                               /\ m \notin {a.map : a \in report.applied}
                               /\ store[m].refs = r.body.refs}
    [] r.kind = "add_pointer" -> {m \in {r.map} : r.edit.entry \in store[m].refs}
    [] r.kind = "strike_gap"  -> {m \in {r.map} : store[m] = r.body}

(* Mutant: an op without proof is skipped and the chain goes on.             *)
ReconcileSkips ==
  /\ pc = "reconcile"
  /\ \/ \E m \in Evidence(cur) : Next1("applied", [n |-> cur, map |-> m])
     \/ Evidence(cur) = {} /\ Next1("skipped", cur)
     \/ Stop("Aborted") /\ UNCHANGED cur
  /\ UNCHANGED <<kb, wire, plan, bill, cut>>

(* Mutant: an op without proof is posted again.                              *)
ReconcileReposts ==
  /\ pc = "reconcile"
  /\ \/ \E m \in Evidence(cur) : Next1("applied", [n |-> cur, map |-> m])
     \/ Evidence(cur) = {} /\ Goto("apply") /\ UNCHANGED cur
     \/ Stop("Aborted") /\ UNCHANGED cur
  /\ UNCHANGED <<kb, wire, plan, bill, cut>>

Reconcile ==
  /\ pc = "reconcile"
  /\ \/ \E m \in Evidence(cur) : Next1("applied", [n |-> cur, map |-> m])
     \/ Evidence(cur) = {} /\ Stop("Aborted") /\ UNCHANGED cur
     \/ Stop("Aborted") /\ UNCHANGED cur           \* the re-read failed
  /\ UNCHANGED <<kb, wire, plan, bill, cut>>

ApplyDone ==
  /\ pc = "apply" /\ cur > Len(queue) /\ Goto("observe")
  /\ UNCHANGED <<kb, wire, plan, cur, bill, cut>>

(* (13) The observer answers the baseline again when it cannot count.        *)
Observe ==
  /\ pc = "observe" /\ pc' = "done"
  /\ \E count \in {PointerCount(store), baseline} :
       report' = [report EXCEPT !.change = IF count = baseline THEN "unchanged" ELSE "changed"]
  /\ UNCHANGED <<kb, wire, plan, cur, bill, cut>>

(* The whole pipeline is dropped, and its report with it.                    *)
WallClock ==
  /\ pc # "done" /\ pc' = "done" /\ cut' = TRUE
  /\ report' = [EmptyReport EXCEPT !.outcome = "Aborted"]
  /\ UNCHANGED <<kb, wire, plan, cur, bill>>

(* Someone else supersedes an entry or points an old map at one.  Nothing    *)
(* between the fetch and the application step looks at the KB's maps, so     *)
(* what others do in between they may as well do when that step begins.      *)
Others ==
  /\ pc \in {"apply", "await", "reconcile", "observe"}
  /\ outside < MaxOutside /\ outside' = outside + 1
  /\ \/ /\ \E e \in Entries \ superseded : superseded' = superseded \cup {e}
        /\ UNCHANGED store
     \/ /\ \E m \in OldMaps, e \in Entries :
             e \notin store[m].refs /\ store' = [store EXCEPT ![m].refs = @ \cup {e}]
        /\ UNCHANGED superseded
  /\ UNCHANGED <<declines, wire, pc, plan, cur, report, bill, cut>>

Pipeline ==
  \/ Baseline \/ Fetch \/ Ledger \/ Rung1 \/ Parse \/ Rung2 \/ Rung2Done \/ Decline \/ Compose
  \/ Gate \/ GatesDone \/ Post \/ Receive \/ TimedOut \/ Reconcile \/ ApplyDone \/ Observe

Next == Pipeline \/ WallClock \/ Others \/ \E n \in DOMAIN wire : Decide(n)

Spec == Init /\ [][Next]_vars /\ WF_vars(Pipeline)

-----------------------------------------------------------------------------
Request == [kind : {"create_map", "add_pointer", "strike_gap"},
            map : OldMaps \cup {Fresh(k) : k \in 1..MaxClusters},
            edit : AddOp \cup StrikeOp \cup {None}, body : Body, prev : Body]

TypeOK ==
  /\ superseded \subseteq Entries /\ declines \subseteq SUBSET Entries
  /\ OldMaps \subseteq DOMAIN store /\ \A m \in DOMAIN store : store[m] \in Body
  /\ pc \in {"start", "fetch", "ledger", "rung1", "parse", "rung2", "decline", "gate",
             "apply", "await", "reconcile", "observe", "done"}
  /\ queue \in Seq(Request) /\ cur \in Nat
  /\ wire \in [DOMAIN queue -> {"todo", "sent", "applied", "superseded", "cap",
                              "unauthorized", "forbidden", "fault"}]
  /\ Len(gates) <= Len(composed) /\ paid \in Nat /\ cut \in BOOLEAN
  /\ outside \in 0..MaxOutside
  /\ report.outcome \in Contract!Outcomes /\ Len(records) <= MaxClusters

Committed == {n \in DOMAIN wire : wire[n] = "applied"}
Reported == {a.n : a \in report.applied}

(* What the report calls applied is in the KB, the ops whose request timed   *)
(* out and that a re-read vouched for included: the pointer is there, and    *)
(* each created map is one of its own with exactly the posted pointers.      *)
(* (A strike the re-read vouched for is known by its body only: when another *)
(* strike had taken the line before, the KB may have refused this one, and   *)
(* need not point at the entry that is said to close the gap.)               *)
AppliedIsStored ==
  \A a \in report.applied :
    LET r == queue[a.n] IN
    CASE r.kind = "create_map" ->
           /\ a.map \in DOMAIN store \ OldMaps /\ store[a.map].refs = r.body.refs
           /\ \A b \in report.applied : b.map = a.map => b = a
      [] r.kind = "add_pointer" -> r.edit.entry \in store[a.map].refs
      [] r.kind = "strike_gap" ->
           /\ r.body.refs \subseteq store[a.map].refs
           /\ wire[a.n] = "applied" => r.edit.entry \in store[a.map].refs

(* The other way round: unless the wall clock took the report, every write   *)
(* the KB carried out is in it, except one, at the request the unit stopped  *)
(* on, and then the unit is not Ready.                                       *)
StoredIsReported ==
  ~cut =>
    /\ Committed \ Reported \subseteq {cur}
    /\ pc = "done" /\ report.outcome = "Ready" => Committed \subseteq Reported

(* A unit that ends Ready has an answer of its own for every request of a    *)
(* green body: applied, refused by a cap, or skipped for a superseded entry. *)
ReadyMeansAnswered ==
  pc = "done" /\ report.outcome = "Ready" =>
    DOMAIN queue = Reported \cup report.skipped \cup report.capped

(* Nothing was posted by a unit one of whose gates could not be evaluated or *)
(* one of whose declines was lost; and no request leaves before the bodies   *)
(* of every map it will touch have been linted.                              *)
NoWriteOnDoubt ==
  \A n \in DOMAIN wire : wire[n] # "todo" =>
    /\ Len(gates) = Len(composed) /\ "unevaluated" \notin ToSet(gates)
    /\ queue[n].map \in {composed[i].map : i \in {j \in DOMAIN gates : gates[j] = "passed"}}
    /\ \A k \in DOMAIN records :
         records[k].parsed /\ ~records[k].refused /\ IsDecline(records[k].ops)
           => Declined(k) \subseteq declines

(* The ledger gains a cluster, which keeps it from being clustered again for *)
(* nights, only when it has members and a map already, and the model         *)
(* proposed gaps of that map and nothing else: never because admission       *)
(* refused the cluster, its turn failed or it was left unanswered, nor when  *)
(* there was something to write beside the gap.                              *)
DeclinesEarned ==
  [][\A d \in declines' \ declines :
       \E k \in DOMAIN records :
         /\ d = Members(k) /\ d # {} /\ clusters[k].owner # None
         /\ records[k].ops # <<>>
         /\ \A i \in DOMAIN records[k].ops : records[k].ops[i].op = "propose_gap"]_vars

(* A gap the report says was struck is gone from the map, whatever the unit  *)
(* posted about the same map since; with no other writer nobody else could   *)
(* have put it back.                                                         *)
StrikesStay ==
  \A a \in report.applied :
    queue[a.n].kind = "strike_gap" => queue[a.n].edit.gap \notin store[a.map].gaps

(* The unit ends by itself: no answer, and no missing one, keeps it going.   *)
Ends == <>(pc = "done")

(* What the nightly driver relies on.                                        *)
KeepsContract == Contract!Spec
=============================================================================
