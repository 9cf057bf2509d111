------------------------------ MODULE KbSession ------------------------------
(***************************************************************************)
(* A run's side of the personal knowledge base: which advised calls are     *)
(* denied (memory.rs), what the run's turns, calls and corrections put into *)
(* the turn digests, the posts spawned for digests and failed calls, and    *)
(* the flush that settles them at the run's end or is cut off.  A post's    *)
(* answer is only looked at by the flush, so a post that has not been       *)
(* settled is one number and gets its answer there.                         *)
(***************************************************************************)
EXTENDS DigestBuffer, FiniteSets

CONSTANTS
  Calls,          \* tool calls, a name with arguments each
  Entries,        \* entries of the knowledge base
  EntryOf,        \* [Calls -> Entries \cup {NoEntry}]: the cue a call matches
  NoEntry,
  PostedCalls,    \* those whose tool the knowledge base has a name for
  EventCalls,     \* those whose failure is an event: bash, edit, read, list
  CheckCalls,     \* run_checks
  FinishPosted,   \* whether finish is a name of the knowledge base
  Modes, MaxDenies, MaxEvents,   \* MAX_MEMORY_DENIES, MAX_EVENTS_PER_RUN
  RefusedClaims,  \* the triggers a refused finish may ask with
  CorrectionSize, TextGroups, ErrorSize,
  MaxLog          \* bound: what the run does before it ends

ASSUME SessionAssumption ==
  /\ EntryOf \in [Calls -> Entries \cup {NoEntry}] /\ NoEntry \notin Entries
  /\ PostedCalls \subseteq Calls /\ EventCalls \subseteq Calls /\ CheckCalls \subseteq Calls
  /\ Modes \subseteq {"annotate", "belief_check", "deny_once"}
  /\ MaxDenies \in Nat /\ MaxEvents \in Nat /\ MaxLog \in Nat
  /\ CorrectionSize \in Nat /\ ErrorSize \in Nat /\ FinishPosted \in BOOLEAN
  /\ \A turn \in TextGroups : turn.sizes \in Seq(Nat) /\ turn.spoke \in BOOLEAN

VARIABLES
  mode, phase,          \* phase: "running", "flushing", "over"
  deny,                 \* MemoryRunState
  buf,                  \* the digest buffer
  events, digests,      \* posts under way
  started, capped,      \* events posted, and failed calls past the cap
  unfittable,           \* digests that were closed and not posted
  stats,                \* what the run reports
  log, bodies           \* observation: what the run did, every digest closed

posts == <<events, digests, started, capped, unfittable>>
vars == <<mode, phase, deny, buf, posts, stats, log, bodies>>

NoFlush == [sent |-> 0, failed |-> 0, capped |-> 0, digestsSent |-> 0, digestsFailed |-> 0]

Init ==
  /\ mode \in Modes /\ phase = "running"
  /\ deny = [entries |-> {}, calls |-> {}, count |-> 0]
  /\ buf = Empty /\ events = 0 /\ digests = 0 /\ started = 0 /\ capped = 0 /\ unfittable = 0
  /\ stats = NoFlush
  /\ log = <<>> /\ bodies = <<>>

-----------------------------------------------------------------------------
(* decide, for advice that is not blank: the reason of every other answer is *)
(* in what it lacks here.                                                    *)
(* Mutant: only the call is remembered, not the entry it was denied for.     *)
DeniedByCall(c) ==
  /\ EntryOf[c] # NoEntry /\ c \notin deny.calls
  /\ mode = "deny_once" /\ deny.count < MaxDenies

Denied(c) ==
  /\ EntryOf[c] # NoEntry /\ c \notin deny.calls
  /\ mode = "deny_once"
  /\ EntryOf[c] \notin deny.entries
  /\ deny.count < MaxDenies

(* post_digests: a post for every digest that fits.                          *)
PostDigests(out) ==
  /\ digests' = digests + Cardinality({i \in DOMAIN out : out[i].fit})
  /\ unfittable' = unfittable + Cardinality({i \in DOMAIN out : ~out[i].fit})
  /\ bodies' = bodies \o out

(* One thing the run did, and the correction it asked for.                   *)
Step(what, call, posted, resolving, failed, asks) ==
  [what |-> what, call |-> call, posted |-> posted, resolving |-> resolving,
   failed |-> failed, asks |-> asks]

Log(entry) == phase = "running" /\ Len(log) < MaxLog /\ log' = Append(log, entry)
Now == Len(log) + 1

Ask(b, trigger) ==
  IF trigger = "none" THEN b ELSE Correction(b, trigger, Now, CorrectionSize)

(* A denied call is not run and nobody is told of it.                        *)
DenyCall(c) ==
  /\ Denied(c)
  /\ deny' = [entries |-> deny.entries \cup {EntryOf[c]}, calls |-> deny.calls \cup {c},
              count |-> deny.count + 1]
  /\ Log(Step("denied", c, FALSE, FALSE, FALSE, "none"))
  /\ UNCHANGED <<mode, phase, buf, posts, stats, bodies>>

(* Mutant: a failed call past the cap is not counted.                        *)
EventUncounted(c, error) ==
  LET posts1 == error /\ c \in EventCalls /\ started < MaxEvents
  IN /\ events' = IF posts1 THEN events + 1 ELSE events
     /\ started' = IF posts1 THEN started + 1 ELSE started
     /\ UNCHANGED capped

Event(c, error) ==
  IF ~(error /\ c \in EventCalls) THEN UNCHANGED <<events, started, capped>>
  ELSE IF started >= MaxEvents THEN capped' = capped + 1 /\ UNCHANGED <<events, started>>
  ELSE started' = started + 1 /\ events' = events + 1 /\ UNCHANGED capped

(* after_tool, for a call that was run, and the correction of a red gate.    *)
RunCall(c, error) ==
  LET posted == c \in PostedCalls
      resolving == c \in CheckCalls /\ ~error
      asks == IF c \in CheckCalls /\ error THEN "gate_red" ELSE "none"
      done == Call(buf, Now, posted, IF error THEN ErrorSize ELSE 1, resolving)
  IN /\ ~Denied(c)
     /\ Log(Step("call", c, posted, resolving, error /\ c \in EventCalls, asks))
     /\ PostDigests(done.out) /\ Event(c, error)
     /\ buf' = Ask(done.buf, asks)
     /\ UNCHANGED <<mode, phase, deny, stats>>

(* Observation::Finish, and the correction of a refused claim.  An accepted  *)
(* done, already_satisfied or answer resolves; failed and blocked do not.    *)
FinishCall(accepted, resolving, asks) ==
  LET said == [buf EXCEPT !.message = @ \/ accepted]
      done == Call(said, Now, FinishPosted, IF accepted THEN 1 ELSE ErrorSize, resolving)
  IN /\ Log(Step("call", NoEntry, FinishPosted, resolving, FALSE, asks))
     /\ PostDigests(done.out) /\ buf' = Ask(done.buf, asks)
     /\ UNCHANGED <<mode, phase, deny, events, started, capped, stats>>

(* A stop nudge or a static-tree nudge.                                      *)
Nudge ==
  /\ Log(Step("nudge", NoEntry, FALSE, FALSE, FALSE, "nudge"))
  /\ buf' = Ask(buf, "nudge")
  /\ UNCHANGED <<mode, phase, deny, posts, stats, bodies>>

ModelTurn(sizes, spoke, passed) ==
  LET done == Turn(buf, sizes, spoke, passed)
  IN /\ Log(Step("turn", NoEntry, FALSE, FALSE, FALSE, "none"))
     /\ buf' = done.buf /\ PostDigests(done.out)
     /\ UNCHANGED <<mode, phase, deny, events, started, capped, stats>>

-----------------------------------------------------------------------------
(* The run is over, at any point: the last digest is closed and the handles  *)
(* are taken; a second flush would find neither.                             *)
Flush ==
  LET done == Finish(buf)
  IN /\ phase = "running" /\ phase' = "flushing"
     /\ buf' = done.buf /\ PostDigests(done.out)
     /\ UNCHANGED <<mode, deny, events, started, capped, stats, log>>

(* One handle after the other, the events first.                             *)
(* Every handle is awaited, so many posts were acknowledged: the rest failed. *)
FlushReturns(acknowledged, taken) ==
  /\ phase = "flushing" /\ acknowledged \in 0..events /\ taken \in 0..digests
  /\ phase' = "over" /\ events' = 0 /\ digests' = 0
  /\ stats' = [sent |-> acknowledged, failed |-> events - acknowledged, capped |-> capped,
               digestsSent |-> taken, digestsFailed |-> unfittable + digests - taken]
  /\ UNCHANGED <<mode, deny, buf, started, capped, unfittable, log, bodies>>

(* MEMORY_FLUSH_TIMEOUT: the flush is dropped, and with it the posts under   *)
(* way; what it had counted goes with it.                                   *)
FlushCutOff ==
  /\ phase = "flushing" /\ events + digests > 0
  /\ phase' = "over" /\ events' = 0 /\ digests' = 0
  /\ UNCHANGED <<mode, deny, buf, started, capped, unfittable, stats, log, bodies>>

Over == phase = "over" /\ UNCHANGED vars

Next ==
  \/ \E c \in Calls : DenyCall(c) \/ \E error \in BOOLEAN : RunCall(c, error)
  \/ \E asks \in RefusedClaims \cup {"none"} : FinishCall(FALSE, FALSE, asks)
  \/ \E resolving \in BOOLEAN : FinishCall(TRUE, resolving, "none")
  \/ Nudge
  \/ \E turn \in TextGroups, passed \in BOOLEAN : ModelTurn(turn.sizes, turn.spoke, passed)
  \/ Flush \/ FlushCutOff \/ Over
  \/ \E acknowledged \in 0..events, taken \in 0..digests : FlushReturns(acknowledged, taken)

Spec == Init /\ [][Next]_vars

-----------------------------------------------------------------------------
(* All the items there are, in the order of the run, with their digest.      *)
Digest(d) == IF d <= Len(bodies) THEN bodies[d].items ELSE buf.items
Placed == UNION {{d} \X DOMAIN Digest(d) : d \in 1..(Len(bodies) + 1)}
ItemAt(p) == Digest(p[1])[p[2]]
OfKind(kind) == {p \in Placed : ItemAt(p).kind = kind}

TypeOK ==
  /\ mode \in Modes /\ phase \in {"running", "flushing", "over"}
  /\ deny.entries \subseteq Entries /\ deny.calls \subseteq Calls /\ deny.count \in 0..MaxDenies
  /\ buf.next = Len(bodies) /\ Len(log) <= MaxLog
  /\ events \in Nat /\ digests \in Nat /\ started \in 0..MaxEvents
  /\ capped \in Nat /\ unfittable \in Nat
  /\ \A f \in DOMAIN NoFlush : stats[f] \in Nat

(* The verbatim repeat of a denied call goes through, no entry denies twice, *)
(* whatever calls it matches, the cap holds for the run; and a denied call,  *)
(* which was not run, is in no digest and behind no correction.              *)
DeniedOnce ==
  LET denied == {i \in DOMAIN log : log[i].what = "denied"}
  IN /\ Cardinality(denied) <= MaxDenies /\ (mode # "deny_once" => denied = {})
     /\ \A i, j \in denied : i # j => EntryOf[log[i].call] # EntryOf[log[j].call]
     /\ \A p \in Placed : ItemAt(p).id \notin denied

(* What every post came to: unless the flush was cut off, when nothing is    *)
(* reported, each failed call was sent, failed or capped and each digest     *)
(* index sent or failed, once.                                               *)
Settled ==
  LET failures == Cardinality({i \in DOMAIN log : log[i].failed})
  IN IF phase = "over"
     THEN \/ stats = NoFlush
          \/ /\ stats.sent + stats.failed + stats.capped = failures
             /\ stats.digestsSent + stats.digestsFailed = Len(bodies)
     ELSE events = started /\ started + capped = failures
          /\ digests + unfittable = Len(bodies)

-----------------------------------------------------------------------------
(* The corrections as the run's own log has them: a request is folded into   *)
(* one of its trigger that nothing has resolved since.                       *)
Resolvers(after) == {k \in DOMAIN log : k > after /\ log[k].resolving}
Opened(n) ==
  /\ log[n].asks # "none"
  /\ \A m \in 1..(n - 1) : log[m].asks = log[n].asks => \E k \in Resolvers(m) : k < n
LastOf(s, n) == SubSeq(s, IF Len(s) > n THEN Len(s) - n + 1 ELSE 1, Len(s))
Between(n, k) ==
  Where([j \in 1..(k - 1) |-> j], {j \in (n + 1)..(k - 1) : log[j].posted})

(* Every correction is told exactly once, however its trigger was repeated,  *)
(* the digests were closed or a group was cut down: resolved by the first    *)
(* call that resolves, naming the last posted calls between in their order,  *)
(* or as unresolved at the end of the run.  (One digest may still be dropped  *)
(* with all it tells, as unfittable: that is counted, see Settled.)          *)
CorrectionsTold ==
  LET told(n) == {p \in OfKind("correction") : ItemAt(p).id = n}
  IN \A n \in DOMAIN log :
       IF ~Opened(n) THEN told(n) = {}
       ELSE IF Resolvers(n) # {}
       THEN LET k == CHOOSE r \in Resolvers(n) : \A q \in Resolvers(n) : r <= q
            IN \E p \in told(n) : /\ told(n) = {p} /\ ItemAt(p).resolved
                                  /\ ItemAt(p).by = LastOf(Between(n, k), MaxResolvedBy)
       ELSE IF phase = "running" THEN told(n) = {}
       ELSE \E p \in told(n) : told(n) = {p} /\ ~ItemAt(p).resolved

(* A call that a correction names is in a digest, before the correction or   *)
(* beside it: cutting a group down, maybe before the correction was opened   *)
(* or long before it was resolved, never took it.                            *)
NamesKept ==
  \A p \in OfKind("correction") : \A id \in ToSet(ItemAt(p).by) :
    \E q \in OfKind("tool_call") : ItemAt(q).id = id /\ q[1] <= p[1]

(* What is posted is within the limits, the open digest too; indexes run     *)
(* without a gap, only the last digest may be empty or have the final        *)
(* message, calls are in the order they ran, and a digest that does not say  *)
(* it was cut has every call with its result.                                *)
BodiesFit ==
  /\ \A d \in DOMAIN bodies :
       LET b == bodies[d]
           ids(kind) == {b.items[i].id : i \in {j \in DOMAIN b.items : b.items[j].kind = kind}}
       IN /\ b.index = d - 1
          /\ b.fit => Fits(b.items, b.index, b.final)
          /\ (b.items = <<>> \/ b.final) => d = Len(bodies) /\ buf.finished
          /\ ~b.truncated => ids("tool_call") = ids("tool_result")
  /\ Fits(buf.items, buf.next, FALSE)
  /\ \A p, q \in OfKind("tool_call") :
       ItemAt(p).id < ItemAt(q).id => p[1] < q[1] \/ (p[1] = q[1] /\ p[2] < q[2])
=============================================================================
