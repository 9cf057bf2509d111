-------------------------------- MODULE Exec ---------------------------------
(***************************************************************************)
(* exec::run: a command under a timeout.  The child Sh leads a process      *)
(* group of its own; it and the processes it starts may fork, leave the     *)
(* group, close their output and exit whenever they like.  The future polls *)
(* the join of wait and the two drains, and may be dropped while pending.   *)
(*                                                                          *)
(* pc is "spawn", "waiting" for the join, "reaping" in the timeout arm, or  *)
(* how the future ended: "failed", "completed", "timed_out", "dropped".     *)
(*                                                                          *)
(* The two pipes are one: it is at its end when no process holds it.  The   *)
(* system gives the number of the group away only when the leader is reaped *)
(* and no member is left.                                                   *)
(***************************************************************************)
EXTENDS Integers

CONSTANTS
  Sh,    \* the child, leader of the group
  Kids   \* bound: the processes it and they may start

ASSUME ExecAssumption == Sh \notin Kids

VARIABLES
  pc,
  leader,     \* "none", "running", "zombie" (exited, not waited for), "reaped"
  kid,        \* each kid: "unborn", a "member" of the group, "escaped", "dead"
  pipe,       \* the processes that hold the pipe
  armed,      \* ProcessGroupGuard::pgid is Some
  due,        \* the timeout has elapsed
  reused,     \* the number of the group names another one now
  (* Observations.                                                           *)
  early,      \* the leader had exited by itself when the timeout arm ran
  hit         \* whom SIGKILL to the number reached: "none", "group", "stranger"

system == <<leader, kid, pipe, reused>>
vars == <<pc, system, armed, due, early, hit>>

Init ==
  /\ pc = "spawn" /\ leader = "none"
  /\ kid = [k \in Kids |-> "unborn"] /\ pipe = {}
  /\ armed = FALSE /\ due = FALSE /\ reused = FALSE
  /\ early = FALSE /\ hit = "none"

Members == {k \in Kids : kid[k] = "member"}
Ended == {"failed", "completed", "timed_out", "dropped"}

-----------------------------------------------------------------------------
(* What the processes do.                                                    *)

Live(p) == IF p = Sh THEN leader = "running" ELSE kid[p] \in {"member", "escaped"}

(* A process inherits the group, and the pipe unless it is redirected.       *)
Fork ==
  /\ \E p \in Kids \cup {Sh}, k \in Kids :
       /\ Live(p) /\ kid[k] = "unborn"
       /\ kid' = [kid EXCEPT ![k] = IF p = Sh THEN "member" ELSE kid[p]]
       /\ pipe' \in {pipe, IF p \in pipe THEN pipe \cup {k} ELSE pipe}
  /\ UNCHANGED <<pc, leader, armed, due, reused, early, hit>>

(* setsid, setpgid                                                           *)
Leave ==
  /\ \E k \in Members : kid' = [kid EXCEPT ![k] = "escaped"]
  /\ UNCHANGED <<pc, leader, pipe, armed, due, reused, early, hit>>

CloseOutput ==
  /\ \E p \in pipe : pipe' = pipe \ {p}
  /\ UNCHANGED <<pc, leader, kid, armed, due, reused, early, hit>>

LeaderExits ==
  /\ leader = "running"
  /\ leader' = "zombie" /\ pipe' = pipe \ {Sh}
  /\ UNCHANGED <<pc, kid, armed, due, reused, early, hit>>

KidExits ==
  /\ \E k \in Kids :
       /\ Live(k)
       /\ kid' = [kid EXCEPT ![k] = "dead"] /\ pipe' = pipe \ {k}
  /\ UNCHANGED <<pc, leader, armed, due, reused, early, hit>>

NumberReused ==
  /\ leader = "reaped" /\ Members = {} /\ ~reused
  /\ reused' = TRUE
  /\ UNCHANGED <<pc, leader, kid, pipe, armed, due, early, hit>>

-----------------------------------------------------------------------------
(* Signals.                                                                  *)

(* kill_group_logged, sent while the leader is as given: every member dies,  *)
(* and a leader that runs; the pipe loses them.                              *)
KillGroup(at) ==
  /\ leader' = IF at = "running" THEN "zombie" ELSE at
  /\ kid' = [k \in Kids |-> IF kid[k] = "member" THEN "dead" ELSE kid[k]]
  /\ pipe' = pipe \ (Members \cup {Sh})
  /\ hit' = IF at # "reaped" \/ Members # {} THEN "group"
            ELSE IF reused THEN "stranger" ELSE hit

(* Child::start_kill, and kill_on_drop: the leader alone.                    *)
KillLeader(at) ==
  /\ leader' = IF at = "running" THEN "zombie" ELSE at
  /\ pipe' = pipe \ {Sh}
  /\ UNCHANGED <<kid, hit>>

-----------------------------------------------------------------------------
(* The future.                                                               *)

SpawnFails ==
  /\ pc = "spawn"
  /\ pc' = "failed"
  /\ UNCHANGED <<system, armed, due, early, hit>>

Spawn ==
  /\ pc = "spawn"
  /\ pc' = "waiting" /\ leader' = "running" /\ pipe' = {Sh} /\ armed' = TRUE
  /\ UNCHANGED <<kid, due, reused, early, hit>>

Expire ==
  /\ pc = "waiting" /\ ~due
  /\ due' = TRUE
  /\ UNCHANGED <<pc, system, armed, early, hit>>

(* What a poll of wait makes of the leader.                                  *)
Waited == IF leader = "zombie" THEN "reaped" ELSE leader

Joined == Waited = "reaped" /\ pipe = {}

(* A poll that reaps the leader while the pipe is held.                      *)
Reap ==
  /\ pc = "waiting" /\ ~due /\ ~Joined /\ leader = "zombie"
  /\ leader' = "reaped"
  /\ UNCHANGED <<pc, kid, pipe, armed, due, reused, early, hit>>

Complete ==
  /\ pc = "waiting" /\ Joined
  /\ leader' = "reaped"
  /\ armed' = FALSE
  /\ pc' = "completed"
  /\ UNCHANGED <<kid, pipe, due, reused, early, hit>>

(* Mutant: the group is killed by the number the guard has.                  *)
TerminateByGuard == KillGroup(Waited)

(* terminate_group: child.id() is None once the leader is reaped, and then   *)
(* nothing is signalled but the child.                                       *)
Terminate == IF Waited = "reaped" THEN KillLeader(Waited) ELSE KillGroup(Waited)

(* The join is polled once more before the deadline is looked at; a leader   *)
(* already waited for is not awaited again.                                  *)
TimeOut ==
  /\ pc = "waiting" /\ due /\ ~Joined
  /\ Terminate
  /\ armed' = FALSE
  /\ early' = (Waited = "reaped")
  /\ pc' = IF early' THEN "timed_out" ELSE "reaping"
  /\ UNCHANGED <<due, reused>>

(* Mutant: what is left of the output is read first.                         *)
ReapedAndDrained ==
  /\ pc = "reaping" /\ leader = "zombie" /\ pipe = {}
  /\ leader' = "reaped"
  /\ pc' = "timed_out"
  /\ UNCHANGED <<kid, pipe, armed, due, reused, early, hit>>

Reaped ==
  /\ pc = "reaping" /\ leader = "zombie"
  /\ leader' = "reaped"
  /\ pc' = "timed_out"
  /\ UNCHANGED <<kid, pipe, armed, due, reused, early, hit>>

(* Mutant: without the guard, only kill_on_drop is left.                     *)
DropChild ==
  /\ pc \in {"waiting", "reaping"}
  /\ KillLeader(leader)
  /\ armed' = FALSE
  /\ pc' = "dropped"
  /\ UNCHANGED <<due, reused, early>>

(* The guard is dropped before the child, which has kill_on_drop.            *)
DropRun ==
  /\ pc \in {"waiting", "reaping"}
  /\ IF armed THEN KillGroup(leader) ELSE KillLeader(leader)
  /\ armed' = FALSE
  /\ pc' = "dropped"
  /\ UNCHANGED <<due, reused, early>>

(* The runtime reaps the child of a dropped future in its own time.          *)
OrphanReaped ==
  /\ pc = "dropped" /\ leader = "zombie"
  /\ leader' = "reaped"
  /\ UNCHANGED <<pc, kid, pipe, armed, due, reused, early, hit>>

Over == pc \in Ended /\ UNCHANGED vars

-----------------------------------------------------------------------------
Processes ==
  Fork \/ Leave \/ CloseOutput \/ LeaderExits \/ KidExits \/ NumberReused

Runtime ==
  SpawnFails \/ Spawn \/ Expire \/ Reap \/ Complete \/ TimeOut \/ Reaped

Next == Processes \/ Runtime \/ DropRun \/ OrphanReaped \/ Over

(* The runtime polls a woken future and its timers fire; nothing is assumed  *)
(* of the processes.                                                         *)
Spec == Init /\ [][Next]_vars /\ WF_vars(Runtime)

-----------------------------------------------------------------------------
(* Properties.                                                               *)

(* Every variable stays in its range; only living processes hold the pipe,   *)
(* and the guard is armed only while the join is pending.                    *)
TypeOK ==
  /\ pc \in {"spawn", "waiting", "reaping"} \cup Ended
  /\ leader \in {"none", "running", "zombie", "reaped"}
  /\ kid \in [Kids -> {"unborn", "member", "escaped", "dead"}]
  /\ pipe \subseteq Kids \cup {Sh} /\ \A p \in pipe : Live(p)
  /\ armed \in BOOLEAN /\ (armed => pc = "waiting") /\ due \in BOOLEAN /\ reused \in BOOLEAN
  /\ early \in BOOLEAN /\ hit \in {"none", "group", "stranger"}

(* An abandoned command leaves no process of its group behind: none after a  *)
(* drop, none after a timeout unless the leader had exited by itself.        *)
GroupGone ==
  /\ pc = "dropped" => Members = {}
  /\ pc \in {"reaping", "timed_out"} /\ ~early => Members = {}

(* A command that ends by itself is never signalled, nor what it detached; a *)
(* timeout never signals a group that has got the number since.  A drop may. *)
SignalsAimed ==
  /\ pc \in {"waiting", "completed"} => hit = "none"
  /\ hit = "stranger" => pc = "dropped" /\ leader = "reaped"

(* The run ends, whatever the processes do with the pipe.                    *)
Bounded == <>(pc \in Ended)

(* exec.rs, run: a timeout SIGKILLs the whole group, sh plus every           *)
(* grandchild.                                                               *)
TimeoutKillsGroup == pc = "timed_out" => Members = {}
=============================================================================
