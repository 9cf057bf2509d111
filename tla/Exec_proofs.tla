----------------------------- MODULE Exec_proofs -----------------------------
(***************************************************************************)
(* Theorems about Exec: what a command under a timeout leaves behind, for   *)
(* any number of processes.                                                 *)
(***************************************************************************)
EXTENDS Exec, TLAPS

(* Once the join has been left the leader is not running, so nobody outside  *)
(* the group can fork into it; the guard is armed as long as it is pending.  *)
Stage ==
  /\ pc \in {"spawn", "failed"} => leader = "none" /\ pipe = {} /\ Members = {}
  /\ pc = "waiting" => leader # "none" /\ armed
  /\ pc = "reaping" => leader = "zombie" /\ ~early
  /\ pc \in {"timed_out", "completed"} => leader = "reaped"
  /\ pc = "dropped" => leader \in {"zombie", "reaped"}

Typed == TypeOK /\ Stage

(* The start is typed.                                                       *)
LEMMA TypedInit == Init => Typed
BY DEF Init, Typed, TypeOK, Stage, Members, Ended, Live

(* No process does anything before it is born, and a death frees the pipe.   *)
LEMMA TypedProcesses == Typed /\ Processes => Typed'
<1> SUFFICES ASSUME Typed, Processes PROVE Typed'
  OBVIOUS
<1> USE ExecAssumption DEF Typed, TypeOK, Stage, Members, Ended, Live
<1>1. CASE Fork
  BY <1>1 DEF Fork
<1>2. CASE Leave
  BY <1>2 DEF Leave
<1>3. CASE CloseOutput
  BY <1>3 DEF CloseOutput
<1>4. CASE LeaderExits
  BY <1>4 DEF LeaderExits
<1>5. CASE KidExits
  BY <1>5 DEF KidExits
<1>6. CASE NumberReused
  BY <1>6 DEF NumberReused
<1> QED BY <1>1, <1>2, <1>3, <1>4, <1>5, <1>6 DEF Processes

(* What a SIGKILL to the group leaves, as far as types go.                   *)
LEMMA KillGroupType ==
  ASSUME TypeOK, leader \in {"running", "zombie", "reaped"},
         NEW at \in {"running", "zombie", "reaped"},
         leader = "running" <=> at = "running", KillGroup(at)
  PROVE  /\ leader' \in {"zombie", "reaped"}
         /\ leader' = IF at = "running" THEN "zombie" ELSE at
         /\ kid' \in [Kids -> {"unborn", "member", "escaped", "dead"}]
         /\ pipe' \subseteq Kids \cup {Sh} /\ \A p \in pipe' : Live(p)'
         /\ hit' \in {"none", "group", "stranger"}
         /\ Members' = {}
BY ExecAssumption DEF KillGroup, TypeOK, Members, Live

(* The same of a SIGKILL to the child alone.                                 *)
LEMMA KillLeaderType ==
  ASSUME TypeOK, leader \in {"running", "zombie", "reaped"},
         NEW at \in {"running", "zombie", "reaped"},
         leader = "running" <=> at = "running", KillLeader(at)
  PROVE  /\ leader' \in {"zombie", "reaped"}
         /\ leader' = IF at = "running" THEN "zombie" ELSE at
         /\ kid' = kid /\ hit' = hit
         /\ pipe' \subseteq Kids \cup {Sh} /\ \A p \in pipe' : Live(p)'
BY ExecAssumption DEF KillLeader, TypeOK, Live

(* The future leaves the join with the guard disarmed and the leader dead.   *)
LEMMA TypedRuntime == Typed /\ (Runtime \/ DropRun \/ OrphanReaped) => Typed'
<1> SUFFICES ASSUME Typed, Runtime \/ DropRun \/ OrphanReaped PROVE Typed'
  OBVIOUS
<1> USE DEF Typed
<1>1. CASE Spawn
  BY <1>1, ExecAssumption DEF Spawn, TypeOK, Stage, Members, Ended, Live
<1>2. CASE SpawnFails \/ Expire
  <2>1. pc' \in {"spawn", "waiting", "reaping"} \cup Ended /\ due' \in BOOLEAN
    BY <1>2 DEF SpawnFails, Expire, TypeOK, Ended, system
  <2>2. armed' => pc' = "waiting"
    <3>1. armed => pc = "waiting"
      BY DEF TypeOK
    <3>2. CASE SpawnFails
      <4>1. pc = "spawn" /\ armed' = armed
        BY <3>2 DEF SpawnFails
      <4> QED BY <3>1, <4>1
    <3>3. CASE Expire
      BY <3>1, <3>3 DEF Expire
    <3> QED BY <1>2, <3>2, <3>3
  <2>3. UNCHANGED <<leader, kid, pipe, armed, reused, early, hit>>
    BY <1>2 DEF SpawnFails, Expire, system
  <2>4. \A p \in pipe' : Live(p)'
    BY <2>3 DEF TypeOK, Live
  <2>5. TypeOK'
    BY <2>1, <2>3, <2>4, <2>2 DEF TypeOK, Ended
  <2>6. Stage'
    BY <1>2 DEF SpawnFails, Expire, Stage, Members, system
  <2> QED BY <2>5, <2>6
<1>3. CASE Reap \/ Complete \/ Reaped \/ OrphanReaped
  <2>1. UNCHANGED <<kid, pipe>> /\ leader # "none" /\ leader' = "reaped"
    BY <1>3 DEF Reap, Complete, Reaped, OrphanReaped, TypeOK, Stage
  <2>2. leader # "running"
    BY <1>3 DEF Reap, Complete, Joined, Waited, Reaped, OrphanReaped
  <2>3. \A p \in pipe' : Live(p)'
    BY <2>1, <2>2 DEF TypeOK, Live
  <2>4. armed' => pc' = "waiting"
    <3>1. armed => pc = "waiting"
      BY DEF TypeOK
    <3>2. CASE Reap
      BY <3>1, <3>2 DEF Reap
    <3>3. CASE Complete
      BY <3>3 DEF Complete
    <3>4. CASE Reaped
      <4>1. pc = "reaping" /\ armed' = armed
        BY <3>4 DEF Reaped
      <4> QED BY <3>1, <4>1
    <3>5. CASE OrphanReaped
      <4>1. pc = "dropped" /\ armed' = armed
        BY <3>5 DEF OrphanReaped
      <4> QED BY <3>1, <4>1
    <3> QED BY <1>3, <3>2, <3>3, <3>4, <3>5
  <2>5. TypeOK'
    BY <1>3, <2>1, <2>3, <2>4 DEF Reap, Complete, Reaped, OrphanReaped, TypeOK, Ended
  <2>6. Stage'
    BY <1>3, <2>1 DEF Reap, Complete, Reaped, OrphanReaped, Stage
  <2> QED BY <2>5, <2>6
<1>4. CASE TimeOut
  <2>1. /\ leader \in {"running", "zombie", "reaped"} /\ Waited \in {"running", "reaped"}
        /\ leader = "running" <=> Waited = "running"
    BY <1>4 DEF TimeOut, TypeOK, Stage, Waited
  <2>2. /\ leader' = IF Waited = "running" THEN "zombie" ELSE "reaped"
        /\ kid' \in [Kids -> {"unborn", "member", "escaped", "dead"}]
        /\ pipe' \subseteq Kids \cup {Sh} /\ \A p \in pipe' : Live(p)'
        /\ hit' \in {"none", "group", "stranger"}
    <3>1. CASE Waited = "reaped"
      BY <1>4, <2>1, <3>1, KillLeaderType DEF TimeOut, Terminate, TypeOK
    <3>2. CASE Waited = "running"
      BY <1>4, <2>1, <3>2, KillGroupType DEF TimeOut, Terminate, TypeOK
    <3> QED BY <2>1, <3>1, <3>2
  <2> QED BY <1>4, <2>1, <2>2 DEF TimeOut, TypeOK, Stage, Ended
<1>5. CASE DropRun
  <2>1. leader \in {"running", "zombie", "reaped"}
    BY <1>5 DEF DropRun, TypeOK, Stage
  <2>2. /\ leader' \in {"zombie", "reaped"}
        /\ kid' \in [Kids -> {"unborn", "member", "escaped", "dead"}]
        /\ pipe' \subseteq Kids \cup {Sh} /\ \A p \in pipe' : Live(p)'
        /\ hit' \in {"none", "group", "stranger"}
    BY <1>5, <2>1, KillLeaderType, KillGroupType DEF DropRun, TypeOK
  <2> QED BY <1>5, <2>2 DEF DropRun, TypeOK, Stage, Ended
<1> QED BY <1>1, <1>2, <1>3, <1>4, <1>5 DEF Runtime

(* Typed always holds.                                                       *)
LEMMA TypedAlways == Spec => []Typed
<1>1. Typed /\ UNCHANGED vars => Typed'
  BY DEF Typed, TypeOK, Stage, Members, Ended, Live, vars, system
<1>2. Typed /\ [Next]_vars => Typed'
  BY <1>1, TypedProcesses, TypedRuntime DEF Next, Over
<1> QED BY <1>2, TypedInit, PTL DEF Spec

(* The variables stay in their ranges, only the living hold the pipe, and    *)
(* the guard is disarmed on every way out of the join.                       *)
THEOREM TypeCorrect == Spec => []TypeOK
BY TypedAlways, PTL DEF Typed

-----------------------------------------------------------------------------
(* What is left of the group.                                                *)

(* No process is born into a group without members whose leader is dead.     *)
LEMMA GroupStep == Typed /\ GroupGone /\ [Next]_vars => GroupGone'
<1> SUFFICES ASSUME Typed, GroupGone, [Next]_vars PROVE GroupGone'
  OBVIOUS
<1> USE DEF Typed, GroupGone
<1>1. CASE Processes
  <2>1. UNCHANGED <<pc, early>>
    BY <1>1 DEF Processes, Fork, Leave, CloseOutput, LeaderExits, KidExits, NumberReused
  <2>2. ASSUME Members = {}, leader \in {"zombie", "reaped"} PROVE Members' = {}
    <3>1. CASE Fork
      BY <2>2, <3>1, ExecAssumption DEF Fork, Live, Members, TypeOK
    <3>2. CASE Leave \/ CloseOutput \/ LeaderExits \/ KidExits \/ NumberReused
      BY <2>2, <3>2
         DEF Leave, CloseOutput, LeaderExits, KidExits, NumberReused, Members, TypeOK
    <3> QED BY <1>1, <3>1, <3>2 DEF Processes
  <2> QED BY <2>1, <2>2 DEF Stage
<1>2. CASE TimeOut
  <2>1. CASE Waited = "reaped"
    BY <1>2, <2>1 DEF TimeOut
  <2>2. CASE Waited # "reaped"
    <3>1. leader = "running" /\ Waited = "running"
      BY <1>2, <2>2 DEF TimeOut, TypeOK, Stage, Waited
    <3>2. Members' = {}
      BY <1>2, <3>1, KillGroupType DEF TimeOut, Terminate
    <3> QED BY <1>2, <3>2 DEF TimeOut
  <2> QED BY <2>1, <2>2
<1>3. CASE DropRun
  <2>1. CASE armed
    <3>1. leader \in {"running", "zombie", "reaped"}
      BY <1>3 DEF DropRun, TypeOK, Stage
    <3> QED BY <1>3, <2>1, <3>1, KillGroupType DEF DropRun
  <2>2. CASE ~armed
    <3>1. pc = "reaping" /\ ~early /\ kid' = kid
      BY <1>3, <2>2 DEF DropRun, KillLeader, Stage
    <3>2. Members' = Members
      BY <3>1 DEF Members
    <3> QED BY <1>3, <3>1, <3>2 DEF DropRun
  <2> QED BY <2>1, <2>2
<1>4. CASE SpawnFails \/ Spawn \/ Expire \/ Reap \/ Complete \/ Reaped \/ OrphanReaped
  BY <1>4 DEF SpawnFails, Spawn, Expire, Reap, Complete, Reaped, OrphanReaped, Members,
              system
<1>5. CASE UNCHANGED vars
  BY <1>5 DEF vars, system, Members
<1> QED BY <1>1, <1>2, <1>3, <1>4, <1>5 DEF Next, Runtime, Over

(* An abandoned command leaves no member of its group behind, but for a      *)
(* timeout that finds the leader gone already.                               *)
THEOREM GroupGoneCorrect == Spec => []GroupGone
<1>1. Init => GroupGone
  BY DEF Init, GroupGone
<1> QED BY <1>1, GroupStep, TypedAlways, PTL DEF Spec

-----------------------------------------------------------------------------
(* Whom a signal reaches.                                                    *)

(* Nobody is signalled before the join is left.                              *)
Aimed ==
  /\ SignalsAimed
  /\ pc \in {"spawn", "failed"} => hit = "none"

(* Only the timeout and the drop signal, and the number is the group's own   *)
(* as long as its leader is not reaped.                                      *)
LEMMA AimedStep == Typed /\ Aimed /\ [Next]_vars => Aimed'
<1> SUFFICES ASSUME Typed, Aimed, [Next]_vars PROVE Aimed'
  OBVIOUS
<1> USE DEF Typed, Aimed, SignalsAimed
<1>1. CASE Processes \/ Over \/ UNCHANGED vars
  <2>1. UNCHANGED <<pc, hit>> /\ (leader = "reaped" => leader' = "reaped")
    BY <1>1 DEF Processes, Fork, Leave, CloseOutput, LeaderExits, KidExits, NumberReused,
                Over, vars, system
  <2> QED BY <2>1
<1>2. CASE TimeOut
  <2>1. CASE Waited = "reaped"
    BY <1>2, <2>1 DEF TimeOut, Terminate, KillLeader
  <2>2. CASE Waited # "reaped"
    BY <1>2, <2>2 DEF TimeOut, Terminate, KillGroup
  <2> QED BY <2>1, <2>2
<1>3. CASE DropRun
  <2>1. hit # "stranger"
    BY <1>3 DEF DropRun
  <2>2. CASE armed
    BY <1>3, <2>1, <2>2 DEF DropRun, KillGroup
  <2>3. CASE ~armed
    BY <1>3, <2>1, <2>3 DEF DropRun, KillLeader
  <2> QED BY <2>2, <2>3
<1>4. CASE SpawnFails \/ Spawn \/ Expire \/ Reap \/ Complete \/ Reaped \/ OrphanReaped
  BY <1>4 DEF SpawnFails, Spawn, Expire, Reap, Complete, Reaped, OrphanReaped
<1> QED BY <1>1, <1>2, <1>3, <1>4 DEF Next, Runtime

(* A command that ends by itself is not signalled, and a timeout never       *)
(* reaches a group that has got the number since.                            *)
THEOREM SignalsAimedCorrect == Spec => []SignalsAimed
<1>1. Init => Aimed
  BY DEF Init, Aimed, SignalsAimed
<1>2. Spec => []Aimed
  BY <1>1, AimedStep, TypedAlways, PTL DEF Spec
<1> QED BY <1>2, PTL DEF Aimed
=============================================================================
