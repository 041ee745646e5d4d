-------------------------- MODULE SupervisorProofs --------------------------
(***************************************************************************)
(* Proofs about Supervisor, for any number of ids, configurations, applies *)
(* and tasks.                                                              *)
(***************************************************************************)
EXTENDS Supervisor, TLAPS

USE DesiresAssumption, BoundsAssumption, NoneAssumption

(* The labels at which a task works with the configuration it took, and    *)
(* those at which its connection has been begun.                           *)
Using  == {"connect", "connecting", "request", "dialing", "connected", "marking", "forward"}
Dialed == {"dialing", "connected", "marking", "forward"}

(* What a step of a task may do at all, whichever it is.  It moves its     *)
(* task on, ends it only if it was stopped, and touches nothing of the     *)
(* supervisor's; the configuration and the certificate setting a           *)
(* connection has are the ones in force when they were read.               *)
Moves(t) ==
  /\ Alive(t)
  /\ at' = [at EXCEPT ![t] = at'[t]]
  /\ at'[t] \in Labels \ {"none"}
  /\ at'[t] = "dead" => t \in stopped
  /\ at'[t] \in Using => \/ at[t] \in Using /\ used'[t] = used[t]
                         \/ used'[t] = config[rt[t]]
  /\ at'[t] \in Dialed => \/ at[t] \in Dialed /\ ssl'[t] = ssl[t]
                          \/ ssl'[t] = insecure
  /\ \A u \in Tasks \ {t} : used'[u] = used[u] /\ ssl'[u] = ssl[u]
  /\ UNCHANGED <<applyVars, tableVars, tasks, rt, stopped>>

(* The parts of a task's state keep their types. *)
TaskTypes ==
  /\ at \in [Tasks -> Labels]
  /\ used \in [Tasks -> Entry \cup {Absent}]
  /\ ssl \in [Tasks -> BOOLEAN]
  /\ shown \in [Runtimes -> States]
  /\ gauge \in [Ids -> BOOLEAN]

(* A task that began has a runtime, and its runtime has an id and a        *)
(* configuration.                                                          *)
LEMMA TaskHasRuntime ==
  ASSUME TypeOK, NEW t \in Tasks, at[t] # "none"
  PROVE  /\ t \in 1..tasks
         /\ rt[t] \in Runtimes
         /\ idOf[rt[t]] \in Ids
         /\ config[rt[t]] \in Entry
  <1>1. t \in 1..tasks
    BY DEF TypeOK, Tasks
  <1>2. rt[t] \in 1..runtimes
    BY <1>1 DEF TypeOK
  <1> QED
    BY <1>1, <1>2 DEF TypeOK, Runtimes

LEMMA TaskStep ==
  ASSUME TypeOK, NEW t \in Tasks, Sync(t) \/ Async(t) \/ Drop(t)
  PROVE  Moves(t) /\ TaskTypes'
  <1>1. /\ TaskTypes /\ insecure \in BOOLEAN
        /\ at[t] # "none" => /\ rt[t] \in Runtimes /\ idOf[rt[t]] \in Ids
                             /\ config[rt[t]] \in Entry
    BY TaskHasRuntime DEF TypeOK, TaskTypes
  <1> USE DEF TaskTypes, Alive, Moves, Using, Dialed, Labels, States, Goto, Show,
              Mark, Step, applyVars, tableVars, statusVars
  <1>2. CASE Return(t)
    BY <1>1, <1>2 DEF Return
  <1>3. CASE Snapshot(t)
    BY <1>1, <1>3 DEF Snapshot
  <1>4. CASE Disable(t)
    BY <1>1, <1>4 DEF Disable
  <1>5. CASE Pause(t)
    BY <1>1, <1>5 DEF Pause
  <1>6. CASE Connect(t)
    BY <1>1, <1>6 DEF Connect
  <1>7. CASE BadRequest(t)
    BY <1>1, <1>7 DEF BadRequest
  <1>8. CASE Dial(t)
    BY <1>1, <1>8 DEF Dial
  <1>9. CASE Connected(t)
    BY <1>1, <1>9 DEF Connected
  <1>10. CASE MarkConnected(t)
    BY <1>1, <1>10 DEF MarkConnected
  <1>11. CASE MarkDisconnected(t)
    BY <1>1, <1>11 DEF MarkDisconnected
  <1>12. CASE Disconnected(t)
    BY <1>1, <1>12 DEF Disconnected
  <1>13. CASE Wait(t)
    BY <1>1, <1>13 DEF Wait
  <1>14. CASE Poll(t)
    BY <1>1, <1>14 DEF Poll
  <1>15. CASE DialFails(t)
    BY <1>1, <1>15 DEF DialFails
  <1>16. CASE DialDone(t)
    BY <1>1, <1>16 DEF DialDone
  <1>17. CASE ForwardEnds(t)
    BY <1>1, <1>17 DEF ForwardEnds
  <1>18. CASE Drop(t)
    BY <1>1, <1>18 DEF Drop, Awaits
  <1>19. CASE GoOn(t)
    BY <1>1, <1>19 DEF GoOn, Past
  <1> QED
    BY <1>2, <1>3, <1>4, <1>5, <1>6, <1>7, <1>8, <1>9, <1>10, <1>11, <1>12,
       <1>13, <1>14, <1>15, <1>16, <1>17, <1>18, <1>19 DEF Sync, Async
-----------------------------------------------------------------------------
(* Type correctness. *)

LEMMA InitTypeOK == Init => TypeOK
  <1> SUFFICES ASSUME Init PROVE TypeOK
    OBVIOUS
  <1> USE DEF Init
  <1>1. /\ desired \in [Ids -> Entry \cup {Absent}]
        /\ todo \subseteq {id \in Ids : desired[id] # Absent}
        /\ listed \in [Ids -> 1..runtimes \cup {None}]
        /\ managed \in [Ids -> 1..tasks \cup {None}]
        /\ \A id \in Ids : listed[id] # None => idOf[listed[id]] = id
    OBVIOUS
  <1>2. /\ runtimes \in 0..MaxRuntimes /\ tasks \in 0..MaxTasks
        /\ applies \in 0..MaxApplies
    OBVIOUS
  <1>3. /\ idOf \in [Runtimes -> Ids \cup {None}]
        /\ config \in [Runtimes -> Entry \cup {Absent}]
        /\ \A r \in 1..runtimes : idOf[r] # None /\ config[r] # Absent
        /\ shown \in [Runtimes -> States]
        /\ gauge \in [Ids -> BOOLEAN]
    BY DEF States, Runtimes
  <1>4. /\ at \in [Tasks -> Labels]
        /\ \A t \in Tasks : (at[t] = "none") = (t > tasks)
        /\ rt \in [Tasks -> 1..runtimes \cup {None}]
        /\ \A t \in 1..tasks : rt[t] # None
        /\ used \in [Tasks -> Entry \cup {Absent}]
        /\ ssl \in [Tasks -> BOOLEAN]
        /\ stopped \subseteq 1..tasks
    BY DEF Labels, Tasks
  <1> QED
    BY <1>1, <1>2, <1>3, <1>4 DEF TypeOK

LEMMA TaskTypeOK ==
  ASSUME TypeOK, NEW t \in Tasks, Moves(t), TaskTypes'
  PROVE  TypeOK'
  BY DEF TypeOK, Moves, TaskTypes, Alive, applyVars, tableVars, Tasks, Runtimes

LEMMA TaskOfType ==
  ASSUME TypeOK, NEW id \in Ids PROVE TaskOf(id) \subseteq 1..tasks
  <1>1. managed[id] \in 1..tasks \cup {None}
    BY DEF TypeOK
  <1>2. CASE managed[id] = None
    BY <1>2 DEF TaskOf
  <1>3. CASE managed[id] \in 1..tasks
    <2>1. TaskOf(id) \subseteq {managed[id]}
      BY DEF TaskOf
    <2> QED
      BY <1>3, <2>1
  <1> QED
    BY <1>1, <1>2, <1>3

(* A new task: the one before it is stopped, and nothing else is.          *)
LEMMA SpawnTypes ==
  ASSUME TypeOK, NEW id \in Ids, NEW r \in 1..runtimes', Spawn(id, r),
         runtimes' >= runtimes, runtimes' \in 0..MaxRuntimes
  PROVE  /\ tasks' \in 0..MaxTasks
         /\ managed' \in [Ids -> 1..tasks' \cup {None}]
         /\ at' \in [Tasks -> Labels]
         /\ \A t \in Tasks : (at'[t] = "none") = (t > tasks')
         /\ rt' \in [Tasks -> 1..runtimes' \cup {None}]
         /\ \A t \in 1..tasks' : rt'[t] # None
         /\ stopped' \subseteq 1..tasks'
         /\ UNCHANGED <<used, ssl>>
  <1> DEFINE t == tasks + 1
  <1>1. /\ tasks \in Nat /\ tasks' = t /\ t \in Tasks /\ t \in 1..tasks'
        /\ tasks' \in 0..MaxTasks
        /\ managed' = [managed EXCEPT ![id] = t]
        /\ at' = [at EXCEPT ![t] = "spawned"]
        /\ rt' = [rt EXCEPT ![t] = r]
        /\ stopped' = stopped \cup TaskOf(id)
        /\ UNCHANGED <<used, ssl>>
    BY DEF TypeOK, Spawn, Tasks
  <1>2. /\ 1..tasks \subseteq 1..tasks'
        /\ 1..runtimes \subseteq 1..runtimes'
        /\ r # None
    BY <1>1 DEF TypeOK, Runtimes
  <1> HIDE DEF t
  <1>3. managed' \in [Ids -> 1..tasks' \cup {None}]
    BY <1>1, <1>2 DEF TypeOK
  <1>4. at' \in [Tasks -> Labels]
    BY <1>1 DEF TypeOK, Labels
  <1>5. ASSUME NEW u \in Tasks PROVE (at'[u] = "none") = (u > tasks')
    BY <1>1 DEF TypeOK, Tasks, t
  <1>6. rt' \in [Tasks -> 1..runtimes' \cup {None}]
    BY <1>1, <1>2 DEF TypeOK
  <1>7. ASSUME NEW u \in 1..tasks' PROVE rt'[u] # None
    BY <1>1, <1>2 DEF TypeOK, Tasks, t
  <1>8. stopped' \subseteq 1..tasks'
    BY <1>1, <1>2, TaskOfType DEF TypeOK
  <1> QED
    BY <1>1, <1>3, <1>4, <1>5, <1>6, <1>7, <1>8

LEMMA AddRuntimeTypes ==
  ASSUME TypeOK, NEW id \in Ids, AddRuntime(id)
  PROVE  /\ runtimes' = runtimes + 1
         /\ runtimes' \in 0..MaxRuntimes
         /\ listed' \in [Ids -> 1..runtimes' \cup {None}]
         /\ listed'[id] # None
         /\ idOf' \in [Runtimes -> Ids \cup {None}]
         /\ config' \in [Runtimes -> Entry \cup {Absent}]
         /\ \A r \in 1..runtimes' : idOf'[r] # None /\ config'[r] # Absent
         /\ \A i \in Ids : listed'[i] # None => idOf'[listed'[i]] = i
  BY DEF TypeOK, AddRuntime, Runtimes

LEMMA ApplyTypeOK == ASSUME TypeOK, Apply PROVE TypeOK'
  <1> USE DEF TypeOK, applyVars, tableVars, statusVars, taskVars
  <1>1. ASSUME NEW want \in Desires, NEW ignore \in BOOLEAN,
               BeginApply(want, ignore)
        PROVE TypeOK'
    BY <1>1 DEF BeginApply
  <1>2. ASSUME NEW id \in Ids, RemoveSource(id) PROVE TypeOK'
    BY <1>2, TaskOfType DEF RemoveSource
  <1>3. ASSUME NEW id \in Ids, UpdateConfig(id) PROVE TypeOK'
    BY <1>3 DEF UpdateConfig, Runtimes
  <1>4. ASSUME NEW id \in Ids, AddEnabled(id) PROVE TypeOK'
    <2>1. AddRuntime(id) /\ Spawn(id, runtimes + 1)
      BY <1>4 DEF AddEnabled
    <2>2. runtimes + 1 \in 1..runtimes' /\ runtimes' >= runtimes
      BY <2>1, AddRuntimeTypes
    <2> HIDE DEF TypeOK
    <2>3. /\ tasks' \in 0..MaxTasks
          /\ managed' \in [Ids -> 1..tasks' \cup {None}]
          /\ at' \in [Tasks -> Labels]
          /\ \A t \in Tasks : (at'[t] = "none") = (t > tasks')
          /\ rt' \in [Tasks -> 1..runtimes' \cup {None}]
          /\ \A t \in 1..tasks' : rt'[t] # None
          /\ stopped' \subseteq 1..tasks'
          /\ UNCHANGED <<used, ssl>>
      BY <2>1, <2>2, AddRuntimeTypes, SpawnTypes
    <2>4. /\ sup' = "each"
          /\ todo' = todo \ {id}
          /\ UNCHANGED <<desired, insecure, sslChanged, prev, applies, shown, gauge>>
      BY <1>4 DEF AddEnabled, AddRuntime, statusVars
    <2> QED
      BY <2>1, <2>3, <2>4, AddRuntimeTypes DEF TypeOK
  <1>5. ASSUME NEW id \in Ids, AddDisabled(id) PROVE TypeOK'
    <2>1. AddRuntime(id)
      BY <1>5 DEF AddDisabled
    <2>2. 1..runtimes \subseteq 1..runtimes'
      BY <2>1, AddRuntimeTypes
    <2>3. rt \in [Tasks -> 1..runtimes' \cup {None}]
      BY <2>2
    <2>4. /\ sup' = "mark" /\ cur' = id /\ desired[id] # Absent
          /\ todo' = todo \ {id}
          /\ UNCHANGED <<desired, insecure, sslChanged, prev, applies, shown,
                         gauge, managed, tasks, at, rt, used, ssl, stopped>>
      BY <1>5 DEF AddDisabled, AddRuntime
    <2> QED
      BY <2>1, <2>3, <2>4, AddRuntimeTypes
  <1>6. CASE Retain
    BY <1>6 DEF Retain
  <1>7. CASE StopDisabled
    BY <1>7, TaskOfType DEF StopDisabled
  <1>8. CASE Restart
    BY <1>8, SpawnTypes DEF Restart
  <1>9. CASE Keep
    BY <1>9 DEF Keep
  <1>10. CASE MarkDisabled
    BY <1>10 DEF MarkDisabled
  <1>11. CASE ShowDisabled
    BY <1>11 DEF ShowDisabled, States
  <1>12. CASE EndApply
    BY <1>12 DEF EndApply
  <1> QED
    BY <1>1, <1>2, <1>3, <1>4, <1>5, <1>6, <1>7, <1>8, <1>9, <1>10, <1>11, <1>12
    DEF Apply

LEMMA StepTypeOK == ASSUME TypeOK, [Next]_vars PROVE TypeOK'
  <1>1. CASE UNCHANGED vars
    BY <1>1 DEF vars, TypeOK
  <1>2. CASE Apply
    BY <1>2, ApplyTypeOK
  <1>3. ASSUME NEW t \in Tasks, Sync(t) \/ Async(t) \/ Drop(t) PROVE TypeOK'
    BY <1>3, TaskStep, TaskTypeOK
  <1> QED
    BY <1>1, <1>2, <1>3 DEF Next

(* sources.rs:36-134: the types hold, and the supervisor, while it is at a *)
(* source, has its runtime listed.                                         *)
THEOREM TypeCorrect == Spec => []TypeOK
  BY InitTypeOK, StepTypeOK, PTL DEF Spec
-----------------------------------------------------------------------------
(* No task is out of reach: InReach, and its converse Kept.                *)

(* A task that is kept is alive, not stopped, and runs the runtime listed. *)
KeptAt(id) ==
  managed[id] # None =>
    /\ Alive(managed[id])
    /\ managed[id] \notin stopped
    /\ rt[managed[id]] = listed[id]

Kept == \A id \in Ids : KeptAt(id)

LEMMA KeptTask ==
  ASSUME TypeOK, Kept, NEW id \in Ids, managed[id] # None
  PROVE  /\ managed[id] \in 1..tasks
         /\ managed[id] \in Tasks
         /\ listed[id] \in 1..runtimes
         /\ IdOf(managed[id]) = id
  <1>1. managed[id] \in 1..tasks /\ managed[id] \in Tasks
    BY DEF TypeOK, Tasks
  <1>2. rt[managed[id]] # None /\ rt[managed[id]] = listed[id]
    BY <1>1 DEF TypeOK, Kept, KeptAt
  <1>3. listed[id] \in 1..runtimes
    BY <1>2 DEF TypeOK
  <1> QED
    BY <1>1, <1>2, <1>3 DEF TypeOK, IdOf

LEMMA TaskReach ==
  ASSUME TypeOK, Kept, InReach, NEW t \in Tasks, Moves(t)
  PROVE  Kept' /\ InReach'
  <1>1. /\ UNCHANGED <<listed, managed, idOf, rt, stopped>>
        /\ at' = [at EXCEPT ![t] = at'[t]]
        /\ Alive(t)
        /\ at \in [Tasks -> Labels]
        /\ at'[t] # "none"
        /\ at'[t] = "dead" => t \in stopped
    BY DEF Moves, tableVars, TypeOK
  <1>2. ASSUME NEW u \in Tasks, Alive(u)' PROVE Alive(u)
    BY <1>1, <1>2 DEF Alive
  <1>3. InReach'
    BY <1>1, <1>2 DEF InReach, IdOf
  <1>4. ASSUME NEW id \in Ids PROVE KeptAt(id)'
    <2>1. CASE managed[id] = None
      BY <1>1, <2>1 DEF KeptAt
    <2>2. CASE managed[id] # None
      BY <1>1, <2>2, KeptTask DEF Kept, KeptAt, Alive
    <2> QED
      BY <2>1, <2>2
  <1> QED
    BY <1>3, <1>4 DEF Kept

(* stop_task: what was kept for an id is stopped, so nothing is missed. *)
LEMMA StopReach ==
  ASSUME TypeOK, Kept, InReach, NEW id \in Ids,
         stopped' = stopped \cup TaskOf(id),
         managed' = [managed EXCEPT ![id] = None],
         \A i \in Ids \ {id} : listed'[i] = listed[i],
         UNCHANGED <<idOf, rt, at>>
  PROVE  Kept' /\ InReach'
  <1>1. ASSUME NEW i \in Ids PROVE KeptAt(i)'
    <2>1. CASE i = id
      BY <2>1 DEF KeptAt, TypeOK
    <2>2. CASE i # id /\ managed[i] # None
      <3>1. managed[i] \notin TaskOf(id)
        BY <2>2, KeptTask DEF TaskOf
      <3> QED
        BY <2>2, <3>1 DEF KeptAt, Kept, Alive, TypeOK
    <2>3. CASE i # id /\ managed[i] = None
      BY <2>3 DEF KeptAt, TypeOK
    <2> QED
      BY <2>1, <2>2, <2>3
  <1>2. ASSUME NEW u \in Tasks, Alive(u)', u \notin stopped'
        PROVE  managed'[IdOf(u)'] = u /\ listed'[IdOf(u)'] = rt'[u]
    <2>1. Alive(u) /\ u \notin stopped /\ u \notin TaskOf(id) /\ IdOf(u)' = IdOf(u)
      BY <1>2 DEF Alive, IdOf
    <2>2. IdOf(u) \in Ids
      BY <2>1, TaskHasRuntime DEF IdOf, Alive
    <2>3. managed[IdOf(u)] = u /\ listed[IdOf(u)] = rt[u]
      BY <2>1 DEF InReach
    <2>4. u # None
      BY DEF Tasks
    <2>5. IdOf(u) # id
      BY <2>1, <2>3, <2>4 DEF TaskOf
    <2> QED
      BY <2>1, <2>2, <2>3, <2>5 DEF TypeOK
  <1> QED
    BY <1>1, <1>2 DEF Kept, InReach

(* spawn_task: it is the one that is kept now, and the one before it is    *)
(* stopped.                                                                *)
LEMMA SpawnReach ==
  ASSUME TypeOK, Kept, InReach, NEW id \in Ids, NEW r, Spawn(id, r),
         listed'[id] = r, idOf'[r] = id,
         \A i \in Ids \ {id} : listed'[i] = listed[i],
         \A q \in 1..runtimes : idOf'[q] = idOf[q],
         listed[id] # None => listed[id] = r
  PROVE  Kept' /\ InReach'
  <1> DEFINE new == tasks + 1
  <1>1. /\ new \in Tasks /\ new \notin 1..tasks
        /\ managed' = [managed EXCEPT ![id] = new]
        /\ at' = [at EXCEPT ![new] = "spawned"]
        /\ rt' = [rt EXCEPT ![new] = r]
        /\ stopped' = stopped \cup TaskOf(id)
    BY DEF Spawn, Tasks, TypeOK
  <1>2. new \notin stopped'
    BY <1>1, TaskOfType DEF TypeOK
  <1> HIDE DEF new
  <1>3. ASSUME NEW i \in Ids PROVE KeptAt(i)'
    <2>1. CASE i = id
      BY <1>1, <1>2, <2>1 DEF KeptAt, Alive, TypeOK
    <2>2. CASE i # id /\ managed[i] = None
      BY <1>1, <2>2 DEF KeptAt, TypeOK
    <2>3. CASE i # id /\ managed[i] # None
      <3>1. managed[i] \notin TaskOf(id) /\ managed[i] # new /\ managed[i] \in Tasks
        BY <1>1, <2>3, KeptTask DEF TaskOf
      <3> QED
        BY <1>1, <2>3, <3>1 DEF KeptAt, Kept, Alive, TypeOK
    <2> QED
      BY <2>1, <2>2, <2>3
  <1>4. ASSUME NEW u \in Tasks, Alive(u)', u \notin stopped'
        PROVE  managed'[IdOf(u)'] = u /\ listed'[IdOf(u)'] = rt'[u]
    <2>1. CASE u = new
      BY <1>1, <2>1 DEF IdOf, TypeOK
    <2>2. CASE u # new
      <3>1. /\ Alive(u) /\ u \notin stopped /\ u \notin TaskOf(id)
            /\ rt'[u] = rt[u]
        BY <1>1, <1>4, <2>2 DEF Alive, TypeOK
      <3>2. u \in 1..tasks /\ rt[u] \in 1..runtimes /\ IdOf(u) \in Ids
        <4>1. u \in 1..tasks /\ IdOf(u) \in Ids
          BY <3>1, TaskHasRuntime DEF Alive, IdOf
        <4> QED
          BY <4>1 DEF TypeOK
      <3>3. IdOf(u)' = IdOf(u)
        BY <3>1, <3>2 DEF IdOf
      <3>4. managed[IdOf(u)] = u /\ listed[IdOf(u)] = rt[u]
        BY <3>1 DEF InReach
      <3>5. IdOf(u) # id
        BY <3>1, <3>4 DEF TaskOf, Tasks
      <3> QED
        BY <1>1, <3>1, <3>2, <3>3, <3>4, <3>5 DEF TypeOK
    <2> QED
      BY <2>1, <2>2
  <1> QED
    BY <1>3, <1>4 DEF Kept, InReach

(* A step of apply that touches none of this. *)
LEMMA SameReach ==
  ASSUME Kept, InReach, UNCHANGED <<listed, managed, idOf, rt, at, stopped>>
  PROVE  Kept' /\ InReach'
  BY DEF Kept, KeptAt, InReach, Alive, IdOf

LEMMA ApplyReach ==
  ASSUME TypeOK, Kept, InReach, Apply PROVE Kept' /\ InReach'
  <1> USE DEF applyVars, tableVars, statusVars, taskVars
  <1>1. ASSUME NEW want \in Desires, NEW ignore \in BOOLEAN,
               BeginApply(want, ignore)
        PROVE  Kept' /\ InReach'
    BY <1>1, SameReach DEF BeginApply
  <1>2. ASSUME NEW id \in Ids, RemoveSource(id) PROVE Kept' /\ InReach'
    <2>1. \A i \in Ids \ {id} : listed'[i] = listed[i]
      BY <1>2 DEF RemoveSource, TypeOK
    <2> QED
      BY <1>2, <2>1, StopReach DEF RemoveSource
  <1>3. ASSUME NEW id \in Ids, UpdateConfig(id) PROVE Kept' /\ InReach'
    BY <1>3, SameReach DEF UpdateConfig
  <1>4. ASSUME NEW id \in Ids, AddEnabled(id) PROVE Kept' /\ InReach'
    <2>1. AddRuntime(id) /\ Spawn(id, runtimes + 1) /\ listed[id] = None
      BY <1>4 DEF AddEnabled, AddRuntime
    <2>2. /\ listed'[id] = runtimes + 1 /\ idOf'[runtimes + 1] = id
          /\ \A i \in Ids \ {id} : listed'[i] = listed[i]
          /\ \A q \in 1..runtimes : idOf'[q] = idOf[q]
      BY <2>1 DEF AddRuntime, TypeOK, Runtimes
    <2> QED
      BY <2>1, <2>2, SpawnReach
  <1>5. ASSUME NEW id \in Ids, AddDisabled(id) PROVE Kept' /\ InReach'
    <2>1. /\ AddRuntime(id) /\ listed[id] = None
          /\ UNCHANGED <<managed, rt, at, stopped>>
      BY <1>5 DEF AddDisabled, AddRuntime
    <2>2. /\ \A i \in Ids \ {id} : listed'[i] = listed[i]
          /\ \A q \in 1..runtimes : idOf'[q] = idOf[q]
      BY <2>1 DEF AddRuntime, TypeOK, Runtimes
    <2>3. managed[id] = None
      BY <2>1, KeptTask DEF TypeOK, Runtimes
    <2>4. ASSUME NEW i \in Ids PROVE KeptAt(i)'
      BY <2>1, <2>2, <2>3 DEF Kept, KeptAt, Alive
    <2>5. ASSUME NEW u \in Tasks, Alive(u)', u \notin stopped'
          PROVE  managed'[IdOf(u)'] = u /\ listed'[IdOf(u)'] = rt'[u]
      <3>1. Alive(u) /\ u \notin stopped
        BY <2>1, <2>5 DEF Alive
      <3>2. u \in 1..tasks /\ rt[u] \in 1..runtimes /\ IdOf(u) \in Ids
        <4>1. u \in 1..tasks /\ IdOf(u) \in Ids
          BY <3>1, TaskHasRuntime DEF Alive, IdOf
        <4> QED
          BY <4>1 DEF TypeOK
      <3>3. IdOf(u)' = IdOf(u)
        BY <2>1, <2>2, <3>2 DEF IdOf
      <3>4. managed[IdOf(u)] = u /\ listed[IdOf(u)] = rt[u]
        BY <3>1 DEF InReach
      <3>5. IdOf(u) # id
        BY <2>3, <3>4 DEF Tasks
      <3> QED
        BY <2>1, <2>2, <3>2, <3>3, <3>4, <3>5
    <2> QED
      BY <2>4, <2>5 DEF Kept, InReach
  <1>6. CASE Retain
    <2>1. /\ UNCHANGED <<managed, idOf, rt, at, stopped>>
          /\ \A i \in Ids : managed[i] # None => listed'[i] = listed[i]
      BY <1>6 DEF Retain
    <2>2. ASSUME NEW u \in Tasks, Alive(u)', u \notin stopped'
          PROVE  managed'[IdOf(u)'] = u /\ listed'[IdOf(u)'] = rt'[u]
      <3>1. Alive(u) /\ u \notin stopped /\ IdOf(u)' = IdOf(u)
        BY <2>1, <2>2 DEF Alive, IdOf
      <3>2. IdOf(u) \in Ids
        BY <3>1, TaskHasRuntime DEF Alive, IdOf
      <3>3. managed[IdOf(u)] = u /\ listed[IdOf(u)] = rt[u] /\ u # None
        BY <3>1 DEF InReach, Tasks
      <3> QED
        BY <2>1, <3>1, <3>2, <3>3
    <2> QED
      BY <2>1, <2>2 DEF Kept, KeptAt, InReach, Alive
  <1>7. CASE StopDisabled
    BY <1>7, StopReach DEF StopDisabled, TypeOK
  <1>8. CASE Restart
    <2>1. cur \in Ids /\ listed[cur] # None /\ listed[cur] \in 1..runtimes
      BY <1>8 DEF Restart, TypeOK
    <2>2. idOf[listed[cur]] = cur
      BY <2>1 DEF TypeOK
    <2> QED
      BY <1>8, <2>1, <2>2, SpawnReach DEF Restart
  <1>9. CASE Keep
    BY <1>9, SameReach DEF Keep
  <1>10. CASE MarkDisabled
    BY <1>10, SameReach DEF MarkDisabled
  <1>11. CASE ShowDisabled
    BY <1>11, SameReach DEF ShowDisabled
  <1>12. CASE EndApply
    BY <1>12, SameReach DEF EndApply
  <1> QED
    BY <1>1, <1>2, <1>3, <1>4, <1>5, <1>6, <1>7, <1>8, <1>9, <1>10, <1>11, <1>12
    DEF Apply

LEMMA StepReach ==
  ASSUME TypeOK, Kept, InReach, [Next]_vars PROVE Kept' /\ InReach'
  <1>1. CASE UNCHANGED vars
    BY <1>1, SameReach DEF vars
  <1>2. CASE Apply
    BY <1>2, ApplyReach
  <1>3. ASSUME NEW t \in Tasks, Sync(t) \/ Async(t) \/ Drop(t)
        PROVE  Kept' /\ InReach'
    BY <1>3, TaskStep, TaskReach
  <1> QED
    BY <1>1, <1>2, <1>3 DEF Next

(* sources.rs:157-181: every task that was not stopped is the one kept for *)
(* its id and runs the runtime listed, so no id ever has two.              *)
THEOREM InReachCorrect == Spec => []InReach
  <1>1. Init => Kept /\ InReach
    BY DEF Init, Kept, KeptAt, InReach, Alive
  <1>2. TypeOK /\ Kept /\ InReach /\ [Next]_vars => Kept' /\ InReach'
    BY StepReach
  <1> QED
    BY <1>1, <1>2, TypeCorrect, PTL DEF Spec
-----------------------------------------------------------------------------
(* What apply has done so far.  An id is Done when the loop is past it.    *)

Settled(id) ==
  /\ listed[id] = None <=> desired[id] = Absent
  /\ desired[id] # Absent =>
       /\ config[listed[id]] = desired[id]
       /\ managed[id] # None <=> ~desired[id].disabled

Applying ==
  /\ \A id \in Ids : Done(id) => Settled(id)
  /\ sup \in {"listed", "mark", "show"} => cur \notin todo
  /\ sup = "listed" => config[listed[cur]] = desired[cur]
  /\ sup \in {"mark", "show"} => desired[cur].disabled

LEMMA SameApplying ==
  ASSUME Applying, UNCHANGED <<applyVars, tableVars>> PROVE Applying'
  BY DEF Applying, Done, Ongoing, Settled, applyVars, tableVars

(* No two ids have the same runtime. *)
LEMMA ListedApart ==
  ASSUME TypeOK, NEW id \in Ids, NEW i \in Ids \ {id}, listed[i] # None
  PROVE  listed[i] \in 1..runtimes /\ listed[i] \in Runtimes /\ listed[i] # listed[id]
  BY DEF TypeOK, Runtimes

LEMMA AddApplying ==
  ASSUME TypeOK, Applying, NEW id \in Ids, AddRuntime(id),
         NEW i \in Ids \ {id}, managed'[i] = managed[i], sup' # "listed", Done(i)'
  PROVE  Settled(i)'
  <1>1. Settled(i)
    BY DEF Applying, Done, Ongoing, AddRuntime
  <1>2. listed'[i] = listed[i] /\ desired' = desired
    BY DEF AddRuntime, TypeOK
  <1>3. listed[i] # None => config'[listed[i]] = config[listed[i]]
    BY ListedApart DEF AddRuntime, TypeOK, Runtimes
  <1> QED
    BY <1>1, <1>2, <1>3 DEF Settled

LEMMA ApplyApplying ==
  ASSUME TypeOK, Kept, Applying, Apply PROVE Applying'
  <1>1. ASSUME NEW want \in Desires, NEW ignore \in BOOLEAN,
               BeginApply(want, ignore)
        PROVE  Applying'
    BY <1>1 DEF BeginApply, Applying, Done
  <1>2. ASSUME NEW id \in Ids, RemoveSource(id) PROVE Applying'
    BY <1>2 DEF RemoveSource, Applying, Done, applyVars
  <1>3. ASSUME NEW id \in Ids, UpdateConfig(id) PROVE Applying'
    <2>1. /\ sup = "each" /\ sup' = "listed" /\ cur' = id /\ todo' = todo \ {id}
          /\ listed[id] # None
          /\ config' = [config EXCEPT ![listed[id]] = desired[id]]
          /\ UNCHANGED <<listed, managed, desired>>
      BY <1>3 DEF UpdateConfig
    <2>2. config'[listed'[cur']] = desired'[cur']
      BY <2>1 DEF TypeOK, Runtimes
    <2>3. ASSUME NEW i \in Ids, Done(i)' PROVE Settled(i)'
      <3>1. i # id /\ Settled(i)
        BY <2>1, <2>3 DEF Applying, Done, Ongoing
      <3>2. listed[i] # None => config'[listed[i]] = config[listed[i]]
        BY <2>1, <3>1, ListedApart DEF TypeOK
      <3> QED
        BY <2>1, <3>1, <3>2 DEF Settled
    <2> QED
      BY <2>1, <2>2, <2>3 DEF Applying
  <1>4. ASSUME NEW id \in Ids, AddEnabled(id) PROVE Applying'
    <2>1. /\ AddRuntime(id) /\ sup' = "each" /\ ~desired[id].disabled
          /\ managed' = [managed EXCEPT ![id] = tasks + 1]
          /\ tasks + 1 \in Tasks
      BY <1>4 DEF AddEnabled, Spawn, TypeOK, Tasks
    <2>2. Settled(id)'
      BY <2>1 DEF AddRuntime, Settled, TypeOK, Runtimes
    <2>3. ASSUME NEW i \in Ids \ {id}, Done(i)' PROVE Settled(i)'
      BY <2>1, <2>3, AddApplying DEF TypeOK
    <2> QED
      BY <2>1, <2>2, <2>3 DEF Applying
  <1>5. ASSUME NEW id \in Ids, AddDisabled(id) PROVE Applying'
    <2>1. /\ AddRuntime(id) /\ sup' = "mark" /\ desired[id].disabled
          /\ managed' = managed /\ cur' = id /\ desired' = desired
          /\ listed[id] = None /\ todo' = todo \ {id}
      BY <1>5 DEF AddDisabled, AddRuntime
    <2>2. managed[id] = None
      BY <2>1, KeptTask DEF TypeOK, Runtimes
    <2>3. Settled(id)'
      BY <2>1, <2>2 DEF AddRuntime, Settled, TypeOK, Runtimes
    <2>4. ASSUME NEW i \in Ids \ {id}, Done(i)' PROVE Settled(i)'
      BY <2>1, <2>4, AddApplying
    <2> QED
      BY <2>1, <2>3, <2>4 DEF Applying
  <1>6. CASE Retain
    BY <1>6 DEF Retain, Applying, Done, Settled
  <1>7. CASE StopDisabled
    <2>1. /\ sup = "listed" /\ sup' = "mark" /\ desired[cur].disabled
          /\ cur \in Ids /\ listed[cur] # None /\ desired[cur] # Absent
          /\ managed' = [managed EXCEPT ![cur] = None]
          /\ UNCHANGED <<desired, todo, cur, listed, config>>
      BY <1>7 DEF StopDisabled, TypeOK
    <2>2. Settled(cur)'
      BY <2>1 DEF Applying, Settled, TypeOK
    <2>3. ASSUME NEW i \in Ids \ {cur}, Done(i)' PROVE Settled(i)'
      BY <2>1, <2>3 DEF Applying, Settled, Done, Ongoing, TypeOK
    <2> QED
      BY <2>1, <2>2, <2>3 DEF Applying
  <1>8. CASE Restart
    <2>1. /\ sup = "listed" /\ sup' = "each" /\ ~desired[cur].disabled
          /\ cur \in Ids /\ listed[cur] # None /\ desired[cur] # Absent
          /\ managed' = [managed EXCEPT ![cur] = tasks + 1]
          /\ tasks + 1 \in Tasks
          /\ UNCHANGED <<desired, todo, cur, listed, config>>
      BY <1>8 DEF Restart, Spawn, TypeOK, Tasks
    <2>2. Settled(cur)'
      BY <2>1 DEF Applying, Settled, TypeOK
    <2>3. ASSUME NEW i \in Ids \ {cur}, Done(i)' PROVE Settled(i)'
      BY <2>1, <2>3 DEF Applying, Settled, Done, Ongoing, TypeOK
    <2> QED
      BY <2>1, <2>2, <2>3 DEF Applying
  <1>9. CASE Keep
    <2>1. /\ sup = "listed" /\ sup' = "each" /\ ~desired[cur].disabled
          /\ cur \in Ids /\ listed[cur] # None /\ desired[cur] # Absent
          /\ managed[cur] # None
          /\ UNCHANGED <<desired, todo, cur, listed, config, managed>>
      BY <1>9 DEF Keep, MustStart, TypeOK, tableVars
    <2>2. Settled(cur)'
      BY <2>1 DEF Applying, Settled
    <2>3. ASSUME NEW i \in Ids \ {cur}, Done(i)' PROVE Settled(i)'
      BY <2>1, <2>3 DEF Applying, Settled, Done, Ongoing
    <2> QED
      BY <2>1, <2>2, <2>3 DEF Applying
  <1>10. CASE MarkDisabled
    BY <1>10 DEF MarkDisabled, Applying, Done, Ongoing, Settled, tableVars
  <1>11. CASE ShowDisabled
    BY <1>11 DEF ShowDisabled, Applying, Done, Ongoing, Settled, tableVars
  <1>12. CASE EndApply
    BY <1>12 DEF EndApply, Applying, Done, Ongoing, Settled, tableVars
  <1> QED
    BY <1>1, <1>2, <1>3, <1>4, <1>5, <1>6, <1>7, <1>8, <1>9, <1>10, <1>11, <1>12
    DEF Apply

LEMMA StepApplying ==
  ASSUME TypeOK, Kept, Applying, [Next]_vars PROVE Applying'
  <1>1. CASE UNCHANGED vars
    BY <1>1, SameApplying DEF vars, applyVars, tableVars
  <1>2. CASE Apply
    BY <1>2, ApplyApplying
  <1>3. ASSUME NEW t \in Tasks, Sync(t) \/ Async(t) \/ Drop(t) PROVE Applying'
    BY <1>3, TaskStep, SameApplying DEF Moves
  <1> QED
    BY <1>1, <1>2, <1>3 DEF Next

(* sources.rs:77-133: once apply is over, what is listed and what runs is  *)
(* what the file says.                                                     *)
THEOREM AppliedCorrect == Spec => []Applied
  <1>1. Init => Kept /\ InReach /\ Applying
    BY DEF Init, Kept, KeptAt, InReach, Alive, Applying, Settled
  <1>2. TypeOK /\ Kept /\ InReach /\ Applying /\ [Next]_vars
        => Kept' /\ InReach' /\ Applying'
    BY StepReach, StepApplying
  <1>3. ASSUME TypeOK, Kept, Applying PROVE Applied
    <2> SUFFICES ASSUME sup = "idle", NEW id \in Ids
                 PROVE  /\ (listed[id] = None) = (desired[id] = Absent)
                        /\ desired[id] # Absent =>
                             /\ config[listed[id]] = desired[id]
                             /\ (managed[id] # None) = ~desired[id].disabled
                        /\ managed[id] # None =>
                             /\ desired[id] # Absent
                             /\ Alive(managed[id])
                             /\ managed[id] \notin stopped
                             /\ rt[managed[id]] = listed[id]
      BY DEF Applied
    <2>1. Settled(id)
      BY <1>3 DEF Applying, Done, Ongoing, TypeOK
    <2>2. desired[id] # Absent => desired[id].disabled \in BOOLEAN
      BY <1>3 DEF TypeOK, Entry
    <2>3. managed[id] # None => listed[id] # None
      BY <1>3, KeptTask DEF TypeOK, Runtimes
    <2> QED
      BY <2>1, <2>2, <2>3, <1>3 DEF Settled, Kept, KeptAt
  <1> QED
    BY <1>1, <1>2, <1>3, TypeCorrect, PTL DEF Spec
-----------------------------------------------------------------------------
(* What the tasks kept are connected with.  While apply is at an id, its   *)
(* task may still have the configuration before; while it is not yet past  *)
(* it, and the certificate setting changed, any setting.                   *)

ForceAt(id) ==
  managed[id] # None =>
    LET t == managed[id] IN
    /\ at[t] \in Using => \/ used[t] = config[listed[id]]
                          \/ Ongoing(id) /\ used[t] = prev
    /\ at[t] \in Dialed /\ (Done(id) \/ ~sslChanged) => ssl[t] = insecure

Forced == \A id \in Ids : ForceAt(id)

LEMMA TaskForced ==
  ASSUME TypeOK, Kept, Forced, NEW t \in Tasks, Moves(t) PROVE Forced'
  <1> SUFFICES ASSUME NEW id \in Ids, managed[id] # None PROVE ForceAt(id)'
    BY DEF Forced, ForceAt, Moves, tableVars
  <1> DEFINE u == managed[id]
  <1>1. u \in Tasks /\ rt[u] = listed[id] /\ ForceAt(id)
    BY KeptTask DEF Kept, KeptAt, Forced
  <1>2. /\ UNCHANGED <<sup, cur, prev, todo, sslChanged, insecure, managed, listed, config>>
        /\ Done(id)' = Done(id) /\ Ongoing(id)' = Ongoing(id)
    BY DEF Moves, applyVars, tableVars, Done, Ongoing
  <1>3. CASE u = t
    BY <1>1, <1>2, <1>3 DEF ForceAt, Moves, Dialed, Using
  <1>4. CASE u # t
    <2>1. at'[u] = at[u] /\ used'[u] = used[u] /\ ssl'[u] = ssl[u]
      BY <1>1, <1>4 DEF Moves, TypeOK
    <2> QED
      BY <1>1, <1>2, <2>1 DEF ForceAt
  <1> QED
    BY <1>3, <1>4

(* A step of apply leaves the connections that are there alone. *)
LEMMA SpawnForced ==
  ASSUME TypeOK, NEW id \in Ids, NEW r, Spawn(id, r)
  PROVE  /\ ForceAt(id)'
         /\ \A i \in Ids \ {id} : managed'[i] = managed[i]
         /\ \A t \in 1..tasks : at'[t] = at[t] /\ used'[t] = used[t] /\ ssl'[t] = ssl[t]
  BY DEF Spawn, ForceAt, TypeOK, Tasks, Using, Dialed

LEMMA SameForced ==
  ASSUME TypeOK, Forced, NEW id \in Ids, managed[id] # None,
         managed'[id] = managed[id],
         at'[managed[id]] = at[managed[id]],
         used'[managed[id]] = used[managed[id]],
         ssl'[managed[id]] = ssl[managed[id]],
         config'[listed'[id]] = config[listed[id]],
         UNCHANGED <<insecure, sslChanged>>,
         ~Ongoing(id), Done(id)' => Done(id)
  PROVE  ForceAt(id)'
  BY DEF Forced, ForceAt

LEMMA ApplyForced ==
  ASSUME TypeOK, Kept, Applying, Forced, Apply PROVE Forced'
  <1>1. ASSUME NEW want \in Desires, NEW ignore \in BOOLEAN,
               BeginApply(want, ignore)
        PROVE  Forced'
    <2>1. /\ sup = "idle" /\ sup' = "remove" /\ todo = {}
          /\ sslChanged' = (insecure # ignore) /\ insecure' = ignore
          /\ UNCHANGED <<managed, listed, config, at, used, ssl>>
      BY <1>1 DEF BeginApply, TypeOK, tableVars, taskVars
    <2>2. ASSUME NEW id \in Ids PROVE ForceAt(id)'
      BY <2>1, <2>2 DEF Forced, ForceAt, Done, Ongoing
    <2> QED
      BY <2>2 DEF Forced
  <1>2. ASSUME NEW id \in Ids, RemoveSource(id) PROVE Forced'
    <2>1. /\ sup' = "remove" /\ sup = "remove" /\ managed'[id] = None
          /\ \A i \in Ids \ {id} : managed'[i] = managed[i] /\ listed'[i] = listed[i]
          /\ UNCHANGED <<insecure, sslChanged, config, at, used, ssl>>
      BY <1>2 DEF RemoveSource, TypeOK, applyVars
    <2>2. ASSUME NEW i \in Ids \ {id} PROVE ForceAt(i)'
      BY <2>1, <2>2 DEF Forced, ForceAt, Done, Ongoing
    <2>3. ForceAt(id)'
      BY <2>1 DEF ForceAt
    <2> QED
      BY <2>2, <2>3 DEF Forced
  <1>3. ASSUME NEW id \in Ids, UpdateConfig(id) PROVE Forced'
    <2>1. /\ sup = "each" /\ sup' = "listed" /\ cur' = id /\ todo' = todo \ {id}
          /\ id \in todo /\ prev' = config[listed[id]]
          /\ config' = [config EXCEPT ![listed[id]] = desired[id]]
          /\ UNCHANGED <<listed, managed, insecure, sslChanged, at, used, ssl>>
      BY <1>3 DEF UpdateConfig, taskVars
    <2>2. ForceAt(id)'
      BY <2>1 DEF Forced, ForceAt, Done, Ongoing
    <2>3. ASSUME NEW i \in Ids \ {id}, managed[i] # None PROVE ForceAt(i)'
      <3>1. config'[listed'[i]] = config[listed[i]]
        BY <2>1, <2>3, KeptTask, ListedApart DEF TypeOK, Runtimes
      <3> QED
        BY <2>1, <2>3, <3>1, SameForced DEF Done, Ongoing
    <2>4. ASSUME NEW i \in Ids \ {id}, managed[i] = None PROVE ForceAt(i)'
      BY <2>1, <2>4 DEF ForceAt
    <2> QED
      BY <2>2, <2>3, <2>4 DEF Forced
  <1>4. ASSUME NEW id \in Ids, AddEnabled(id) PROVE Forced'
    <2>1. /\ AddRuntime(id) /\ Spawn(id, runtimes + 1) /\ sup = "each" /\ sup' = "each"
          /\ todo' = todo \ {id} /\ UNCHANGED <<insecure, sslChanged>>
      BY <1>4 DEF AddEnabled, AddRuntime
    <2>2. ASSUME NEW i \in Ids \ {id}, managed[i] # None PROVE ForceAt(i)'
      <3>1. config'[listed'[i]] = config[listed[i]]
        BY <2>1, <2>2, KeptTask DEF AddRuntime, TypeOK, Runtimes
      <3> QED
        BY <2>1, <2>2, <3>1, SameForced, SpawnForced, KeptTask DEF Done, Ongoing
    <2>3. ASSUME NEW i \in Ids \ {id}, managed[i] = None PROVE ForceAt(i)'
      BY <2>1, <2>3, SpawnForced DEF ForceAt
    <2> QED
      BY <2>1, <2>2, <2>3, SpawnForced DEF Forced
  <1>5. ASSUME NEW id \in Ids, AddDisabled(id) PROVE Forced'
    <2>1. /\ AddRuntime(id) /\ sup = "each" /\ sup' = "mark" /\ listed[id] = None
          /\ todo' = todo \ {id}
          /\ UNCHANGED <<insecure, sslChanged, managed, at, used, ssl>>
      BY <1>5 DEF AddDisabled, AddRuntime, taskVars
    <2>2. managed[id] = None
      BY <2>1, KeptTask DEF TypeOK, Runtimes
    <2>3. ASSUME NEW i \in Ids, managed[i] # None PROVE ForceAt(i)'
      <3>1. i # id /\ config'[listed'[i]] = config[listed[i]]
        BY <2>1, <2>2, <2>3, KeptTask DEF AddRuntime, TypeOK, Runtimes
      <3> QED
        BY <2>1, <2>3, <3>1, SameForced DEF Done, Ongoing
    <2>4. ASSUME NEW i \in Ids, managed[i] = None PROVE ForceAt(i)'
      BY <2>1, <2>4 DEF ForceAt
    <2> QED
      BY <2>3, <2>4 DEF Forced
  <1>6. CASE Retain
    <2>1. /\ sup = "remove" /\ sup' = "each"
          /\ \A i \in Ids : managed[i] # None => i \in todo' /\ listed'[i] = listed[i]
          /\ UNCHANGED <<managed, insecure, sslChanged, config, at, used, ssl>>
      BY <1>6 DEF Retain, taskVars
    <2>2. ASSUME NEW i \in Ids PROVE ForceAt(i)'
      BY <2>1 DEF Forced, ForceAt, Done, Ongoing
    <2> QED
      BY <2>2 DEF Forced
  <1>7. CASE StopDisabled
    <2>1. /\ sup = "listed" /\ sup' = "mark" /\ cur \in Ids /\ managed'[cur] = None
          /\ \A i \in Ids \ {cur} : managed'[i] = managed[i]
          /\ UNCHANGED <<insecure, sslChanged, todo, cur, listed, config, at, used, ssl>>
      BY <1>7 DEF StopDisabled, TypeOK
    <2>2. ASSUME NEW i \in Ids \ {cur} PROVE ForceAt(i)'
      BY <2>1 DEF Forced, ForceAt, Done, Ongoing
    <2>3. ForceAt(cur)'
      BY <2>1 DEF ForceAt
    <2> QED
      BY <2>1, <2>2, <2>3 DEF Forced
  <1>8. CASE Restart
    <2>1. /\ sup = "listed" /\ sup' = "each" /\ cur \in Ids /\ Spawn(cur, listed[cur])
          /\ UNCHANGED <<insecure, sslChanged, todo, cur, listed, config>>
      BY <1>8 DEF Restart, TypeOK
    <2>2. ASSUME NEW i \in Ids \ {cur}, managed[i] # None PROVE ForceAt(i)'
      BY <2>1, <2>2, SameForced, SpawnForced, KeptTask DEF Done, Ongoing
    <2>3. ASSUME NEW i \in Ids \ {cur}, managed[i] = None PROVE ForceAt(i)'
      BY <2>1, <2>3, SpawnForced DEF ForceAt
    <2> QED
      BY <2>1, <2>2, <2>3, SpawnForced DEF Forced
  <1>9. CASE Keep
    <2>1. /\ sup = "listed" /\ sup' = "each" /\ cur \in Ids /\ desired[cur] \in Entry
          /\ prev \in Entry /\ prev.connection = desired[cur].connection
          /\ ~prev.disabled /\ ~desired[cur].disabled /\ ~sslChanged
          /\ UNCHANGED <<insecure, sslChanged, todo, cur, managed, listed, config,
                         at, used, ssl>>
      BY <1>9 DEF Keep, MustRestart, MustStart, TypeOK, tableVars, taskVars
    <2>2. prev = config[listed[cur]]
      <3>1. prev = desired[cur]
        BY <2>1 DEF Entry
      <3> QED
        BY <2>1, <3>1 DEF Applying
    <2>3. ForceAt(cur)'
      BY <2>1, <2>2 DEF Forced, ForceAt
    <2>4. ASSUME NEW i \in Ids \ {cur} PROVE ForceAt(i)'
      BY <2>1 DEF Forced, ForceAt, Done, Ongoing
    <2> QED
      BY <2>1, <2>3, <2>4 DEF Forced
  <1>10. CASE MarkDisabled
    BY <1>10 DEF MarkDisabled, Forced, ForceAt, Done, Ongoing, tableVars, taskVars
  <1>11. CASE ShowDisabled
    BY <1>11 DEF ShowDisabled, Forced, ForceAt, Done, Ongoing, tableVars, taskVars
  <1>12. CASE EndApply
    <2>1. /\ sup = "each" /\ sup' = "idle" /\ todo = {}
          /\ UNCHANGED <<insecure, todo, managed, listed, config, at, used, ssl>>
      BY <1>12 DEF EndApply, tableVars, taskVars
    <2>2. ASSUME NEW i \in Ids PROVE ForceAt(i)'
      BY <2>1 DEF Forced, ForceAt, Done, Ongoing
    <2> QED
      BY <2>2 DEF Forced
  <1> QED
    BY <1>1, <1>2, <1>3, <1>4, <1>5, <1>6, <1>7, <1>8, <1>9, <1>10, <1>11, <1>12
    DEF Apply

LEMMA StepForced ==
  ASSUME TypeOK, Kept, Applying, Forced, [Next]_vars PROVE Forced'
  <1>1. CASE UNCHANGED vars
    BY <1>1 DEF vars, Forced, ForceAt, Done, Ongoing
  <1>2. CASE Apply
    BY <1>2, ApplyForced
  <1>3. ASSUME NEW t \in Tasks, Sync(t) \/ Async(t) \/ Drop(t) PROVE Forced'
    BY <1>3, TaskStep, TaskForced
  <1> QED
    BY <1>1, <1>2, <1>3 DEF Next

(* sources.rs:117-126, README.md:74-76: once apply is over, every task     *)
(* kept uses the configuration and the certificate setting in force.       *)
THEOREM InForceCorrect == Spec => []InForce
  <1>1. Init => Kept /\ InReach /\ Applying /\ Forced
    BY DEF Init, Kept, KeptAt, InReach, Alive, Applying, Settled, Forced, ForceAt
  <1>2. TypeOK /\ Kept /\ InReach /\ Applying /\ Forced /\ [Next]_vars
        => Kept' /\ InReach' /\ Applying' /\ Forced'
    BY StepReach, StepApplying, StepForced
  <1>3. ASSUME TypeOK, Kept, Applying, Forced PROVE InForce
    <2> SUFFICES ASSUME sup = "idle", NEW id \in Ids, managed[id] # None
                 PROVE  LET t == managed[id] IN
                        /\ at[t] \in Using => used[t] = desired[id]
                        /\ at[t] \in Dialed => ssl[t] = insecure
      BY DEF InForce, Using, Dialed
    <2>1. Done(id) /\ ~Ongoing(id) /\ Settled(id)
      BY <1>3 DEF Applying, Done, Ongoing, TypeOK
    <2>2. listed[id] # None
      BY <1>3, KeptTask DEF TypeOK, Runtimes
    <2>3. config[listed[id]] = desired[id]
      BY <2>1, <2>2 DEF Settled
    <2> QED
      BY <1>3, <2>1, <2>3 DEF Forced, ForceAt
  <1> QED
    BY <1>1, <1>2, <1>3, TypeCorrect, PTL DEF Spec
-----------------------------------------------------------------------------
(* What a source's status and gauge say while its task is the only one it  *)
(* ever had, at each label of the task.                                    *)

StatusAt(t) ==
  /\ at[t] \notin {"forward", "down"} => gauge[IdOf(t)] = FALSE
  /\ at[t] = "forward" => gauge[IdOf(t)] = TRUE
  /\ at[t] = "request" => shown[rt[t]] = "Connecting"
  /\ at[t] \in {"dialing", "connected"} => shown[rt[t]] = "Handshaking"
  /\ at[t] \in {"marking", "forward"} => shown[rt[t]] = "Connected"
  /\ at[t] = "sleeping" => shown[rt[t]] = "ReconnectWait"

(* A gauge is only ever raised by a task. *)
Statuses ==
  /\ \A t \in Tasks : Alone(t) => StatusAt(t)
  /\ \A id \in Ids : gauge[id] => \E t \in 1..tasks : IdOf(t) = id

LEMMA TaskStatus ==
  ASSUME TypeOK, Statuses, NEW t \in Tasks, Sync(t) \/ Async(t) \/ Drop(t)
  PROVE  Statuses'
  <1>1. Moves(t) /\ t \in 1..tasks /\ rt[t] \in Runtimes /\ IdOf(t) \in Ids
    BY TaskStep, TaskHasRuntime DEF Moves, Alive, IdOf
  <1>2. /\ UNCHANGED <<tasks, rt, idOf, stopped>>
        /\ at' = [at EXCEPT ![t] = at'[t]]
        /\ \A u \in Tasks : IdOf(u)' = IdOf(u)
    BY <1>1 DEF Moves, tableVars, IdOf
  <1>3. \A u \in Tasks : Alone(u)' => Alone(u)
    BY <1>1, <1>2 DEF Alone, Moves, Alive, TypeOK, Tasks, IdOf
  <1>4. /\ \A r \in Runtimes \ {rt[t]} : shown'[r] = shown[r]
        /\ \A id \in Ids \ {IdOf(t)} : gauge'[id] = gauge[id]
    BY <1>1 DEF Sync, Async, Return, GoOn, Past, Snapshot, Disable, Pause, Connect, BadRequest,
       Dial, Connected, MarkConnected, MarkDisconnected, Disconnected, Wait, Poll,
       DialFails, DialDone, ForwardEnds, Drop, Step, Show, Mark, statusVars, IdOf,
       TypeOK
  <1>5. ASSUME NEW u \in Tasks \ {t}, Alone(u)' PROVE StatusAt(u)'
    <2>1. Alone(u) /\ at'[u] = at[u] /\ StatusAt(u)
      BY <1>2, <1>3, <1>5 DEF Statuses, TypeOK
    <2>2. rt[u] \in Runtimes /\ IdOf(u) \in Ids /\ IdOf(u) # IdOf(t)
      BY <1>1, <2>1, TaskHasRuntime DEF Alone, Alive, IdOf
    <2>3. rt[u] # rt[t]
      BY <2>2 DEF IdOf
    <2> QED
      BY <1>2, <1>4, <2>1, <2>2, <2>3 DEF StatusAt
  <1>6. ASSUME Alone(t)' PROVE StatusAt(t)'
    <2>1. /\ StatusAt(t) /\ Alone(t) /\ t \notin stopped
          /\ rt'[t] = rt[t] /\ IdOf(t)' = IdOf(t) /\ at'[t] # "dead"
      BY <1>2, <1>3, <1>6 DEF Statuses, Alone, Alive
    <2>2. /\ shown \in [Runtimes -> States] /\ gauge \in [Ids -> BOOLEAN]
          /\ at \in [Tasks -> Labels]
      BY DEF TypeOK
    <2> USE <2>1, <2>2, <1>1 DEF StatusAt, Step, Goto, Show, Mark, statusVars, IdOf
    <2>3. CASE Return(t)
      BY <2>3 DEF Return
    <2>4. CASE Snapshot(t)
      BY <2>4 DEF Snapshot
    <2>5. CASE Disable(t)
      BY <2>5 DEF Disable
    <2>6. CASE Pause(t)
      BY <2>6 DEF Pause
    <2>7. CASE Connect(t)
      BY <2>7 DEF Connect
    <2>8. CASE BadRequest(t)
      BY <2>8 DEF BadRequest
    <2>9. CASE Dial(t)
      BY <2>9 DEF Dial
    <2>10. CASE Connected(t)
      BY <2>10 DEF Connected
    <2>11. CASE MarkConnected(t)
      BY <2>11 DEF MarkConnected
    <2>12. CASE MarkDisconnected(t)
      BY <2>12 DEF MarkDisconnected
    <2>13. CASE Disconnected(t)
      BY <2>13 DEF Disconnected
    <2>14. CASE Wait(t)
      BY <2>14 DEF Wait
    <2>15. CASE Poll(t)
      BY <2>15 DEF Poll
    <2>16. CASE DialFails(t)
      BY <2>16 DEF DialFails
    <2>17. CASE DialDone(t)
      BY <2>17 DEF DialDone
    <2>18. CASE ForwardEnds(t)
      BY <2>18 DEF ForwardEnds
    <2>19. CASE Drop(t)
      BY <2>19 DEF Drop
    <2>20. CASE GoOn(t)
      BY <2>20 DEF GoOn, Past
    <2> QED
      BY <2>3, <2>4, <2>5, <2>6, <2>7, <2>8, <2>9, <2>10, <2>11, <2>12, <2>13,
         <2>14, <2>15, <2>16, <2>17, <2>18, <2>19, <2>20 DEF Sync, Async
  <1>7. ASSUME NEW id \in Ids, gauge'[id]
        PROVE  \E u \in 1..tasks' : IdOf(u)' = id
    <2>1. CASE id = IdOf(t)
      BY <1>1, <1>2, <2>1
    <2>2. CASE id # IdOf(t)
      BY <1>2, <1>4, <1>7, <2>2 DEF Statuses, IdOf
    <2> QED
      BY <2>1, <2>2
  <1> QED
    BY <1>5, <1>6, <1>7 DEF Statuses

(* A step of apply that starts no task, and shows and marks nothing. *)
LEMMA SameStatus ==
  ASSUME TypeOK, Statuses, UNCHANGED <<shown, gauge, tasks, at, rt>>,
         stopped \subseteq stopped',
         \A q \in 1..runtimes : idOf'[q] = idOf[q]
  PROVE  Statuses'
  <1>1. ASSUME NEW t \in 1..tasks PROVE t \in Tasks /\ IdOf(t)' = IdOf(t)
    BY DEF IdOf, TypeOK, Tasks
  <1>2. ASSUME NEW t \in Tasks, Alone(t)' PROVE Alone(t) /\ t \in 1..tasks
    BY <1>1, <1>2 DEF Alone, Alive, TypeOK, Tasks
  <1>3. ASSUME NEW t \in Tasks, Alone(t)' PROVE StatusAt(t)'
    BY <1>1, <1>2, <1>3 DEF Statuses, StatusAt
  <1> QED
    BY <1>1, <1>3 DEF Statuses

LEMMA SpawnStatus ==
  ASSUME TypeOK, Statuses, NEW id \in Ids, NEW r \in Runtimes, Spawn(id, r),
         UNCHANGED <<shown, gauge>>, idOf'[r] = id,
         \A q \in 1..runtimes : idOf'[q] = idOf[q]
  PROVE  Statuses'
  <1>1. PICK new \in Tasks :
        /\ tasks' = new /\ tasks \in Nat /\ new = tasks + 1
        /\ at' = [at EXCEPT ![new] = "spawned"]
        /\ rt' = [rt EXCEPT ![new] = r]
        /\ stopped \subseteq stopped'
    <2>1. /\ tasks + 1 \in Tasks /\ tasks \in Nat /\ tasks' = tasks + 1
          /\ at' = [at EXCEPT ![tasks + 1] = "spawned"]
          /\ rt' = [rt EXCEPT ![tasks + 1] = r]
          /\ stopped \subseteq stopped'
      BY DEF Spawn, Tasks, TypeOK
    <2> QED
      BY <2>1
  <1>2. ASSUME NEW t \in 1..tasks
        PROVE  /\ t \in Tasks /\ t # new /\ t \in 1..tasks'
               /\ at'[t] = at[t] /\ rt'[t] = rt[t] /\ IdOf(t)' = IdOf(t)
    <2>1. t \in Tasks /\ t # new /\ t \in 1..tasks'
      BY <1>1 DEF Tasks, TypeOK
    <2>2. rt[t] \in 1..runtimes /\ at'[t] = at[t] /\ rt'[t] = rt[t]
      BY <1>1, <2>1 DEF TypeOK
    <2> QED
      BY <2>1, <2>2 DEF IdOf
  <1>3. IdOf(new)' = id /\ at'[new] = "spawned" /\ new \in 1..tasks'
    <2>1. rt'[new] = r /\ at'[new] = "spawned"
      BY <1>1 DEF TypeOK
    <2>2. new \in 1..tasks'
      BY <1>1
    <2> QED
      BY <2>1, <2>2 DEF IdOf
  <1>4. ASSUME NEW t \in Tasks, Alone(t)' PROVE StatusAt(t)'
    <2>1. CASE t = new
      <3>1. gauge[id] = FALSE
        <4> SUFFICES ASSUME gauge[id] PROVE FALSE
          BY DEF TypeOK
        <4>1. PICK u \in 1..tasks : IdOf(u) = id
          BY DEF Statuses
        <4> QED
          BY <1>2, <1>3, <1>4, <2>1, <4>1 DEF Alone
      <3>2. gauge'[IdOf(t)'] = FALSE /\ at'[t] = "spawned"
        BY <1>3, <2>1, <3>1
      <3> QED
        BY <3>2 DEF StatusAt
    <2>2. CASE t # new
      <3>1. t \in 1..tasks
        BY <1>1, <1>4, <2>2 DEF Alone, Alive, TypeOK, Tasks
      <3>2. Alone(t)
        BY <1>1, <1>2, <1>4, <3>1 DEF Alone, Alive
      <3> QED
        BY <1>2, <3>1, <3>2 DEF Statuses, StatusAt
    <2> QED
      BY <2>1, <2>2
  <1>5. ASSUME NEW i \in Ids, gauge'[i] PROVE \E t \in 1..tasks' : IdOf(t)' = i
    BY <1>2, <1>5 DEF Statuses
  <1> QED
    BY <1>4, <1>5 DEF Statuses

(* set_disabled writes about an id no task of which is left unstopped.     *)
LEMMA NoneAlone ==
  ASSUME TypeOK, InReach, Applying, sup \in {"mark", "show"},
         NEW t \in Tasks, Alone(t)
  PROVE  IdOf(t) # cur
  <1>1. cur \in Ids /\ desired[cur] # Absent /\ desired[cur].disabled
    BY DEF Applying, TypeOK
  <1>2. Settled(cur)
    BY <1>1 DEF Applying, Done, Ongoing, TypeOK
  <1>3. managed[cur] = None
    BY <1>1, <1>2 DEF Settled
  <1>4. managed[IdOf(t)] = t /\ t # None
    BY DEF InReach, Alone, Tasks
  <1> QED
    BY <1>3, <1>4

LEMMA ApplyStatus ==
  ASSUME TypeOK, InReach, Applying, Statuses, Apply PROVE Statuses'
  <1> USE DEF applyVars, tableVars, statusVars, taskVars
  <1>1. ASSUME NEW want \in Desires, NEW ignore \in BOOLEAN,
               BeginApply(want, ignore)
        PROVE  Statuses'
    BY <1>1, SameStatus DEF BeginApply
  <1>2. ASSUME NEW id \in Ids, RemoveSource(id) PROVE Statuses'
    BY <1>2, SameStatus DEF RemoveSource
  <1>3. ASSUME NEW id \in Ids, UpdateConfig(id) PROVE Statuses'
    BY <1>3, SameStatus DEF UpdateConfig
  <1>4. ASSUME NEW id \in Ids, AddEnabled(id) PROVE Statuses'
    <2>1. /\ runtimes + 1 \in Runtimes /\ idOf'[runtimes + 1] = id
          /\ \A q \in 1..runtimes : idOf'[q] = idOf[q]
          /\ Spawn(id, runtimes + 1) /\ UNCHANGED <<shown, gauge>>
      BY <1>4 DEF AddEnabled, AddRuntime, TypeOK, Runtimes
    <2> QED
      BY <2>1, SpawnStatus
  <1>5. ASSUME NEW id \in Ids, AddDisabled(id) PROVE Statuses'
    <2>1. /\ \A q \in 1..runtimes : idOf'[q] = idOf[q]
          /\ UNCHANGED <<shown, gauge, tasks, at, rt, stopped>>
      BY <1>5 DEF AddDisabled, AddRuntime, TypeOK, Runtimes
    <2> QED
      BY <2>1, SameStatus
  <1>6. CASE Retain
    BY <1>6, SameStatus DEF Retain
  <1>7. CASE StopDisabled
    BY <1>7, SameStatus DEF StopDisabled
  <1>8. CASE Restart
    <2>1. /\ cur \in Ids /\ listed[cur] \in Runtimes /\ idOf[listed[cur]] = cur
          /\ Spawn(cur, listed[cur]) /\ UNCHANGED <<shown, gauge, idOf>>
      BY <1>8 DEF Restart, TypeOK, Runtimes
    <2> QED
      BY <2>1, SpawnStatus
  <1>9. CASE Keep
    BY <1>9, SameStatus DEF Keep
  <1>10. CASE MarkDisabled
    <2>1. /\ UNCHANGED <<shown, tasks, at, rt, idOf, stopped>> /\ cur \in Ids
          /\ gauge' = [gauge EXCEPT ![cur] = FALSE]
          /\ sup \in {"mark", "show"}
      BY <1>10 DEF MarkDisabled, TypeOK
    <2>2. ASSUME NEW t \in Tasks, Alone(t)' PROVE StatusAt(t)'
      <3>1. Alone(t) /\ IdOf(t)' = IdOf(t)
        BY <2>1, <2>2 DEF Alone, Alive, IdOf
      <3>2. IdOf(t) \in Ids \ {cur}
        BY <2>1, <3>1, NoneAlone, TaskHasRuntime DEF Alone, Alive, IdOf
      <3> QED
        BY <2>1, <3>1, <3>2 DEF Statuses, StatusAt, TypeOK
    <2>3. ASSUME NEW i \in Ids, gauge'[i] PROVE \E t \in 1..tasks' : IdOf(t)' = i
      <3>1. gauge[i]
        BY <2>1, <2>3 DEF TypeOK
      <3> QED
        BY <2>1, <3>1 DEF Statuses, IdOf
    <2> QED
      BY <2>2, <2>3 DEF Statuses
  <1>11. CASE ShowDisabled
    <2>1. /\ UNCHANGED <<gauge, tasks, at, rt, idOf, stopped>> /\ cur \in Ids
          /\ shown' = [shown EXCEPT ![listed[cur]] = "Disabled"]
          /\ sup \in {"mark", "show"} /\ idOf[listed[cur]] = cur
      BY <1>11 DEF ShowDisabled, TypeOK
    <2>2. ASSUME NEW t \in Tasks, Alone(t)' PROVE StatusAt(t)'
      <3>1. Alone(t) /\ IdOf(t)' = IdOf(t)
        BY <2>1, <2>2 DEF Alone, Alive, IdOf
      <3>2. IdOf(t) # cur /\ rt[t] \in Runtimes
        BY <2>1, <3>1, NoneAlone, TaskHasRuntime DEF Alone, Alive
      <3>3. rt[t] # listed[cur]
        BY <2>1, <3>2 DEF IdOf
      <3> QED
        BY <2>1, <3>1, <3>2, <3>3 DEF Statuses, StatusAt, TypeOK
    <2> QED
      BY <2>1, <2>2 DEF Statuses, IdOf
  <1>12. CASE EndApply
    BY <1>12, SameStatus DEF EndApply
  <1> QED
    BY <1>1, <1>2, <1>3, <1>4, <1>5, <1>6, <1>7, <1>8, <1>9, <1>10, <1>11, <1>12
    DEF Apply

LEMMA StepStatus ==
  ASSUME TypeOK, InReach, Applying, Statuses, [Next]_vars PROVE Statuses'
  <1>1. CASE UNCHANGED vars
    BY <1>1, SameStatus DEF vars
  <1>2. CASE Apply
    BY <1>2, ApplyStatus
  <1>3. ASSUME NEW t \in Tasks, Sync(t) \/ Async(t) \/ Drop(t) PROVE Statuses'
    BY <1>3, TaskStatus
  <1> QED
    BY <1>1, <1>2, <1>3 DEF Next

(* upstream.rs:170-250, 87-88, 112-116: the status of a source whose only  *)
(* task waits says where it waits.                                         *)
THEOREM StatusCorrect == Spec => []StatusOK
  <1>1. Init => Kept /\ InReach /\ Applying /\ Statuses
    BY DEF Init, Kept, KeptAt, InReach, Alive, Alone, Applying, Settled, Statuses
  <1>2. TypeOK /\ Kept /\ InReach /\ Applying /\ Statuses /\ [Next]_vars
        => Kept' /\ InReach' /\ Applying' /\ Statuses'
    BY StepReach, StepApplying, StepStatus
  <1>3. TypeOK /\ Statuses => StatusOK
    BY DEF Statuses, StatusAt, StatusOK, Tells, TypeOK
  <1> QED
    BY <1>1, <1>2, <1>3, TypeCorrect, PTL DEF Spec
-----------------------------------------------------------------------------
(* Supervisor implements Roster.                                           *)

(* Exactly the sources that are to run, as far as apply has come, have a   *)
(* task.  It is why spawn_task for a source without one (sources.rs:123)   *)
(* is reached only for a source that was disabled.                         *)
Served == \A id \in Ids : managed[id] # None <=> Promise!Runs(Given[id])

LEMMA SettingType ==
  ASSUME NEW entry \in Entry \cup {Absent}, NEW ignore \in BOOLEAN
  PROVE  /\ Setting(entry, ignore) \in Settings \cup {Absent}
         /\ Setting(entry, ignore) = Absent <=> entry = Absent
         /\ Promise!Runs(Setting(entry, ignore)) <=> entry # Absent /\ ~entry.disabled
  BY DEF Setting, Settings, Entry, Promise!Runs

LEMMA WantedOf ==
  ASSUME TypeOK, NEW id \in Ids
  PROVE  /\ Wanted[id] = Setting(desired[id], insecure)
         /\ Wanted[id] \in Settings \cup {Absent}
         /\ Wanted[id] = Absent <=> desired[id] = Absent
         /\ Promise!Runs(Wanted[id]) <=> desired[id] # Absent /\ ~desired[id].disabled
  <1>1. desired[id] \in Entry \cup {Absent} /\ insecure \in BOOLEAN
    BY DEF TypeOK
  <1> QED
    BY <1>1, SettingType DEF Wanted

(* A source that a step of apply does not concern. *)
LEMMA LeftAlone ==
  ASSUME NEW i \in Ids, UNCHANGED <<insecure, sslChanged>>,
         listed'[i] = listed[i],
         listed[i] # None => config'[listed[i]] = config[listed[i]],
         Done(i)' <=> Done(i), ~Ongoing(i), ~Ongoing(i)'
  PROVE  Given'[i] = Given[i]
  BY DEF Given, Current

LEMMA Brought ==
  ASSUME NEW id \in Ids, UNCHANGED <<desired, insecure>>,
         \A i \in Ids \ {id} : Given'[i] = Given[i],
         Given'[id] = Wanted[id]
  PROVE  /\ Given' = [Given EXCEPT ![id] = Wanted[id]]
         /\ Wanted' = Wanted
  BY DEF Given, Wanted

LEMMA Stutters ==
  ASSUME UNCHANGED <<desired, insecure, managed, tasks>>,
         \A i \in Ids : Given'[i] = Given[i]
  PROVE  UNCHANGED Promise!vars
  <1>1. Given' = Given
    BY DEF Given
  <1>2. Wanted' = Wanted
    BY DEF Wanted
  <1> QED
    BY <1>1, <1>2 DEF Promise!vars

(* While apply is at a source, its previous settings are in force, and     *)
(* when it is past it the new ones.                                        *)
LEMMA GivenOf ==
  ASSUME TypeOK, NEW id \in Ids
  PROVE  /\ listed[id] = None => Given[id] = Absent
         /\ Ongoing(id) =>
              /\ Given[id] = Setting(prev, insecure # sslChanged)
              /\ prev \in Entry
         /\ listed[id] # None /\ ~Ongoing(id) =>
              /\ config[listed[id]] \in Entry
              /\ Done(id) => Given[id] = Setting(config[listed[id]], insecure)
              /\ ~Done(id) => Given[id] = Setting(config[listed[id]], insecure # sslChanged)
  <1>1. Ongoing(id) => listed[id] # None /\ prev \in Entry /\ ~Done(id)
    BY DEF TypeOK, Ongoing, Done
  <1>2. listed[id] # None => config[listed[id]] \in Entry
    BY DEF TypeOK, Runtimes
  <1> QED
    BY <1>1, <1>2 DEF Given, Current, Setting

LEMMA InitPromise == Init => Promise!Init /\ Served
  BY DEF Init, Promise!Init, Served, Promise!Runs, Wanted, Given, Setting, Current

(* The step that ends the loop's work at a source that was listed. *)
LEMMA PassesListed ==
  ASSUME TypeOK, Applying, sup = "listed", sup' \in {"mark", "each"},
         UNCHANGED <<desired, insecure, sslChanged, todo, cur, listed, config>>
  PROVE  /\ cur \in Ids /\ prev \in Entry /\ desired[cur] \in Entry
         /\ Given[cur] = Setting(prev, insecure # sslChanged)
         /\ Given' = [Given EXCEPT ![cur] = Wanted[cur]]
         /\ Wanted' = Wanted
  <1>1. /\ cur \in Ids /\ prev \in Entry /\ desired[cur] \in Entry
        /\ listed[cur] # None /\ cur \notin todo
        /\ config[listed[cur]] = desired[cur]
    BY DEF TypeOK, Applying
  <1>2. Given[cur] = Setting(prev, insecure # sslChanged)
    BY <1>1, GivenOf DEF Ongoing
  <1>3. Given'[cur] = Wanted[cur]
    BY <1>1 DEF Given, Wanted, Current, Done, Ongoing
  <1>4. ASSUME NEW i \in Ids \ {cur} PROVE Given'[i] = Given[i]
    BY LeftAlone DEF Done, Ongoing
  <1> QED
    BY <1>1, <1>2, <1>3, <1>4, Brought

(* A source that has a task is restarted for its connection or for the     *)
(* certificate setting, since a source that has one was not disabled.      *)
LEMMA RestartsChanged ==
  ASSUME TypeOK, Applying, Served, Restart, managed[cur] # None
  PROVE  \/ Given[cur].connection # Wanted[cur].connection
         \/ Given[cur].insecure # Wanted[cur].insecure
  <1>1. /\ sup = "listed" /\ sup' = "each"
        /\ MustRestart \/ MustStart
        /\ UNCHANGED <<desired, insecure, sslChanged, todo, cur, listed, config>>
    BY DEF Restart
  <1>2. /\ cur \in Ids /\ prev \in Entry /\ desired[cur] \in Entry
        /\ Given[cur] = Setting(prev, insecure # sslChanged)
    BY <1>1, PassesListed
  <1>3. /\ insecure \in BOOLEAN /\ sslChanged \in BOOLEAN
        /\ prev # Absent /\ desired[cur] # Absent
    BY <1>2 DEF TypeOK
  <1>4. ~prev.disabled
    BY <1>2, <1>3, SettingType DEF Served
  <1>5. prev.connection # desired[cur].connection \/ sslChanged
    BY <1>1, <1>4 DEF MustRestart, MustStart
  <1>6. /\ Given[cur].connection = prev.connection
        /\ Given[cur].insecure = (insecure # sslChanged)
    BY <1>2, <1>3 DEF Setting
  <1>7. /\ Wanted[cur].connection = desired[cur].connection
        /\ Wanted[cur].insecure = insecure
    BY <1>2, <1>3 DEF Wanted, Setting
  <1> QED
    BY <1>3, <1>5, <1>6, <1>7

(* A source for which wanted and given agree after a step, and differed    *)
(* before it, was switched, disabled or retired; see Roster.               *)
LEMMA ApplyPromise ==
  ASSUME TypeOK, Kept, Applying, Served, Apply
  PROVE  [Promise!Next]_(Promise!vars)
  <1> USE DEF applyVars, tableVars, statusVars, taskVars
  <1>1. ASSUME NEW want \in Desires, NEW ignore \in BOOLEAN,
               BeginApply(want, ignore)
        PROVE  Promise!Want
    <2>1. /\ sup = "idle" /\ sup' = "remove" /\ todo = {}
          /\ insecure \in BOOLEAN /\ insecure' = ignore
          /\ sslChanged' = (insecure # ignore)
          /\ UNCHANGED <<prev, listed, managed, config, tasks>>
          /\ desired' = want
      BY <1>1 DEF BeginApply, TypeOK
    <2>2. ASSUME NEW i \in Ids
          PROVE  Done(i) /\ ~Ongoing(i) /\ ~Done(i)' /\ ~Ongoing(i)'
      BY <2>1 DEF Done, Ongoing
    <2>3. ASSUME NEW i \in Ids PROVE Given[i] = Wanted[i]
      <3>1. Settled(i)
        BY <2>2 DEF Applying
      <3>2. CASE listed[i] = None
        BY <3>1, <3>2, GivenOf, WantedOf DEF Settled
      <3>3. CASE listed[i] # None
        BY <2>2, <3>1, <3>3, GivenOf, WantedOf DEF Settled
      <3> QED
        BY <3>2, <3>3
    <2>4. (insecure' # sslChanged') = insecure
      BY <2>1
    <2>5. ASSUME NEW i \in Ids PROVE Given'[i] = Given[i]
      BY <2>1, <2>2, <2>4 DEF Given, Current
    <2>6. Wanted' \in [Ids -> Settings \cup {Absent}]
      <3>1. ASSUME NEW i \in Ids PROVE Wanted'[i] \in Settings \cup {Absent}
        BY <2>1, SettingType DEF Wanted
      <3> QED
        BY <3>1 DEF Wanted
    <2>7. Wanted = Given /\ Given' = Given
      BY <2>3, <2>5 DEF Wanted, Given
    <2> QED
      BY <2>1, <2>6, <2>7 DEF Promise!Want
  <1>2. ASSUME NEW id \in Ids, RemoveSource(id) PROVE Promise!Retire({id})
    <2>1. /\ sup = "remove" /\ desired[id] = Absent
          /\ managed' = [managed EXCEPT ![id] = None]
          /\ listed' = [listed EXCEPT ![id] = None]
          /\ UNCHANGED <<desired, insecure, sslChanged, sup, todo, cur, config, tasks>>
          /\ listed \in [Ids -> 1..runtimes \cup {None}]
          /\ managed \in [Ids -> 1..tasks \cup {None}]
      BY <1>2 DEF RemoveSource, TypeOK
    <2>2. ASSUME NEW i \in Ids \ {id} PROVE Given'[i] = Given[i]
      BY <2>1, LeftAlone DEF Done, Ongoing
    <2>3. Given'[id] = Absent
      BY <2>1 DEF Given, Current, Setting
    <2>4. Wanted' = Wanted /\ Wanted[id] = Absent
      BY <2>1, WantedOf DEF Wanted
    <2>5. Given' = [i \in Ids |-> IF i \in {id} THEN Absent ELSE Given[i]]
      BY <2>2, <2>3 DEF Given
    <2>6. managed' = [i \in Ids |-> IF i \in {id} THEN None ELSE managed[i]]
      BY <2>1
    <2> QED
      BY <2>1, <2>4, <2>5, <2>6 DEF Promise!Retire
  <1>3. ASSUME NEW id \in Ids, UpdateConfig(id) PROVE UNCHANGED Promise!vars
    <2>1. /\ sup = "each" /\ sup' = "listed" /\ cur' = id
          /\ id \in todo /\ todo' = todo \ {id}
          /\ listed[id] # None /\ prev' = config[listed[id]]
          /\ config' = [config EXCEPT ![listed[id]] = desired[id]]
          /\ UNCHANGED <<desired, insecure, sslChanged, listed, managed, tasks>>
      BY <1>3 DEF UpdateConfig
    <2>2. ASSUME NEW i \in Ids \ {id} PROVE Given'[i] = Given[i]
      <3>1. listed[i] # None => config'[listed[i]] = config[listed[i]]
        BY <2>1, ListedApart DEF TypeOK
      <3> QED
        BY <2>1, <3>1, LeftAlone DEF Done, Ongoing
    <2>3. Given'[id] = Given[id]
      BY <2>1 DEF Given, Current, Done, Ongoing
    <2> QED
      BY <2>1, <2>2, <2>3, Stutters
  <1>4. ASSUME NEW id \in Ids, AddEnabled(id) PROVE Promise!Switch(id)
    <2>1. /\ AddRuntime(id) /\ sup = "each" /\ sup' = "each"
          /\ id \in todo /\ todo' = todo \ {id} /\ listed[id] = None
          /\ tasks' = tasks + 1 /\ managed' = [managed EXCEPT ![id] = tasks + 1]
          /\ desired[id] # Absent /\ ~desired[id].disabled
          /\ UNCHANGED <<desired, insecure, sslChanged>>
      BY <1>4 DEF AddEnabled, AddRuntime, Spawn, TypeOK
    <2>2. Given'[id] = Wanted[id]
      BY <2>1 DEF AddRuntime, Given, Wanted, Current, Done, Ongoing, TypeOK, Runtimes
    <2>3. ASSUME NEW i \in Ids \ {id} PROVE Given'[i] = Given[i]
      <3>1. /\ listed'[i] = listed[i]
            /\ listed[i] # None => config'[listed[i]] = config[listed[i]]
        BY <2>1, ListedApart DEF AddRuntime, TypeOK, Runtimes
      <3> QED
        BY <2>1, <3>1, LeftAlone DEF Done, Ongoing
    <2>4. Given[id] = Absent /\ Promise!Runs(Wanted[id]) /\ Wanted[id] # Absent
      BY <2>1, GivenOf, WantedOf
    <2> QED
      BY <2>1, <2>2, <2>3, <2>4, Brought
      DEF Promise!Switch, Promise!Changes, Promise!Anew, Promise!Runs
  <1>5. ASSUME NEW id \in Ids, AddDisabled(id) PROVE Promise!Disable(id)
    <2>1. /\ AddRuntime(id) /\ sup = "each" /\ sup' = "mark"
          /\ id \in todo /\ todo' = todo \ {id} /\ listed[id] = None
          /\ desired[id] # Absent /\ desired[id].disabled
          /\ UNCHANGED <<desired, insecure, sslChanged, managed, tasks>>
      BY <1>5 DEF AddDisabled, AddRuntime, TypeOK
    <2>2. Given'[id] = Wanted[id]
      BY <2>1 DEF AddRuntime, Given, Wanted, Current, Done, Ongoing, TypeOK, Runtimes
    <2>3. ASSUME NEW i \in Ids \ {id} PROVE Given'[i] = Given[i]
      <3>1. /\ listed'[i] = listed[i]
            /\ listed[i] # None => config'[listed[i]] = config[listed[i]]
        BY <2>1, ListedApart DEF AddRuntime, TypeOK, Runtimes
      <3> QED
        BY <2>1, <3>1, LeftAlone DEF Done, Ongoing
    <2>4. Given[id] = Absent /\ Wanted[id] # Absent /\ Wanted[id].disabled
      BY <2>1, GivenOf, WantedOf DEF Promise!Runs
    <2>5. managed' = [managed EXCEPT ![id] = None]
      <3>1. managed[id] = None
        BY <2>1, KeptTask DEF TypeOK, Runtimes
      <3> QED
        BY <2>1, <3>1 DEF TypeOK
    <2> QED
      BY <2>1, <2>2, <2>3, <2>4, <2>5, Brought DEF Promise!Disable, Promise!Changes
  <1>6. CASE Retain
    <2> DEFINE gone == {id \in Ids : desired[id] = Absent}
    <2>1. /\ sup = "remove" /\ sup' = "each"
          /\ todo' = {id \in Ids : desired[id] # Absent}
          /\ listed' = [id \in Ids |-> IF desired[id] = Absent THEN None ELSE listed[id]]
          /\ \A id \in Ids : managed[id] # None => desired[id] # Absent
          /\ UNCHANGED <<desired, insecure, sslChanged, managed, config, tasks>>
          /\ managed \in [Ids -> 1..tasks \cup {None}]
      BY <1>6 DEF Retain, TypeOK
    <2>2. ASSUME NEW i \in Ids
          PROVE  Given'[i] = IF i \in gone THEN Absent ELSE Given[i]
      <3>1. CASE desired[i] = Absent
        BY <2>1, <3>1 DEF Given, Current, Setting
      <3>2. CASE desired[i] # Absent
        BY <2>1, <3>2, LeftAlone DEF Done, Ongoing
      <3> QED
        BY <3>1, <3>2
    <2>3. Wanted' = Wanted /\ \A i \in gone : Wanted[i] = Absent
      BY <2>1, WantedOf DEF Wanted
    <2>4. /\ Given' = [i \in Ids |-> IF i \in gone THEN Absent ELSE Given[i]]
          /\ managed' = [i \in Ids |-> IF i \in gone THEN None ELSE managed[i]]
      BY <2>1, <2>2 DEF Given
    <2>5. Promise!Retire(gone)
      BY <2>1, <2>3, <2>4 DEF Promise!Retire
    <2>6. CASE gone = {}
      <3>1. Given' = Given
        BY <2>4, <2>6 DEF Given
      <3> QED
        BY <2>1, <2>3, <3>1 DEF Promise!vars
    <2>7. CASE gone # {}
      <3>1. gone \in (SUBSET Ids) \ {{}}
        BY <2>7
      <3> QED
        BY <2>5, <3>1 DEF Promise!Next
    <2> QED
      BY <2>6, <2>7
  <1>7. CASE StopDisabled
    <2>1. /\ sup = "listed" /\ sup' = "mark" /\ desired[cur].disabled
          /\ managed' = [managed EXCEPT ![cur] = None]
          /\ UNCHANGED <<desired, insecure, sslChanged, todo, cur, listed, config, tasks>>
      BY <1>7 DEF StopDisabled
    <2>2. /\ cur \in Ids /\ prev \in Entry /\ desired[cur] \in Entry
          /\ Given[cur] = Setting(prev, insecure # sslChanged)
          /\ Given' = [Given EXCEPT ![cur] = Wanted[cur]]
          /\ Wanted' = Wanted
      BY <2>1, PassesListed
    <2>3. Wanted[cur] # Absent /\ Wanted[cur].disabled /\ ~Promise!Runs(Wanted[cur])
      BY <2>1, <2>2, WantedOf DEF Promise!Runs
    <2>4. CASE Given[cur] = Wanted[cur]
      <3>1. managed[cur] = None
        BY <2>2, <2>3, <2>4 DEF Served
      <3>2. managed \in [Ids -> 1..tasks \cup {None}]
        BY DEF TypeOK
      <3>3. managed' = managed
        BY <2>1, <3>1, <3>2
      <3>4. Given' = Given
        BY <2>2, <2>4 DEF Given
      <3> QED
        BY <2>1, <2>2, <3>3, <3>4 DEF Promise!vars
    <2>5. CASE Given[cur] # Wanted[cur]
      <3>1. Promise!Disable(cur)
        BY <2>1, <2>2, <2>3, <2>5 DEF Promise!Disable, Promise!Changes
      <3> QED
        BY <2>2, <3>1 DEF Promise!Next
    <2> QED
      BY <2>4, <2>5
  <1>8. CASE Restart
    <2>1. /\ sup = "listed" /\ sup' = "each" /\ ~desired[cur].disabled
          /\ MustRestart \/ MustStart
          /\ tasks' = tasks + 1 /\ managed' = [managed EXCEPT ![cur] = tasks + 1]
          /\ UNCHANGED <<desired, insecure, sslChanged, todo, cur, listed, config>>
      BY <1>8 DEF Restart, Spawn
    <2>2. /\ cur \in Ids /\ prev \in Entry /\ desired[cur] \in Entry
          /\ Given[cur] = Setting(prev, insecure # sslChanged)
          /\ Given' = [Given EXCEPT ![cur] = Wanted[cur]]
          /\ Wanted' = Wanted
      BY <2>1, PassesListed
    <2>3. /\ insecure \in BOOLEAN /\ sslChanged \in BOOLEAN
          /\ prev # Absent /\ desired[cur] # Absent
      BY <2>2 DEF TypeOK
    <2>4. Promise!Runs(Wanted[cur])
      BY <2>1, <2>2, <2>3, WantedOf
    <2>5. CASE prev.disabled
      <3>1. ~Promise!Runs(Given[cur])
        BY <2>2, <2>3, <2>5, SettingType
      <3> QED
        BY <2>1, <2>2, <2>4, <3>1
        DEF Promise!Next, Promise!Switch, Promise!Changes, Promise!Anew
    <2>6. CASE ~prev.disabled
      <3>1. managed[cur] # None
        BY <2>2, <2>3, <2>6, SettingType DEF Served
      <3>2. \/ Given[cur].connection # Wanted[cur].connection
            \/ Given[cur].insecure # Wanted[cur].insecure
        BY <1>8, <3>1, RestartsChanged
      <3> QED
        BY <2>1, <2>2, <2>4, <3>2
        DEF Promise!Next, Promise!Switch, Promise!Changes, Promise!Anew
    <2> QED
      BY <2>5, <2>6
  <1>9. CASE Keep
    <2>1. /\ sup = "listed" /\ sup' = "each" /\ ~desired[cur].disabled
          /\ ~prev.disabled /\ ~sslChanged
          /\ prev.connection = desired[cur].connection
          /\ UNCHANGED <<desired, insecure, sslChanged, todo, cur, listed, config,
                         managed, tasks>>
      BY <1>9 DEF Keep, MustRestart, MustStart, tableVars, taskVars
    <2>2. /\ cur \in Ids /\ prev \in Entry /\ desired[cur] \in Entry
          /\ Given[cur] = Setting(prev, insecure # sslChanged)
          /\ Given' = [Given EXCEPT ![cur] = Wanted[cur]]
          /\ Wanted' = Wanted
      BY <2>1, PassesListed
    <2>3. prev = desired[cur]
      BY <2>1, <2>2 DEF Entry
    <2>4. (insecure # sslChanged) = insecure
      BY <2>1 DEF TypeOK
    <2>5. Given[cur] = Wanted[cur]
      BY <2>2, <2>3, <2>4, WantedOf
    <2>6. Given' = Given
      BY <2>2, <2>5 DEF Given
    <2> QED
      BY <2>1, <2>2, <2>6 DEF Promise!vars
  <1>10. CASE MarkDisabled
    <2>1. ASSUME NEW i \in Ids PROVE Given'[i] = Given[i]
      BY <1>10, LeftAlone DEF MarkDisabled, Done, Ongoing
    <2> QED
      BY <1>10, <2>1, Stutters DEF MarkDisabled
  <1>11. CASE ShowDisabled
    <2>1. ASSUME NEW i \in Ids PROVE Given'[i] = Given[i]
      BY <1>11, LeftAlone DEF ShowDisabled, Done, Ongoing
    <2> QED
      BY <1>11, <2>1, Stutters DEF ShowDisabled
  <1>12. CASE EndApply
    <2>1. ASSUME NEW i \in Ids PROVE Given'[i] = Given[i]
      BY <1>12 DEF EndApply, Given, Current, Done, Ongoing
    <2> QED
      BY <1>12, <2>1, Stutters DEF EndApply
  <1>13. ASSUME NEW id \in Ids, Promise!Retire({id}) PROVE Promise!Next
    BY <1>13 DEF Promise!Next
  <1> QED
    BY <1>1, <1>2, <1>3, <1>4, <1>5, <1>6, <1>7, <1>8, <1>9, <1>10, <1>11, <1>12,
       <1>13 DEF Apply, Promise!Next

LEMMA StepPromise ==
  ASSUME TypeOK, Kept, Applying, Served, [Next]_vars
  PROVE  [Promise!Next]_(Promise!vars) /\ Served'
  <1>1. [Promise!Next]_(Promise!vars)
    <2>1. CASE UNCHANGED vars
      BY <2>1 DEF vars, Promise!vars, Wanted, Given, Current, Done, Ongoing
    <2>2. CASE Apply
      BY <2>2, ApplyPromise
    <2>3. ASSUME NEW t \in Tasks, Sync(t) \/ Async(t) \/ Drop(t)
          PROVE  UNCHANGED Promise!vars
      <3>1. UNCHANGED <<applyVars, tableVars, tasks>>
        BY <2>3, TaskStep DEF Moves
      <3> QED
        BY <3>1 DEF applyVars, tableVars, Promise!vars, Wanted, Given, Current,
                    Done, Ongoing
    <2> QED
      BY <2>1, <2>2, <2>3 DEF Next
  <1>2. tasks + 1 = tasks' => tasks' # None
    BY StepTypeOK DEF TypeOK, Tasks
  <1>3. managed \in [Ids -> 1..tasks \cup {None}]
    BY DEF TypeOK
  <1>4. ASSUME UNCHANGED Promise!vars PROVE Served'
    BY <1>4 DEF Promise!vars, Served
  <1>5. ASSUME Promise!Want PROVE Served'
    <2>1. Given' = Given /\ managed' = managed
      BY <1>5 DEF Promise!Want
    <2> QED
      BY <2>1 DEF Served
  <1>6. ASSUME NEW id \in Ids, Promise!Switch(id) PROVE Served'
    <2>1. /\ Given' = [Given EXCEPT ![id] = Wanted[id]]
          /\ managed' = [managed EXCEPT ![id] = tasks'] /\ tasks' # None
          /\ Promise!Runs(Wanted[id])
      BY <1>2, <1>6 DEF Promise!Switch, Promise!Changes
    <2>2. ASSUME NEW i \in Ids
          PROVE  managed'[i] # None <=> Promise!Runs(Given'[i])
      BY <1>3, <2>1 DEF Served, Given
    <2> QED
      BY <2>2 DEF Served, Promise!Runs
  <1>7. ASSUME NEW id \in Ids, Promise!Disable(id) PROVE Served'
    <2>1. /\ Given' = [Given EXCEPT ![id] = Wanted[id]]
          /\ managed' = [managed EXCEPT ![id] = None]
          /\ ~Promise!Runs(Wanted[id])
      BY <1>7 DEF Promise!Disable, Promise!Changes, Promise!Runs
    <2>2. ASSUME NEW i \in Ids
          PROVE  managed'[i] # None <=> Promise!Runs(Given'[i])
      BY <1>3, <2>1 DEF Served, Given
    <2> QED
      BY <2>2 DEF Served, Promise!Runs
  <1>8. ASSUME NEW ids \in SUBSET Ids, Promise!Retire(ids) PROVE Served'
    BY <1>8 DEF Promise!Retire, Served, Promise!Runs
  <1> QED
    BY <1>1, <1>4, <1>5, <1>6, <1>7, <1>8 DEF Promise!Next

(* sources.rs:77-133, README.md:73-76: seen from outside, apply switches   *)
(* each source whose settings change once, and leaves the others alone.    *)
THEOREM PromiseKept == Spec => KeepsPromise
  <1>1. Init => Kept /\ InReach /\ Applying /\ Served /\ Promise!Init
    BY InitPromise
    DEF Init, Kept, KeptAt, InReach, Alive, Applying, Settled
  <1>2. TypeOK /\ Kept /\ InReach /\ Applying /\ Served /\ [Next]_vars
        => /\ Kept' /\ InReach' /\ Applying' /\ Served'
           /\ [Promise!Next]_(Promise!vars)
    BY StepReach, StepApplying, StepPromise
  <1> QED
    BY <1>1, <1>2, TypeCorrect, PTL DEF Spec, KeepsPromise, Promise!Spec

LEMMA StepUndisturbed ==
  ASSUME TypeOK, Kept, Applying, Served, [Next]_vars
  PROVE  \A t \in stopped' \ stopped : Given[IdOf(t)] # Wanted[IdOf(t)]
  <1>1. ASSUME NEW id \in Ids, stopped' = stopped \cup TaskOf(id),
               managed[id] # None => Given[id] # Wanted[id]
        PROVE  \A t \in stopped' \ stopped : Given[IdOf(t)] # Wanted[IdOf(t)]
    BY <1>1, KeptTask DEF TaskOf
  <1>2. ASSUME NEW id \in Ids, RemoveSource(id)
        PROVE  stopped' = stopped \cup TaskOf(id) /\ Given[id] # Wanted[id]
    <2>1. /\ managed[id] # None /\ desired[id] = Absent
          /\ stopped' = stopped \cup TaskOf(id)
      BY <1>2 DEF RemoveSource
    <2>2. Promise!Runs(Given[id]) /\ ~Promise!Runs(Wanted[id])
      BY <2>1, WantedOf DEF Served
    <2> QED
      BY <2>1, <2>2
  <1>3. ASSUME StopDisabled, managed[cur] # None
        PROVE  Given[cur] # Wanted[cur]
    <2>1. cur \in Ids /\ desired[cur].disabled
      BY <1>3 DEF StopDisabled, TypeOK
    <2>2. Promise!Runs(Given[cur]) /\ ~Promise!Runs(Wanted[cur])
      BY <1>3, <2>1, WantedOf DEF Served
    <2> QED
      BY <2>2
  <1>4. ASSUME Restart, managed[cur] # None PROVE Given[cur] # Wanted[cur]
    BY <1>4, RestartsChanged
  <1>5. ASSUME NEW id \in Ids, AddEnabled(id) PROVE managed[id] = None
    BY <1>5, KeptTask DEF AddEnabled, AddRuntime, TypeOK, Runtimes
  <1>6. StopDisabled \/ Restart =>
          cur \in Ids /\ stopped' = stopped \cup TaskOf(cur)
    BY DEF StopDisabled, Restart, Spawn, TypeOK
  <1>7. ASSUME NEW id \in Ids, AddEnabled(id)
        PROVE  stopped' = stopped \cup TaskOf(id)
    BY <1>7 DEF AddEnabled, Spawn
  <1>8. CASE stopped' = stopped
    BY <1>8
  <1>9. CASE Apply /\ stopped' # stopped
    BY <1>1, <1>2, <1>3, <1>4, <1>5, <1>6, <1>7, <1>9
    DEF Apply, BeginApply, UpdateConfig, AddDisabled, Retain, Keep, MarkDisabled,
        ShowDisabled, EndApply, taskVars
  <1>10. ASSUME NEW t \in Tasks, Sync(t) \/ Async(t) \/ Drop(t)
         PROVE  stopped' = stopped
    BY <1>10, TaskStep DEF Moves
  <1> QED
    BY <1>8, <1>9, <1>10 DEF Next, vars

(* sources.rs:117-126: no task is stopped but for a change to its source.  *)
THEOREM UndisturbedCorrect == Spec => Undisturbed
  <1>1. Init => Kept /\ InReach /\ Applying /\ Served
    BY InitPromise
    DEF Init, Kept, KeptAt, InReach, Alive, Applying, Settled
  <1>2. TypeOK /\ Kept /\ InReach /\ Applying /\ Served /\ [Next]_vars
        => /\ Kept' /\ InReach' /\ Applying' /\ Served'
           /\ \A t \in stopped' \ stopped : Given[IdOf(t)] # Wanted[IdOf(t)]
    BY StepReach, StepApplying, StepPromise, StepUndisturbed
  <1> QED
    BY <1>1, <1>2, TypeCorrect, PTL DEF Spec, Undisturbed
-----------------------------------------------------------------------------
(* A stopped task winds down. *)

(* Where a stopped task goes from each label. *)
LEMMA StoppedMoves ==
  ASSUME TypeOK, NEW t \in Tasks, t \in stopped, Sync(t) \/ Async(t) \/ Drop(t)
  PROVE  \/ at'[t] = "dead" /\ at[t] # "dead"
         \/ at[t] \in {"spawned", "sleeping", "paused"} /\ at'[t] = "top"
         \/ at[t] = "snapshot" /\ at'[t] \in {"disable", "connect"}
         \/ at[t] = "disable" /\ at'[t] = "disabled"
         \/ at[t] = "disabled" /\ at'[t] = "paused"
         \/ at[t] = "connecting" /\ at'[t] = "request"
         \/ at[t] = "waiting" /\ at'[t] = "sleeping"
         \/ at[t] = "request" /\ at'[t] \in {"dialing", "down"}
         \/ at[t] = "dialing" /\ at'[t] \in {"connected", "down"}
         \/ at[t] = "connected" /\ at'[t] = "marking"
         \/ at[t] = "marking" /\ at'[t] = "forward"
         \/ at[t] = "forward" /\ at'[t] = "down"
         \/ at[t] = "down" /\ at'[t] = "marked"
         \/ at[t] = "marked" /\ at'[t] = "retry"
  <1>1. at \in [Tasks -> Labels]
    BY DEF TypeOK
  <1>2. CASE Sync(t)
    BY <1>1, <1>2
    DEF Sync, Return, GoOn, Snapshot, Disable, Pause, Connect, BadRequest, Dial, Connected,
        MarkConnected, MarkDisconnected, Disconnected, Wait, Step, Goto
  <1>3. CASE Async(t) \/ Drop(t)
    BY <1>1, <1>3
    DEF Async, Poll, DialFails, DialDone, ForwardEnds, Drop, Awaits, Step, Goto
  <1> QED
    BY <1>2, <1>3

LEMMA StepsLeftDrops ==
  ASSUME NEW from \in Labels, NEW to \in Labels,
         \/ to = "dead" /\ from \notin {"none", "dead"}
         \/ from \in {"spawned", "sleeping", "paused"} /\ to = "top"
         \/ from = "snapshot" /\ to \in {"disable", "connect"}
         \/ from = "disable" /\ to = "disabled"
         \/ from = "disabled" /\ to = "paused"
         \/ from = "connecting" /\ to = "request"
         \/ from = "waiting" /\ to = "sleeping"
         \/ from = "request" /\ to \in {"dialing", "down"}
         \/ from = "dialing" /\ to \in {"connected", "down"}
         \/ from = "connected" /\ to = "marking"
         \/ from = "marking" /\ to = "forward"
         \/ from = "forward" /\ to = "down"
         \/ from = "down" /\ to = "marked"
         \/ from = "marked" /\ to = "retry"
  PROVE  StepsLeft[to] < StepsLeft[from]
  BY DEF StepsLeft, Labels

LEMMA StepWindsDown ==
  ASSUME TypeOK, [Next]_vars, NEW t \in stopped, at'[t] # at[t]
  PROVE  StepsLeft[at'[t]] < StepsLeft[at[t]]
  <1>1. /\ t \in Tasks /\ t <= tasks /\ tasks \in Nat
        /\ at \in [Tasks -> Labels] /\ at[t] # "none"
    <2>1. stopped \subseteq 1..tasks /\ tasks \in 0..MaxTasks
      BY DEF TypeOK
    <2>2. t \in Tasks /\ t <= tasks /\ tasks \in Nat /\ t \in Nat
      BY <2>1 DEF Tasks
    <2>3. /\ at \in [Tasks -> Labels]
          /\ (at[t] = "none") = (t > tasks)
      BY <2>2 DEF TypeOK
    <2> QED
      BY <2>2, <2>3
  <1>2. CASE Apply
    <2>1. at' = at \/ at' = [at EXCEPT ![tasks + 1] = "spawned"]
      BY <1>2
      DEF Apply, BeginApply, RemoveSource, UpdateConfig, AddEnabled, AddDisabled,
          Retain, StopDisabled, Restart, Keep, MarkDisabled, ShowDisabled, EndApply,
          Spawn, taskVars
    <2> QED
      BY <1>1, <2>1
  <1>3. ASSUME NEW u \in Tasks, Sync(u) \/ Async(u) \/ Drop(u)
        PROVE  StepsLeft[at'[t]] < StepsLeft[at[t]]
    <2>1. /\ at' = [at EXCEPT ![u] = at'[u]]
          /\ at'[u] \in Labels /\ Alive(u)
      BY <1>3, TaskStep DEF Moves
    <2>2. t = u
      BY <1>1, <2>1
    <2> QED
      BY <1>1, <1>3, <2>1, <2>2, StoppedMoves, StepsLeftDrops DEF Alive
  <1> QED
    BY <1>2, <1>3 DEF Next, vars

(* upstream.rs:46, 101, 166, sources.rs:163-168: whatever else goes on, a  *)
(* stopped task has fewer steps left after each of its steps, wherever it  *)
(* was when it was stopped.                                                *)
THEOREM WindsDownCorrect == Spec => WindsDown
  <1>1. TypeOK /\ [Next]_vars
        => \A t \in stopped :
             at'[t] # at[t] => StepsLeft[at'[t]] < StepsLeft[at[t]]
    BY StepWindsDown
  <1> QED
    BY <1>1, TypeCorrect, PTL DEF Spec, WindsDown
-----------------------------------------------------------------------------
(* Supervisor implements Lifecycle. *)

Phases == [r \in Runtimes |-> Phase(r)]
Dead == {t \in Tasks : at[t] = "dead"}

(* A task that did not begin has no runtime, and one that ended was told   *)
(* to.                                                                     *)
Begun ==
  \A t \in Tasks :
    /\ at[t] = "none" => rt[t] = None
    /\ at[t] = "dead" => t \in stopped

LEMMA SpawnBegun ==
  ASSUME TypeOK, Begun, NEW id \in Ids, NEW r \in Runtimes, Spawn(id, r)
  PROVE  Begun'
  <1>1. /\ at \in [Tasks -> Labels] /\ tasks + 1 \in Tasks
        /\ rt \in [Tasks -> 1..runtimes \cup {None}]
    BY DEF TypeOK, Spawn, Tasks
  <1> QED
    BY <1>1 DEF Begun, Spawn

LEMMA StepBegun ==
  ASSUME TypeOK, Begun, [Next]_vars PROVE Begun'
  <1>1. ASSUME UNCHANGED <<at, rt>>, stopped \subseteq stopped' PROVE Begun'
    BY <1>1 DEF Begun
  <1>2. CASE UNCHANGED vars
    BY <1>1, <1>2 DEF vars
  <1>3. CASE Apply
    <2>1. ASSUME NEW id \in Ids, AddEnabled(id) PROVE Begun'
      <3>1. runtimes + 1 \in Runtimes /\ Spawn(id, runtimes + 1)
        BY <2>1 DEF AddEnabled, AddRuntime, TypeOK, Runtimes
      <3> QED
        BY <3>1, SpawnBegun
    <2>2. CASE Restart
      <3>1. cur \in Ids /\ listed[cur] \in Runtimes /\ Spawn(cur, listed[cur])
        BY <2>2 DEF Restart, TypeOK, Runtimes
      <3> QED
        BY <3>1, SpawnBegun
    <2> QED
      BY <1>1, <1>3, <2>1, <2>2
      DEF Apply, BeginApply, RemoveSource, UpdateConfig, AddDisabled, Retain,
          StopDisabled, Keep, MarkDisabled, ShowDisabled, EndApply, taskVars
  <1>4. ASSUME NEW t \in Tasks, Sync(t) \/ Async(t) \/ Drop(t) PROVE Begun'
    <2>1. /\ Moves(t) /\ at \in [Tasks -> Labels]
          /\ UNCHANGED <<rt, stopped>>
      BY <1>4, TaskStep DEF Moves, TypeOK
    <2> QED
      BY <2>1 DEF Begun, Moves, Alive, Labels
  <1> QED
    BY <1>2, <1>3, <1>4 DEF Next

(* Of all the tasks a listed runtime ever had, only the one kept for its   *)
(* id may not have been told to end: stopping that one stops them all.     *)
LEMMA CrewStopped ==
  ASSUME TypeOK, Kept, InReach, Begun, NEW id \in Ids, listed[id] # None
  PROVE  stopped \cup Contract!Crew({listed[id]}) = stopped \cup TaskOf(id)
  <1>1. ASSUME NEW t \in Tasks, rt[t] = listed[id], t \notin stopped
        PROVE  t \in TaskOf(id)
    <2>1. at[t] # "none" /\ at[t] # "dead"
      BY <1>1 DEF Begun
    <2>2. IdOf(t) = id
      BY <1>1 DEF IdOf, TypeOK
    <2>3. managed[id] = t
      BY <1>1, <2>1, <2>2 DEF InReach, Alive
    <2> QED
      BY <2>3 DEF TaskOf, Tasks
  <1>2. ASSUME NEW t \in TaskOf(id) PROVE t \in Tasks /\ rt[t] = listed[id]
    BY <1>2, KeptTask DEF TaskOf, Kept, KeptAt
  <1> QED
    BY <1>1, <1>2 DEF Contract!Crew

LEMMA SamePhases == ASSUME UNCHANGED <<runtimes, listed>> PROVE Phases' = Phases
  BY DEF Phases, Phase

LEMMA SameContract ==
  ASSUME UNCHANGED <<runtimes, listed, idOf, rt, stopped, at>>
  PROVE  UNCHANGED Contract!vars
  <1>1. Phases' = Phases
    BY SamePhases
  <1> QED
    BY <1>1 DEF Contract!vars, Phases

(* A new runtime for an id that has none listed. *)
LEMMA AddLists ==
  ASSUME TypeOK, NEW id \in Ids, AddRuntime(id)
  PROVE  Contract!Lists(runtimes + 1, id) /\ runtimes + 1 \in Runtimes
  <1> DEFINE new == runtimes + 1
  <1>1. /\ new \in Runtimes /\ runtimes \in Nat /\ listed[id] = None
        /\ runtimes' = new /\ listed' = [listed EXCEPT ![id] = new]
        /\ idOf' = [idOf EXCEPT ![new] = id]
        /\ listed \in [Ids -> 1..runtimes \cup {None}]
    BY DEF AddRuntime, TypeOK, Runtimes
  <1>2. Phases[new] = "new"
    BY <1>1 DEF Phases, Phase
  <1>3. ASSUME NEW q \in Runtimes, Phases[q] = "listed" PROVE idOf[q] # id
    <2>1. PICK i \in Ids : listed[i] = q /\ q <= runtimes
      BY <1>1, <1>3 DEF Phases, Phase, Runtimes
    <2>2. listed[i] # None
      BY <2>1 DEF Runtimes
    <2> QED
      BY <1>1, <2>1, <2>2 DEF TypeOK
  <1>4. ASSUME NEW q \in Runtimes
        PROVE  Phases'[q] = IF q = new THEN "listed" ELSE Phases[q]
    <2>1. new # None
      BY <1>1
    <2>2. \A i \in Ids : listed'[i] = q <=> IF q = new THEN i = id ELSE listed[i] = q
      BY <1>1, <2>1 DEF Runtimes
    <2>3. q \in Nat
      BY DEF Runtimes
    <2> QED
      BY <1>1, <2>2, <2>3 DEF Phases, Phase
  <1>5. Phases' = [Phases EXCEPT ![new] = "listed"]
    BY <1>4 DEF Phases
  <1> QED
    BY <1>1, <1>2, <1>3, <1>5 DEF Contract!Lists, Phases

(* A runtime that is on the list leaves it when the list loses its id. *)
LEMMA Leaves ==
  ASSUME TypeOK, NEW gone \in SUBSET Ids,
         listed' = [i \in Ids |-> IF i \in gone THEN None ELSE listed[i]],
         runtimes' = runtimes,
         NEW rs \in SUBSET Runtimes,
         \A r \in Runtimes : r \in rs <=> \E i \in gone : listed[i] = r
  PROVE  /\ \A r \in rs : Phases[r] = "listed"
         /\ Phases' = [r \in Runtimes |-> IF r \in rs THEN "removed" ELSE Phases[r]]
  <1>1. /\ listed \in [Ids -> 1..runtimes \cup {None}] /\ runtimes \in Nat
        /\ \A r \in Runtimes : r # None /\ r \in Nat
    BY DEF TypeOK, Runtimes
  <1>2. ASSUME NEW r \in rs PROVE r <= runtimes /\ Phases[r] = "listed"
    <2>1. PICK i \in gone : listed[i] = r
      OBVIOUS
    <2>2. r \in 1..runtimes /\ i \in Ids
      BY <1>1, <2>1
    <2> QED
      BY <1>1, <2>1, <2>2 DEF Phases, Phase
  <1>3. ASSUME NEW r \in Runtimes
        PROVE  Phases'[r] = IF r \in rs THEN "removed" ELSE Phases[r]
    <2>1. CASE r \in rs
      <3>1. PICK i \in gone : listed[i] = r
        BY <2>1
      <3>2. \A j \in Ids : listed'[j] # r
        BY <1>1, <3>1, ListedApart
      <3> QED
        BY <1>1, <1>2, <2>1, <3>2 DEF Phases, Phase
    <2>2. CASE r \notin rs
      <3>1. \A j \in Ids : listed'[j] = r <=> listed[j] = r
        BY <1>1, <2>2
      <3> QED
        BY <2>2, <3>1 DEF Phases, Phase
    <2> QED
      BY <2>1, <2>2
  <1> QED
    BY <1>2, <1>3 DEF Phases

LEMMA ApplyContract ==
  ASSUME TypeOK, Kept, InReach, Begun, Apply
  PROVE  [Contract!Next]_(Contract!vars)
  <1> USE DEF applyVars, tableVars, statusVars, taskVars
  <1>1. ASSUME NEW id \in Ids, RemoveSource(id)
        PROVE  Contract!Remove({listed[id]}) /\ listed[id] \in Runtimes
    <2>1. /\ managed[id] # None /\ stopped' = stopped \cup TaskOf(id)
          /\ listed' = [listed EXCEPT ![id] = None]
          /\ UNCHANGED <<runtimes, idOf, at, rt>>
          /\ listed \in [Ids -> 1..runtimes \cup {None}]
      BY <1>1 DEF RemoveSource, TypeOK
    <2>2. listed[id] \in 1..runtimes /\ listed[id] \in Runtimes /\ listed[id] # None
      BY <2>1, KeptTask DEF TypeOK, Runtimes
    <2>3. listed' = [i \in Ids |-> IF i \in {id} THEN None ELSE listed[i]]
      BY <2>1
    <2>4. /\ \A r \in {listed[id]} : Phases[r] = "listed"
          /\ Phases' = [r \in Runtimes |-> IF r \in {listed[id]} THEN "removed"
                                                                 ELSE Phases[r]]
      <3> DEFINE gone == {id}
                 rs == {listed[id]}
      <3>1. gone \in SUBSET Ids /\ rs \in SUBSET Runtimes
        BY <2>2
      <3>2. \A r \in Runtimes : r \in rs <=> \E i \in gone : listed[i] = r
        OBVIOUS
      <3>3. listed' = [i \in Ids |-> IF i \in gone THEN None ELSE listed[i]]
        BY <2>3
      <3>4. runtimes' = runtimes
        BY <2>1
      <3> HIDE DEF gone, rs
      <3>5. /\ \A r \in rs : Phases[r] = "listed"
            /\ Phases' = [r \in Runtimes |-> IF r \in rs THEN "removed"
                                                         ELSE Phases[r]]
        BY <3>1, <3>2, <3>3, <3>4, Leaves
      <3> QED
        BY <3>5 DEF rs
    <2>5. stopped' = stopped \cup Contract!Crew({listed[id]})
      BY <2>1, <2>2, CrewStopped
    <2>6. Dead' = Dead
      BY <2>1 DEF Dead
    <2> QED
      BY <2>1, <2>2, <2>4, <2>5, <2>6 DEF Contract!Remove, Phases, Dead
  <1>2. ASSUME Retain PROVE [Contract!Next]_(Contract!vars)
    <2> DEFINE gone == {id \in Ids : desired[id] = Absent}
               rs == {r \in Runtimes : \E i \in gone : listed[i] = r}
    <2>1. /\ \A id \in Ids : managed[id] # None => desired[id] # Absent
          /\ listed' = [i \in Ids |-> IF i \in gone THEN None ELSE listed[i]]
          /\ UNCHANGED <<runtimes, idOf, at, rt, stopped>>
      BY <1>2 DEF Retain
    <2>2. /\ \A r \in rs : Phases[r] = "listed"
          /\ Phases' = [r \in Runtimes |-> IF r \in rs THEN "removed" ELSE Phases[r]]
      <3>1. gone \in SUBSET Ids /\ rs \in SUBSET Runtimes
        OBVIOUS
      <3>2. \A r \in Runtimes : r \in rs <=> \E i \in gone : listed[i] = r
        OBVIOUS
      <3>3. runtimes' = runtimes
        BY <2>1
      <3> HIDE DEF gone, rs
      <3> QED
        BY <2>1, <3>1, <3>2, <3>3, Leaves
    <2>3. ASSUME NEW t \in Contract!Crew(rs) PROVE t \in stopped
      <3>1. PICK i \in gone : listed[i] = rt[t] /\ rt[t] \in Runtimes
        BY <2>3 DEF Contract!Crew
      <3>2. i \in Ids /\ managed[i] = None /\ listed[i] # None
        BY <2>1, <3>1 DEF Runtimes
      <3>3. TaskOf(i) = {}
        BY <3>2 DEF TaskOf
      <3>4. t \in Contract!Crew({listed[i]})
        BY <2>3, <3>1 DEF Contract!Crew
      <3> QED
        BY <3>2, <3>3, <3>4, CrewStopped
    <2>4. Dead' = Dead /\ stopped' = stopped \cup Contract!Crew(rs)
      BY <2>1, <2>3 DEF Dead
    <2>5. Contract!Remove(rs)
      BY <2>1, <2>2, <2>4 DEF Contract!Remove, Phases, Dead
    <2>6. CASE rs = {}
      <3>1. Phases' = Phases
        BY <2>2, <2>6 DEF Phases
      <3> QED
        BY <2>1, <2>4, <3>1 DEF Contract!vars, Phases, Dead
    <2>7. CASE rs # {}
      <3>1. rs \in (SUBSET Runtimes) \ {{}}
        BY <2>7
      <3> QED
        BY <2>5, <3>1 DEF Contract!Next
    <2> QED
      BY <2>6, <2>7
  <1>3. ASSUME NEW id \in Ids, AddEnabled(id)
        PROVE  /\ Contract!Open(runtimes + 1, id, tasks + 1)
               /\ runtimes + 1 \in Runtimes /\ tasks + 1 \in Tasks
    <2>1. /\ AddRuntime(id) /\ listed[id] = None
          /\ at' = [at EXCEPT ![tasks + 1] = "spawned"]
          /\ rt' = [rt EXCEPT ![tasks + 1] = runtimes + 1]
          /\ stopped' = stopped \cup TaskOf(id)
          /\ tasks + 1 \in Tasks /\ at[tasks + 1] = "none"
      BY <1>3 DEF AddEnabled, AddRuntime, Spawn, TypeOK, Tasks
    <2>2. Contract!Lists(runtimes + 1, id) /\ runtimes + 1 \in Runtimes
      BY <2>1, AddLists
    <2>3. managed[id] = None
      BY <2>1, KeptTask DEF TypeOK, Runtimes
    <2>4. ASSUME NEW t \in Tasks PROVE rt[t] # runtimes + 1
      <3>1. /\ rt \in [Tasks -> 1..runtimes \cup {None}] /\ runtimes \in Nat
        BY DEF TypeOK
      <3>2. rt[t] \in 1..runtimes \cup {None} /\ runtimes + 1 # None
        BY <2>2, <3>1 DEF Runtimes
      <3> QED
        BY <3>1, <3>2
    <2>5. stopped' = stopped \cup Contract!Crew({runtimes + 1})
      BY <2>1, <2>3, <2>4 DEF TaskOf, Contract!Crew
    <2>6. rt[tasks + 1] = None
      BY <2>1 DEF Begun
    <2>7. Dead' = Dead
      BY <2>1 DEF Dead, TypeOK
    <2> QED
      BY <2>1, <2>2, <2>5, <2>6, <2>7 DEF Contract!Open, Contract!Begins, Dead
  <1>4. ASSUME NEW id \in Ids, AddDisabled(id)
        PROVE  Contract!Add(runtimes + 1, id) /\ runtimes + 1 \in Runtimes
    <2>1. AddRuntime(id) /\ UNCHANGED <<at, rt, stopped>>
      BY <1>4 DEF AddDisabled
    <2>2. Dead' = Dead
      BY <2>1 DEF Dead
    <2> QED
      BY <2>1, <2>2, AddLists DEF Contract!Add, Dead
  <1>5. ASSUME StopDisabled PROVE [Contract!Next]_(Contract!vars)
    <2>1. /\ cur \in Ids /\ stopped' = stopped \cup TaskOf(cur)
          /\ UNCHANGED <<runtimes, listed, idOf, at, rt>>
      BY <1>5 DEF StopDisabled, TypeOK
    <2>2. CASE managed[cur] = None
      <3>1. stopped' = stopped
        BY <2>1, <2>2 DEF TaskOf
      <3> QED
        BY <2>1, <3>1, SameContract
    <2>3. CASE managed[cur] # None
      <3>1. /\ managed[cur] \in Tasks /\ rt[managed[cur]] # None
            /\ stopped' = stopped \cup {managed[cur]}
        <4>1. managed[cur] \in 1..tasks /\ managed[cur] \in Tasks
          BY <2>1, <2>3, KeptTask
        <4>2. rt[managed[cur]] # None
          BY <4>1 DEF TypeOK
        <4> QED
          BY <2>1, <2>3, <4>1, <4>2 DEF TaskOf
      <3>2. Phases' = Phases /\ Dead' = Dead
        BY <2>1, SamePhases DEF Dead
      <3>3. Contract!Stop(managed[cur])
        BY <2>1, <3>1, <3>2 DEF Contract!Stop, Phases, Dead
      <3> QED
        BY <3>1, <3>3 DEF Contract!Next
    <2> QED
      BY <2>2, <2>3
  <1>6. ASSUME Restart
        PROVE  /\ Contract!Start(tasks + 1, listed[cur])
               /\ tasks + 1 \in Tasks /\ listed[cur] \in Runtimes
    <2>1. /\ cur \in Ids /\ listed[cur] # None
          /\ listed[cur] \in 1..runtimes /\ listed[cur] \in Runtimes
          /\ at' = [at EXCEPT ![tasks + 1] = "spawned"]
          /\ rt' = [rt EXCEPT ![tasks + 1] = listed[cur]]
          /\ stopped' = stopped \cup TaskOf(cur)
          /\ UNCHANGED <<runtimes, listed, idOf>>
      BY <1>6 DEF Restart, Spawn, TypeOK, Runtimes
    <2>2. tasks + 1 \in Tasks /\ at[tasks + 1] = "none"
      BY <1>6 DEF Restart, Spawn, TypeOK, Tasks
    <2>3. Phases[listed[cur]] = "listed"
      <3>1. runtimes \in Nat
        BY DEF TypeOK
      <3>2. listed[cur] <= runtimes
        BY <2>1, <3>1
      <3>3. ~(listed[cur] > runtimes) /\ \E id \in Ids : listed[id] = listed[cur]
        BY <2>1, <3>1, <3>2 DEF Runtimes
      <3>4. Phase(listed[cur]) = "listed"
        BY <3>3 DEF Phase
      <3> QED
        BY <2>1, <3>4 DEF Phases
    <2>4. stopped' = stopped \cup Contract!Crew({listed[cur]})
      BY <2>1, CrewStopped
    <2>5. rt[tasks + 1] = None
      BY <2>2 DEF Begun
    <2>6. Phases' = Phases
      BY <2>1, SamePhases
    <2>7. Dead' = Dead
      BY <2>1, <2>2 DEF Dead, TypeOK
    <2> QED
      BY <2>1, <2>2, <2>3, <2>4, <2>5, <2>6, <2>7
      DEF Contract!Start, Contract!Begins, Phases, Dead
  <1>7. CASE UNCHANGED <<runtimes, listed, idOf, rt, stopped, at>>
    BY <1>7, SameContract
  <1>8. ASSUME NEW id \in Ids, RemoveSource(id) PROVE Contract!Next
    <2>1. {listed[id]} \in (SUBSET Runtimes) \ {{}}
      BY <1>1, <1>8
    <2> QED
      BY <1>1, <1>8, <2>1 DEF Contract!Next
  <1>9. ASSUME NEW id \in Ids, AddEnabled(id) \/ AddDisabled(id) PROVE Contract!Next
    BY <1>3, <1>4, <1>9 DEF Contract!Next
  <1>10. ASSUME Restart PROVE Contract!Next
    BY <1>6, <1>10 DEF Contract!Next
  <1> QED
    BY <1>2, <1>5, <1>7, <1>8, <1>9, <1>10
    DEF Apply, BeginApply, UpdateConfig, Keep, MarkDisabled, ShowDisabled, EndApply

LEMMA StepContract ==
  ASSUME TypeOK, Kept, InReach, Begun, [Next]_vars
  PROVE  [Contract!Next]_(Contract!vars)
  <1>1. CASE UNCHANGED vars
    BY <1>1, SameContract DEF vars
  <1>2. CASE Apply
    BY <1>2, ApplyContract
  <1>3. ASSUME NEW t \in Tasks, Sync(t) \/ Async(t) \/ Drop(t)
        PROVE  [Contract!Next]_(Contract!vars)
    <2>1. /\ Moves(t) /\ at \in [Tasks -> Labels]
          /\ UNCHANGED <<runtimes, listed, idOf, rt, stopped>>
      BY <1>3, TaskStep DEF Moves, tableVars, TypeOK
    <2>2. Phases' = Phases
      BY <2>1, SamePhases
    <2>3. CASE at'[t] = "dead"
      <3>1. Dead' = Dead \cup {t} /\ t \in stopped
        BY <2>1, <2>3 DEF Dead, Moves
      <3>2. Contract!End(t)
        BY <2>1, <2>2, <3>1 DEF Contract!End, Phases, Dead
      <3> QED
        BY <3>2 DEF Contract!Next
    <2>4. CASE at'[t] # "dead"
      <3>1. Dead' = Dead
        BY <2>1, <2>4 DEF Dead, Moves, Alive
      <3> QED
        BY <2>1, <2>2, <3>1 DEF Contract!vars, Phases, Dead
    <2> QED
      BY <2>3, <2>4
  <1> QED
    BY <1>1, <1>2, <1>3 DEF Next

(* sources.rs:136-207: no runtime returns to the list, an id has one at a  *)
(* time, and the tasks of a runtime that left, or that were replaced, were *)
(* all told to end.                                                        *)
THEOREM ContractKept == Spec => KeepsContract
  <1>1. Init => Kept /\ InReach /\ Begun
    BY DEF Init, Kept, KeptAt, InReach, Alive, Begun
  <1>2. Init => Contract!Init
    BY DEF Init, Contract!Init, Phase, Runtimes
  <1>3. TypeOK /\ Kept /\ InReach /\ Begun /\ [Next]_vars
        => Kept' /\ InReach' /\ Begun' /\ [Contract!Next]_(Contract!vars)
    BY StepReach, StepBegun, StepContract
  <1> QED
    BY <1>1, <1>2, <1>3, TypeCorrect, PTL DEF Spec, KeepsContract, Contract!Spec

(* sources.rs:157-207: what those who publish and serve rely on: an id has *)
(* one runtime that clients find, and only the latest task of a runtime    *)
(* that is listed was not told to end.                                     *)
THEOREM OrderlyCorrect == Spec => []Contract!Orderly
  <1>1. Init => Kept /\ InReach /\ Begun
    BY DEF Init, Kept, KeptAt, InReach, Alive, Begun
  <1>2. TypeOK /\ Kept /\ InReach /\ Begun /\ [Next]_vars => Kept' /\ InReach' /\ Begun'
    BY StepReach, StepBegun
  <1>3. ASSUME TypeOK, InReach, Begun PROVE Contract!Orderly
    <2>1. ASSUME NEW q \in Runtimes, NEW r \in Runtimes, Phases[q] = "listed",
                 Phases[r] = "listed", idOf[q] = idOf[r]
          PROVE  q = r
      <3>1. PICK i \in Ids : listed[i] = q
        BY <2>1 DEF Phases, Phase
      <3>2. PICK j \in Ids : listed[j] = r
        BY <2>1 DEF Phases, Phase
      <3>3. idOf[q] = i /\ idOf[r] = j
        BY <1>3, <3>1, <3>2 DEF TypeOK, Runtimes
      <3> QED
        BY <2>1, <3>1, <3>2, <3>3
    <2>2. ASSUME NEW t \in Tasks \ stopped, rt[t] # None
          PROVE  managed[IdOf(t)] = t /\ listed[IdOf(t)] = rt[t]
      BY <1>3, <2>2 DEF Begun, InReach, Alive
    <2>3. ASSUME NEW t \in Tasks, rt[t] # None, Phases[rt[t]] = "removed"
          PROVE  t \in stopped
      <3> SUFFICES ASSUME t \notin stopped PROVE FALSE
        OBVIOUS
      <3>1. rt[t] \in Runtimes /\ rt[t] \in 1..runtimes
        BY <1>3, <2>3 DEF TypeOK, Runtimes
      <3>2. IdOf(t) \in Ids
        BY <1>3, <3>1 DEF TypeOK, IdOf
      <3>3. listed[IdOf(t)] = rt[t]
        BY <2>2, <2>3
      <3>4. ~(rt[t] > runtimes)
        BY <1>3, <3>1 DEF TypeOK
      <3>5. Phase(rt[t]) = "listed"
        BY <3>2, <3>3, <3>4 DEF Phase
      <3> QED
        BY <2>3, <3>1, <3>5 DEF Phases
    <2>4. ASSUME NEW t \in Tasks \ stopped, NEW u \in Tasks \ stopped,
                 rt[t] # None, rt[t] = rt[u]
          PROVE  t = u
      <3>1. IdOf(t) = IdOf(u)
        BY <2>4 DEF IdOf
      <3> QED
        BY <2>2, <2>4, <3>1
    <2>5. Dead \subseteq stopped
      BY <1>3 DEF Begun, Dead
    <2> QED
      BY <2>1, <2>3, <2>4, <2>5 DEF Contract!Orderly, Phases, Dead
  <1> QED
    BY <1>1, <1>2, <1>3, TypeCorrect, PTL DEF Spec
=============================================================================
