----------------------------- MODULE Supervisor -----------------------------
(***************************************************************************)
(* SourceSupervisor::apply (src/sources.rs), that turns a configuration    *)
(* into listed sources and running tasks, and those tasks                  *)
(* (run_source_forever, connect_source, src/upstream.rs), that go on while *)
(* it works: stop_task cancels and aborts a task without waiting for it,   *)
(* so a task it stopped still runs to its next `.await', and writes what   *)
(* it writes on the way.                                                   *)
(*                                                                         *)
(* One apply runs at a time: the supervisor is behind a mutex.  What goes  *)
(* through the connections is the subject of Fanout, how long a task waits *)
(* between two of them is left open.                                       *)
(***************************************************************************)
EXTENDS Integers, FiniteSets

CONSTANTS
  Ids,          \* source ids
  Connections,  \* url, headers and proxy: what source_needs_reconnect compares
  Desires,      \* configurations that may be applied, [Ids -> Entry or Absent]
  Absent,       \* the id is not in the sources file
  None,         \* no task, no runtime, no id
  MaxApplies,   \* bound: applies, the one at startup included
  MaxRuntimes,  \* bound: SourceRuntimes created
  MaxTasks      \* bound: tasks spawned

Entry == [connection : Connections, disabled : BOOLEAN]

(* How a source is connected to: its entry and the certificate setting.    *)
Settings == [connection : Connections, disabled : BOOLEAN, insecure : BOOLEAN]

(* validate_config: a configuration has at least one source. *)
ASSUME DesiresAssumption ==
  /\ Desires \subseteq [Ids -> Entry \cup {Absent}]
  /\ \A want \in Desires : \E id \in Ids : want[id] # Absent
  /\ Absent \notin Entry \cup Settings

ASSUME BoundsAssumption ==
  MaxApplies \in Nat /\ MaxRuntimes \in Nat /\ MaxTasks \in Nat

Runtimes == 1..MaxRuntimes
Tasks    == 1..MaxTasks

ASSUME NoneAssumption == None \notin Ids \cup Runtimes \cup Tasks

VARIABLES
  desired,     \* the configuration applied last, or being applied
  insecure,    \* AppState.ignore_ssl_certificate_errors
  sslChanged,  \* apply's ignore_ssl_certificate_errors_changed
  sup,         \* where apply is
  todo,        \* the ids its loop has still to go through
  cur,         \* the id it is at
  prev,        \* the configuration cur's runtime had before
  applies,     \* applies begun
  listed,      \* AppState.sources: the runtime listed for each id
  managed,     \* SourceSupervisor.tasks: the task kept for each id
  runtimes,    \* runtimes created so far
  idOf,        \* SourceRuntime: its id
  config,      \* SourceRuntime.config
  shown,       \* SourceRuntime.state
  gauge,       \* metrics.connected, by id: each runtime of an id has the same
  tasks,       \* tasks spawned so far
  at,          \* where each task is
  rt,          \* the runtime it runs
  used,        \* the configuration it took for its latest connection
  ssl,         \* and whether it checks certificates
  stopped      \* the tasks cancelled and aborted

applyVars == <<desired, insecure, sslChanged, sup, todo, cur, prev, applies>>
tableVars == <<listed, managed, runtimes, idOf, config>>
statusVars == <<shown, gauge>>
taskVars  == <<tasks, at, rt, used, ssl, stopped>>
vars == <<desired, insecure, sslChanged, sup, todo, cur, prev, applies,
          listed, managed, runtimes, idOf, config, shown, gauge,
          tasks, at, rt, used, ssl, stopped>>

Init ==
  /\ desired = [id \in Ids |-> Absent]
  /\ insecure \in BOOLEAN
  /\ sslChanged = FALSE
  /\ sup = "idle" /\ todo = {} /\ cur = None /\ prev = Absent
  /\ applies = 0
  /\ listed = [id \in Ids |-> None]
  /\ managed = [id \in Ids |-> None]
  /\ runtimes = 0
  /\ idOf = [r \in Runtimes |-> None]
  /\ config = [r \in Runtimes |-> Absent]
  /\ shown = [r \in Runtimes |-> "Disconnected"]
  /\ gauge = [id \in Ids |-> FALSE]
  /\ tasks = 0
  /\ at = [t \in Tasks |-> "none"]
  /\ rt = [t \in Tasks |-> None]
  /\ used = [t \in Tasks |-> Absent]
  /\ ssl = [t \in Tasks |-> FALSE]
  /\ stopped = {}
-----------------------------------------------------------------------------
(* apply, up to the loop over the desired sources.  A configuration that   *)
(* validate_config refuses changes nothing here.  The first one is the one *)
(* the AppState was made from (src/main.rs).                               *)

BeginApply(want, ignore) ==
  /\ sup = "idle"
  /\ applies < MaxApplies
  /\ applies = 0 => ignore = insecure
  /\ applies' = applies + 1
  /\ desired' = want
  /\ sslChanged' = (insecure # ignore)
  /\ insecure' = ignore
  /\ sup' = "remove"
  /\ UNCHANGED <<todo, cur, prev, tableVars, statusVars, taskVars>>

TaskOf(id) == {managed[id]} \ {None}

(* remove_source, for each id that has a task and is not desired. *)
RemoveSource(id) ==
  /\ sup = "remove"
  /\ managed[id] # None
  /\ desired[id] = Absent
  /\ stopped' = stopped \cup TaskOf(id)
  /\ managed' = [managed EXCEPT ![id] = None]
  /\ listed' = [listed EXCEPT ![id] = None]
  /\ UNCHANGED <<applyVars, runtimes, idOf, config, statusVars,
                 tasks, at, rt, used, ssl>>

(* sources.retain: also the sources that have no task. *)
Retain ==
  /\ sup = "remove"
  /\ \A id \in Ids : managed[id] # None => desired[id] # Absent
  /\ listed' = [id \in Ids |-> IF desired[id] = Absent THEN None ELSE listed[id]]
  /\ todo' = {id \in Ids : desired[id] # Absent}
  /\ sup' = "each"
  /\ UNCHANGED <<desired, insecure, sslChanged, cur, prev, applies,
                 managed, runtimes, idOf, config, statusVars, taskVars>>
-----------------------------------------------------------------------------
(* The loop over the desired sources, a HashMap: in any order. *)

(* A source that is listed: its runtime gets the new configuration. *)
UpdateConfig(id) ==
  /\ sup = "each"
  /\ id \in todo
  /\ listed[id] # None
  /\ todo' = todo \ {id}
  /\ cur' = id
  /\ prev' = config[listed[id]]
  /\ config' = [config EXCEPT ![listed[id]] = desired[id]]
  /\ sup' = "listed"
  /\ UNCHANGED <<desired, insecure, sslChanged, applies, listed, managed,
                 runtimes, idOf, statusVars, taskVars>>

MutSpawnOver(id, r) ==
  LET t == tasks + 1 IN
  /\ tasks < MaxTasks
  /\ tasks' = t
  /\ managed' = [managed EXCEPT ![id] = t]
  /\ at' = [at EXCEPT ![t] = "spawned"]
  /\ rt' = [rt EXCEPT ![t] = r]
  /\ UNCHANGED <<used, ssl, stopped>>

(* spawn_task, and restart_task: the task before is stopped, not awaited. *)
Spawn(id, r) ==
  LET t == tasks + 1 IN
  /\ tasks < MaxTasks
  /\ tasks' = t
  /\ stopped' = stopped \cup TaskOf(id)
  /\ managed' = [managed EXCEPT ![id] = t]
  /\ at' = [at EXCEPT ![t] = "spawned"]
  /\ rt' = [rt EXCEPT ![t] = r]
  /\ UNCHANGED <<used, ssl>>

MutStopAndKeep ==
  /\ sup = "listed"
  /\ desired[cur].disabled
  /\ stopped' = stopped \cup TaskOf(cur)
  /\ sup' = "mark"
  /\ UNCHANGED <<desired, insecure, sslChanged, todo, cur, prev, applies,
                 tableVars, statusVars, tasks, at, rt, used, ssl>>

StopDisabled ==
  /\ sup = "listed"
  /\ desired[cur].disabled
  /\ stopped' = stopped \cup TaskOf(cur)
  /\ managed' = [managed EXCEPT ![cur] = None]
  /\ sup' = "mark"
  /\ UNCHANGED <<desired, insecure, sslChanged, todo, cur, prev, applies, listed,
                 runtimes, idOf, config, statusVars, tasks, at, rt, used, ssl>>

MutUrlOnly == /\ ~prev.disabled
              /\ prev.connection # desired[cur].connection
MutRestartAll == ~prev.disabled
MustRestart == /\ ~prev.disabled
               /\ prev.connection # desired[cur].connection \/ sslChanged
MustStart   == prev.disabled \/ managed[cur] = None

Restart ==
  /\ sup = "listed"
  /\ ~desired[cur].disabled
  /\ MustRestart \/ MustStart
  /\ Spawn(cur, listed[cur])
  /\ sup' = "each"
  /\ UNCHANGED <<desired, insecure, sslChanged, todo, cur, prev, applies, listed,
                 runtimes, idOf, config, statusVars>>

Keep ==
  /\ sup = "listed"
  /\ ~desired[cur].disabled
  /\ ~(MustRestart \/ MustStart)
  /\ sup' = "each"
  /\ UNCHANGED <<desired, insecure, sslChanged, todo, cur, prev, applies,
                 tableVars, statusVars, taskVars>>

(* add_source: a runtime of its own, even for an id that was listed before. *)
AddRuntime(id) ==
  LET r == runtimes + 1 IN
  /\ sup = "each"
  /\ id \in todo
  /\ listed[id] = None
  /\ runtimes < MaxRuntimes
  /\ runtimes' = r
  /\ listed' = [listed EXCEPT ![id] = r]
  /\ idOf' = [idOf EXCEPT ![r] = id]
  /\ config' = [config EXCEPT ![r] = desired[id]]
  /\ todo' = todo \ {id}
  /\ cur' = id
  /\ UNCHANGED <<desired, insecure, sslChanged, prev, applies, statusVars>>

AddEnabled(id) ==
  /\ AddRuntime(id)
  /\ ~desired[id].disabled
  /\ Spawn(id, runtimes + 1)
  /\ sup' = "each"

AddDisabled(id) ==
  /\ AddRuntime(id)
  /\ desired[id].disabled
  /\ sup' = "mark"
  /\ UNCHANGED <<managed, taskVars>>

(* set_disabled: mark_disconnected, then set_state. *)
MarkDisabled ==
  /\ sup = "mark"
  /\ gauge' = [gauge EXCEPT ![cur] = FALSE]
  /\ sup' = "show"
  /\ UNCHANGED <<desired, insecure, sslChanged, todo, cur, prev, applies,
                 tableVars, shown, taskVars>>

MutReturnDisabled ==
  /\ sup = "show"
  /\ shown' = [shown EXCEPT ![listed[cur]] = "Disabled"]
  /\ sup' = "idle"
  /\ UNCHANGED <<desired, insecure, sslChanged, todo, cur, prev, applies,
                 tableVars, gauge, taskVars>>

ShowDisabled ==
  /\ sup = "show"
  /\ shown' = [shown EXCEPT ![listed[cur]] = "Disabled"]
  /\ sup' = "each"
  /\ UNCHANGED <<desired, insecure, sslChanged, todo, cur, prev, applies,
                 tableVars, gauge, taskVars>>

(* apply returns: nothing is left of its local variables. *)
EndApply ==
  /\ sup = "each"
  /\ todo = {}
  /\ sup' = "idle"
  /\ cur' = None /\ prev' = Absent /\ sslChanged' = FALSE
  /\ UNCHANGED <<desired, insecure, todo, applies, tableVars, statusVars, taskVars>>
-----------------------------------------------------------------------------
(* A task.  Its `.await's: before its first poll, while it dials, while    *)
(* it forwards, and its two sleeps.                                        *)
Awaits == {"spawned", "dialing", "forward", "sleeping", "paused"}
Alive(t) == at[t] \notin {"none", "dead"}

Goto(t, label) == at' = [at EXCEPT ![t] = label]
Show(t, state) == shown' = [shown EXCEPT ![rt[t]] = state]
Mark(t, value) == gauge' = [gauge EXCEPT ![idOf[rt[t]]] = value]

(* From a label to the next one with nothing written on the way. *)
Step(t, from, to) ==
  /\ at[t] \in from
  /\ Goto(t, to)
  /\ UNCHANGED <<applyVars, tableVars, statusVars, tasks, rt, used, ssl, stopped>>

(* The three checks of the token outside a select!.  stop_task may come    *)
(* right after one, before what the task goes on to do.                    *)
Return(t) == t \in stopped /\ Step(t, {"top", "connect", "retry"}, "dead")

Past(t) == \/ Step(t, {"top"}, "snapshot")
           \/ Step(t, {"connect"}, "connecting")
           \/ Step(t, {"retry"}, "waiting")
MutGoOn(t) == (at[t] = "retry" \/ t \notin stopped) /\ Past(t)
GoOn(t) == t \notin stopped /\ Past(t)

(* The first poll, and the timers of the two sleeps. *)
Poll(t) == Step(t, {"spawned", "sleeping", "paused"}, "top")

Snapshot(t) ==
  /\ at[t] = "snapshot"
  /\ used' = [used EXCEPT ![t] = config[rt[t]]]
  /\ Goto(t, IF config[rt[t]].disabled THEN "disable" ELSE "connect")
  /\ UNCHANGED <<applyVars, tableVars, statusVars, tasks, rt, ssl, stopped>>

(* runtime.set_disabled() for a source found disabled. *)
Disable(t) ==
  /\ at[t] = "disable"
  /\ Mark(t, FALSE)
  /\ Goto(t, "disabled")
  /\ UNCHANGED <<applyVars, tableVars, shown, tasks, rt, used, ssl, stopped>>

Pause(t) ==
  /\ at[t] = "disabled"
  /\ Show(t, "Disabled")
  /\ Goto(t, "paused")
  /\ UNCHANGED <<applyVars, tableVars, gauge, tasks, rt, used, ssl, stopped>>

(* connect_source *)
Connect(t) ==
  /\ at[t] = "connecting"
  /\ Show(t, "Connecting")
  /\ Goto(t, "request")
  /\ UNCHANGED <<applyVars, tableVars, gauge, tasks, rt, used, ssl, stopped>>

BadRequest(t) == Step(t, {"request"}, "down")

Dial(t) ==
  /\ at[t] = "request"
  /\ Show(t, "Handshaking")
  /\ ssl' = [ssl EXCEPT ![t] = insecure]
  /\ Goto(t, "dialing")
  /\ UNCHANGED <<applyVars, tableVars, gauge, tasks, rt, used, stopped>>

DialFails(t) == Step(t, {"dialing"}, "down")
DialDone(t)  == Step(t, {"dialing"}, "connected")

Connected(t) ==
  /\ at[t] = "connected"
  /\ Show(t, "Connected")
  /\ Goto(t, "marking")
  /\ UNCHANGED <<applyVars, tableVars, gauge, tasks, rt, used, ssl, stopped>>

MarkConnected(t) ==
  /\ at[t] = "marking"
  /\ Mark(t, TRUE)
  /\ Goto(t, "forward")
  /\ UNCHANGED <<applyVars, tableVars, shown, tasks, rt, used, ssl, stopped>>

(* forward_source ends: the upstream closed, failed, or the token fired. *)
ForwardEnds(t) == Step(t, {"forward"}, "down")

MarkDisconnected(t) ==
  /\ at[t] = "down"
  /\ Mark(t, FALSE)
  /\ Goto(t, "marked")
  /\ UNCHANGED <<applyVars, tableVars, shown, tasks, rt, used, ssl, stopped>>

Disconnected(t) ==
  /\ at[t] = "marked"
  /\ Show(t, "Disconnected")
  /\ Goto(t, "retry")
  /\ UNCHANGED <<applyVars, tableVars, gauge, tasks, rt, used, ssl, stopped>>

Wait(t) ==
  /\ at[t] = "waiting"
  /\ Show(t, "ReconnectWait")
  /\ Goto(t, "sleeping")
  /\ UNCHANGED <<applyVars, tableVars, gauge, tasks, rt, used, ssl, stopped>>

(* The abort drops the future at an `.await', wherever it is. *)
Drop(t) == t \in stopped /\ Step(t, Awaits, "dead")
-----------------------------------------------------------------------------
Apply ==
  \/ \E want \in Desires, ignore \in BOOLEAN : BeginApply(want, ignore)
  \/ \E id \in Ids : \/ RemoveSource(id) \/ UpdateConfig(id)
                     \/ AddEnabled(id) \/ AddDisabled(id)
  \/ Retain \/ StopDisabled \/ Restart \/ Keep
  \/ MarkDisabled \/ ShowDisabled \/ EndApply

(* What a task does without being waited for ... *)
Sync(t) ==
  \/ Return(t) \/ GoOn(t) \/ Snapshot(t) \/ Disable(t) \/ Pause(t)
  \/ Connect(t) \/ BadRequest(t) \/ Dial(t)
  \/ Connected(t) \/ MarkConnected(t)
  \/ MarkDisconnected(t) \/ Disconnected(t) \/ Wait(t)

(* ... and what ends its `.await's. *)
Async(t) == Poll(t) \/ DialFails(t) \/ DialDone(t) \/ ForwardEnds(t)

Next == Apply \/ \E t \in Tasks : Sync(t) \/ Async(t) \/ Drop(t)

Spec == Init /\ [][Next]_vars
-----------------------------------------------------------------------------
Labels == {"none", "spawned", "top", "snapshot", "disable", "disabled", "paused",
           "connect", "connecting", "request", "dialing", "connected", "marking",
           "forward", "down", "marked", "retry", "waiting", "sleeping", "dead"}
States == {"Disabled", "Disconnected", "Connecting", "Handshaking", "Connected",
           "ReconnectWait"}

(* Types, and who has what: a runtime has its id and a configuration from  *)
(* the start, a task its runtime.                                          *)
TypeOK ==
  /\ desired \in [Ids -> Entry \cup {Absent}]
  /\ insecure \in BOOLEAN /\ sslChanged \in BOOLEAN
  /\ sup \in {"idle", "remove", "each", "listed", "mark", "show"}
  /\ todo \subseteq {id \in Ids : desired[id] # Absent}
  /\ sup \in {"idle", "remove"} => todo = {}
  /\ sup \in {"listed", "mark", "show"} =>
       cur \in Ids /\ desired[cur] # Absent /\ listed[cur] # None
  /\ prev \in Entry \cup {Absent}
  /\ sup = "listed" => prev # Absent
  /\ applies \in 0..MaxApplies
  /\ listed \in [Ids -> 1..runtimes \cup {None}]
  /\ managed \in [Ids -> 1..tasks \cup {None}]
  /\ runtimes \in 0..MaxRuntimes
  /\ idOf \in [Runtimes -> Ids \cup {None}]
  /\ config \in [Runtimes -> Entry \cup {Absent}]
  /\ \A r \in 1..runtimes : idOf[r] # None /\ config[r] # Absent
  /\ \A id \in Ids : listed[id] # None => idOf[listed[id]] = id
  /\ shown \in [Runtimes -> States]
  /\ gauge \in [Ids -> BOOLEAN]
  /\ tasks \in 0..MaxTasks
  /\ at \in [Tasks -> Labels]
  /\ \A t \in Tasks : (at[t] = "none") = (t > tasks)
  /\ rt \in [Tasks -> 1..runtimes \cup {None}]
  /\ \A t \in 1..tasks : rt[t] # None
  /\ used \in [Tasks -> Entry \cup {Absent}]
  /\ ssl \in [Tasks -> BOOLEAN]
  /\ stopped \subseteq 1..tasks

IdOf(t) == idOf[rt[t]]

(* sources.rs:157-181: no task is ever out of reach.  Whatever apply is    *)
(* doing, a task that was not stopped is the one kept for its id, and runs *)
(* the runtime listed for it; so no id ever has two.                       *)
InReach ==
  \A t \in Tasks : Alive(t) /\ t \notin stopped =>
    managed[IdOf(t)] = t /\ listed[IdOf(t)] = rt[t]

(* sources.rs:77-133: once apply is over, what is listed is what the file  *)
(* says, and exactly the sources that are not disabled have a task, alive  *)
(* and on the runtime that clients find.                                   *)
Applied ==
  sup = "idle" =>
    \A id \in Ids :
      /\ (listed[id] = None) = (desired[id] = Absent)
      /\ desired[id] # Absent =>
           /\ config[listed[id]] = desired[id]
           /\ (managed[id] # None) = ~desired[id].disabled
      /\ managed[id] # None =>
           /\ desired[id] # Absent
           /\ Alive(managed[id])
           /\ managed[id] \notin stopped
           /\ rt[managed[id]] = listed[id]

(* sources.rs:117-126, README.md:74-76: once apply is over, every task     *)
(* kept connects, or is connected, as the configuration now says: to its   *)
(* url, with its headers, through its proxy, checking certificates or not. *)
InForce ==
  sup = "idle" =>
    \A id \in Ids : managed[id] # None =>
      LET t == managed[id] IN
      /\ at[t] \in {"connect", "connecting", "request", "dialing", "connected",
                    "marking", "forward"} => used[t] = desired[id]
      /\ at[t] \in {"dialing", "connected", "marking", "forward"} =>
           ssl[t] = insecure

(* upstream.rs:170-250, 87-88, 112-116: while a source's task was the only *)
(* one it ever had, GET /sources and the gauge say where it is whenever it *)
(* waits.                                                                  *)
Alone(t) == /\ Alive(t) /\ t \notin stopped
            /\ \A u \in 1..tasks : IdOf(u) = IdOf(t) => u = t
Tells(t, state, value) == shown[rt[t]] = state /\ gauge[IdOf(t)] = value
StatusOK ==
  \A t \in Tasks : Alone(t) =>
    /\ at[t] = "dialing"  => Tells(t, "Handshaking", FALSE)
    /\ at[t] = "forward"  => Tells(t, "Connected", TRUE)
    /\ at[t] = "sleeping" => Tells(t, "ReconnectWait", FALSE)

(* sources.rs:77-133, README.md:73-76: seen from outside, apply brings the *)
(* new settings into force source by source, and disturbs no connection    *)
(* that the settings of its source do not ask it to.                       *)
Setting(entry, ignore) ==
  IF entry = Absent THEN Absent
  ELSE [connection |-> entry.connection, disabled |-> entry.disabled,
        insecure |-> ignore]

(* The id the loop is at, and those it is past. *)
Ongoing(id) == sup = "listed" /\ cur = id
Done(id) == sup # "remove" /\ id \notin todo /\ ~Ongoing(id)

Current(id) == IF listed[id] = None THEN Absent
               ELSE IF Ongoing(id) THEN prev ELSE config[listed[id]]

Wanted == [id \in Ids |-> Setting(desired[id], insecure)]
Given  == [id \in Ids |->
             Setting(Current(id), IF Done(id) THEN insecure ELSE insecure # sslChanged)]

Promise == INSTANCE Roster WITH
  Settings <- Settings, Nobody <- None,
  wanted <- Wanted, inForce <- Given, serving <- managed, begun <- tasks

KeepsPromise == Promise!Spec

(* sources.rs:117-126: no task is stopped but for a change to its source.  *)
Undisturbed ==
  [][\A t \in stopped' \ stopped : Given[IdOf(t)] # Wanted[IdOf(t)]]_vars

(* upstream.rs:46, 101, 166, sources.rs:163-168: a stopped task winds      *)
(* down.  It does what it was about to do when it was stopped, be that to  *)
(* take a configuration, to dial or to begin a wait, and stores what it    *)
(* stores on the way; but it does not go round again: whatever else        *)
(* happens, each of its steps leaves it fewer to do, at most nine in all.  *)
StepsLeft ==
  [label \in Labels |->
     IF label \in {"none", "dead"}                               THEN 0
     ELSE IF label \in {"top", "connect", "retry"}               THEN 1
     ELSE IF label \in {"spawned", "sleeping", "paused", "marked"} THEN 2
     ELSE IF label \in {"disabled", "down", "waiting"}           THEN 3
     ELSE IF label \in {"disable", "forward"}                    THEN 4
     ELSE IF label \in {"snapshot", "marking"}                   THEN 5
     ELSE IF label = "connected"                                 THEN 6
     ELSE IF label = "dialing"                                   THEN 7
     ELSE IF label = "request"                                   THEN 8
     ELSE 9]
WindsDown ==
  [][\A t \in stopped :
       at'[t] # at[t] => StepsLeft[at'[t]] < StepsLeft[at[t]]]_vars

(* sources.rs:136-207: what Fanout and Telemetry take for granted of the   *)
(* supervisor.  A runtime that is off the list never returns, its tasks    *)
(* were all told to end when it left, and so were those a task replaces.   *)
Phase(r) == IF r > runtimes THEN "new"
            ELSE IF \E id \in Ids : listed[id] = r THEN "listed" ELSE "removed"

Contract == INSTANCE Lifecycle WITH
  phase <- [r \in Runtimes |-> Phase(r)], owner <- idOf, serves <- rt,
  ended <- {t \in Tasks : at[t] = "dead"}

KeepsContract == Contract!Spec

(* static/index.html:510: "JSON list of configured analyzers and their     *)
(* current connection state."                                              *)
Quiet(id) == \A t \in 1..tasks : IdOf(t) = id => ~Alive(t)
DisabledShown ==
  sup = "idle" =>
    \A id \in Ids :
      listed[id] # None /\ desired[id].disabled /\ Quiet(id) =>
        shown[listed[id]] = "Disabled"

(* grafana/tangleveil-dashboard.json:55, 60: "Analyzers connected" is the  *)
(* sum of the gauges: that of an analyzer that is gone adds nothing to it. *)
RemovedNotCounted ==
  sup = "idle" =>
    \A id \in Ids : listed[id] = None /\ Quiet(id) => ~gauge[id]
=============================================================================
