------------------------------- MODULE Fanout -------------------------------
(***************************************************************************)
(* From the upstream connections to the downstream clients: publish_frame  *)
(* (src/upstream.rs) run by the tasks of the sources, the two kinds of     *)
(* broadcast channels it sends to, and source_ws, multiplex_ws and the     *)
(* client loops behind them (src/handlers.rs).                             *)
(*                                                                         *)
(* A step is what runs between two points at which another thread can act: *)
(* one atomic operation of publish_frame, one branch of a select!, one     *)
(* `.await' of a send.                                                     *)
(***************************************************************************)
EXTENDS Integers, Sequences, FiniteSets

CONSTANTS
  Sources,       \* source ids
  Runtimes,      \* SourceRuntimes; a source added again gets a new one
  SourceOf,      \* [Runtimes -> Sources]
  Tasks,         \* spawns of run_source_forever
  RuntimeOf,     \* [Tasks -> Runtimes]
  RawClients,    \* clients of /{source}
  MuxClients,    \* clients of /multiplex
  Plain,         \* the multiplex clients with no ?type, dedup or jaq
  Filter,        \* [MuxClients -> sets of sources], {} for no ?sources
  Mux,           \* the channel of multiplex_tx
  NoChannel,
  Capacity,      \* channel_capacity, as the channel rounds it
  MaxOutputs,    \* bound: messages a jaq program makes of a frame
  Quota,         \* bound: [Runtimes -> frames its tasks receive], at most
  MaxFrames      \* ... this many

Clients  == RawClients \cup MuxClients
Exact    == RawClients \cup Plain  \* each frame makes exactly one message
Channels == Runtimes \cup {Mux}

ASSUME ConfigurationAssumption ==
  /\ SourceOf \in [Runtimes -> Sources]
  /\ RuntimeOf \in [Tasks -> Runtimes]
  /\ Filter \in [MuxClients -> SUBSET Sources]
  /\ Plain \subseteq MuxClients
  /\ RawClients \cap MuxClients = {}
  /\ Mux \notin Runtimes
  /\ NoChannel \notin Channels

ASSUME BoundsAssumption ==
  /\ Capacity \in Nat \ {0}
  /\ MaxOutputs \in Nat \ {0}
  /\ MaxFrames \in Nat

ASSUME QuotaAssumption == Quota \in [Runtimes -> 0..MaxFrames]

Frames  == [task : Tasks, n : 1..MaxFrames]
Entries == [source : Sources, sequence : 0..(MaxFrames - 1), frame : Frames]

VARIABLES
  listed,    \* "new", "listed" or "removed": the runtime in state.sources
  tk,        \* where each task is
  stopped,   \* the tasks stop_task was called for
  received,  \* how many frames each task received
  sequence,  \* SourceRuntime.sequence
  taken,     \* the sequence number a task took for the frame in its hands
  log,       \* what was ever sent on each channel
  pc,        \* where each client's task is
  chan,      \* the channel its handshake chose
  cursor,    \* the position its receiver reads next
  left,      \* messages still to send for the frame read last
  peer,      \* "reads", "stalls" (and its buffers are full) or "left"
  first,     \* history: the position it subscribed at, 0 before
  got        \* history: the positions its messages were made of

supervisorVars == <<listed, stopped>>
taskVars   == <<tk, received, sequence, taken, log>>
clientVars == <<pc, chan, cursor, left, peer, first, got>>
vars == <<listed, stopped, tk, received, sequence, taken, log,
          pc, chan, cursor, left, peer, first, got>>

TasksOf(r) == {t \in Tasks : RuntimeOf[t] = r}

Init ==
  /\ listed = [r \in Runtimes |-> "new"]
  /\ tk = [t \in Tasks |-> "new"]
  /\ stopped = {}
  /\ received = [t \in Tasks |-> 0]
  /\ sequence = [r \in Runtimes |-> 0]
  /\ taken = [t \in Tasks |-> 0]
  /\ log = [ch \in Channels |-> <<>>]
  /\ pc = [c \in Clients |-> "out"]
  /\ chan = [c \in Clients |-> NoChannel]
  /\ cursor = [c \in Clients |-> 1]
  /\ left = [c \in Clients |-> 0]
  /\ peer = [c \in Clients |-> "reads"]
  /\ first = [c \in Clients |-> 0]
  /\ got = [c \in Clients |-> <<>>]
-----------------------------------------------------------------------------
(* The supervisor, as far as the channels and their senders are concerned. *)

AddSource(r) ==
  /\ listed[r] = "new"
  /\ \A q \in Runtimes : SourceOf[q] = SourceOf[r] => listed[q] # "listed"
  /\ listed' = [listed EXCEPT ![r] = "listed"]
  /\ UNCHANGED <<stopped, taskVars, clientVars>>

(* spawn_task: it stops the task before, and does not wait for its end. *)
StartTask(t) ==
  /\ listed[RuntimeOf[t]] = "listed"
  /\ tk[t] = "new"
  /\ tk' = [tk EXCEPT ![t] = "forward"]
  /\ stopped' = stopped \cup {u \in TasksOf(RuntimeOf[t]) : tk[u] # "new"}
  /\ UNCHANGED <<listed, received, sequence, taken, log, clientVars>>

StopTask(t) ==
  /\ tk[t] # "new"
  /\ t \notin stopped
  /\ stopped' = stopped \cup {t}
  /\ UNCHANGED <<listed, taskVars, clientVars>>

MutForgetTask(r) ==
  /\ listed[r] = "listed"
  /\ listed' = [listed EXCEPT ![r] = "removed"]
  /\ UNCHANGED <<stopped, taskVars, clientVars>>
RemoveSource(r) ==
  /\ listed[r] = "listed"
  /\ listed' = [listed EXCEPT ![r] = "removed"]
  /\ stopped' = stopped \cup {t \in TasksOf(r) : tk[t] # "new"}
  /\ UNCHANGED <<taskVars, clientVars>>
-----------------------------------------------------------------------------
(* The task of a source.  publish_frame has no `.await': once it began, a  *)
(* stopped task finishes it.                                               *)

(* The message in a task's hands, as the channels carry it.  (The raw      *)
(* channel carries the frame alone; the rest is history there.)            *)
MutReload(t) == [source |-> SourceOf[RuntimeOf[t]],
                 sequence |-> sequence[RuntimeOf[t]] - 1,
                 frame |-> [task |-> t, n |-> received[t]]]
Message(t) == [source |-> SourceOf[RuntimeOf[t]],
               sequence |-> taken[t],
               frame |-> [task |-> t, n |-> received[t]]]

Receive(t) ==
  /\ tk[t] = "forward"
  /\ sequence[RuntimeOf[t]] < Quota[RuntimeOf[t]]
  /\ tk' = [tk EXCEPT ![t] = "sequenced"]
  /\ received' = [received EXCEPT ![t] = @ + 1]
  /\ taken' = [taken EXCEPT ![t] = sequence[RuntimeOf[t]]]
  /\ sequence' = [sequence EXCEPT ![RuntimeOf[t]] = @ + 1]
  /\ UNCHANGED <<log, supervisorVars, clientVars>>

SendRaw(t) ==
  /\ tk[t] = "sequenced"
  /\ tk' = [tk EXCEPT ![t] = "sent"]
  /\ log' = [log EXCEPT ![RuntimeOf[t]] = Append(@, Message(t))]
  /\ UNCHANGED <<received, sequence, taken, supervisorVars, clientVars>>

SendMux(t) ==
  /\ tk[t] = "sent"
  /\ tk' = [tk EXCEPT ![t] = "forward"]
  /\ log' = [log EXCEPT ![Mux] = Append(@, Message(t))]
  /\ UNCHANGED <<received, sequence, taken, supervisorVars, clientVars>>

(* The cancelled token or the abort ends the task, at an `.await'. *)
MutDieAnywhere(t) ==
  /\ t \in stopped
  /\ tk[t] # "dead"
  /\ tk' = [tk EXCEPT ![t] = "dead"]
  /\ UNCHANGED <<received, sequence, taken, log, supervisorVars, clientVars>>
Die(t) ==
  /\ t \in stopped
  /\ tk[t] = "forward"
  /\ tk' = [tk EXCEPT ![t] = "dead"]
  /\ UNCHANGED <<received, sequence, taken, log, supervisorVars, clientVars>>
-----------------------------------------------------------------------------
(* The clients. *)

Published(c) == Len(log[chan[c]])
Lagging(c)   == Published(c) - cursor[c] + 1 > Capacity
Interest     == [c \in Clients |->
                   IF c \in RawClients \/ Filter[c] = {}
                   THEN Sources ELSE Filter[c]]
MutAll(c, p) == TRUE
Wanted(c, p) == log[chan[c]][p].source \in Interest[c]

(* How many messages a client's options make of a frame it wants. *)
Outputs(c) == IF c \in Exact THEN {1} ELSE 0..MaxOutputs

ListedSources == {SourceOf[r] : r \in {q \in Runtimes : listed[q] = "listed"}}

Goto(c, label) == pc' = [pc EXCEPT ![c] = label]

(* source_ws: 404 unless the source is listed; the runtime is kept. *)
ConnectRaw(c, r) ==
  /\ c \in RawClients
  /\ pc[c] = "out"
  /\ listed[r] = "listed"
  /\ Goto(c, "upgrading")
  /\ chan' = [chan EXCEPT ![c] = r]
  /\ UNCHANGED <<cursor, left, peer, first, got, taskVars, supervisorVars>>

(* multiplex_ws: 400 unless every source asked for is listed. *)
ConnectMux(c) ==
  /\ c \in MuxClients
  /\ pc[c] = "out"
  /\ Filter[c] \subseteq ListedSources
  /\ Goto(c, "upgrading")
  /\ chan' = [chan EXCEPT ![c] = Mux]
  /\ UNCHANGED <<cursor, left, peer, first, got, taskVars, supervisorVars>>

(* on_upgrade: the client subscribes only once the handshake is over. *)
Subscribe(c) ==
  /\ pc[c] = "upgrading"
  /\ Goto(c, "select")
  /\ cursor' = [cursor EXCEPT ![c] = Published(c) + 1]
  /\ first'  = [first EXCEPT ![c] = Published(c) + 1]
  /\ UNCHANGED <<chan, left, peer, got, taskVars, supervisorVars>>

UpgradeFails(c) ==
  /\ pc[c] = "upgrading"
  /\ Goto(c, "gone")
  /\ UNCHANGED <<chan, cursor, left, peer, first, got, taskVars, supervisorVars>>

(* rx.recv() gives the next frame, and the client's options say what is    *)
(* sent for it: nothing at all when its source is not asked for.           *)
Recv(c) ==
  /\ pc[c] = "select"
  /\ cursor[c] <= Published(c)
  /\ ~Lagging(c)
  /\ cursor' = [cursor EXCEPT ![c] = @ + 1]
  /\ \E n \in IF Wanted(c, cursor[c]) THEN Outputs(c) ELSE {0} :
       /\ left' = [left EXCEPT ![c] = n]
       /\ Goto(c, IF n = 0 THEN "select" ELSE "sending")
  /\ UNCHANGED <<chan, peer, first, got, taskVars, supervisorVars>>

(* rx.recv() gives Lagged: the receiver now is at the oldest entry kept,   *)
(* and the client is sent Close 1013.                                      *)
MutSkipAhead(c) ==
  /\ pc[c] = "select"
  /\ Lagging(c)
  /\ cursor' = [cursor EXCEPT ![c] = Published(c) - Capacity + 1]
  /\ UNCHANGED <<pc, chan, left, peer, first, got, taskVars, supervisorVars>>
Lag(c) ==
  /\ pc[c] = "select"
  /\ Lagging(c)
  /\ Goto(c, "closing")
  /\ cursor' = [cursor EXCEPT ![c] = Published(c) - Capacity + 1]
  /\ UNCHANGED <<chan, left, peer, first, got, taskVars, supervisorVars>>

(* rx.recv() gives Closed, once everything sent before was read: nobody    *)
(* holds a sender any more.  (multiplex_tx is held by the AppState.)       *)
Dropped(r) ==
  /\ listed[r] = "removed"
  /\ \A t \in TasksOf(r) : tk[t] \in {"new", "dead"}
  /\ \A c \in Clients : pc[c] = "upgrading" => chan[c] # r

Closed(c) ==
  /\ pc[c] = "select"
  /\ chan[c] # Mux /\ Dropped(chan[c])
  /\ cursor[c] > Published(c)
  /\ Goto(c, "gone")
  /\ UNCHANGED <<chan, cursor, left, peer, first, got, taskVars, supervisorVars>>

(* socket.send(..).await: it ends when the peer makes room, or is gone. *)
MutFirstOutput(c) ==
  /\ pc[c] = "sending"
  /\ peer[c] = "reads"
  /\ got' = [got EXCEPT ![c] = Append(@, cursor[c] - 1)]
  /\ left' = [left EXCEPT ![c] = @ - 1]
  /\ Goto(c, "select")
  /\ UNCHANGED <<chan, cursor, peer, first, taskVars, supervisorVars>>
SendDone(c) ==
  /\ pc[c] = "sending"
  /\ peer[c] = "reads"
  /\ got' = [got EXCEPT ![c] = Append(@, cursor[c] - 1)]
  /\ left' = [left EXCEPT ![c] = @ - 1]
  /\ Goto(c, IF left[c] = 1 THEN "select" ELSE "sending")
  /\ UNCHANGED <<chan, cursor, peer, first, taskVars, supervisorVars>>

PongDone(c) ==
  /\ pc[c] = "pong"
  /\ peer[c] = "reads"
  /\ Goto(c, "select")
  /\ UNCHANGED <<chan, cursor, left, peer, first, got, taskVars, supervisorVars>>

CloseDone(c) ==
  /\ pc[c] = "closing"
  /\ peer[c] = "reads"
  /\ Goto(c, "gone")
  /\ UNCHANGED <<chan, cursor, left, peer, first, got, taskVars, supervisorVars>>

SendFails(c) ==
  /\ pc[c] \in {"sending", "pong", "closing"}
  /\ peer[c] = "left"
  /\ Goto(c, "gone")
  /\ UNCHANGED <<chan, cursor, left, peer, first, got, taskVars, supervisorVars>>

(* socket.recv(): a Ping, or the end of the connection. *)
Ping(c) ==
  /\ pc[c] = "select"
  /\ peer[c] # "left"
  /\ Goto(c, "pong")
  /\ UNCHANGED <<chan, cursor, left, peer, first, got, taskVars, supervisorVars>>

PeerClosed(c) ==
  /\ pc[c] = "select"
  /\ peer[c] = "left"
  /\ Goto(c, "gone")
  /\ UNCHANGED <<chan, cursor, left, peer, first, got, taskVars, supervisorVars>>

(* The other end of the connection. *)
Connected(c) == pc[c] \in {"select", "sending", "pong", "closing"}

PeerTurns(c) ==
  /\ Connected(c)
  /\ \/ peer[c] = "reads"  /\ peer' = [peer EXCEPT ![c] = "stalls"]
     \/ peer[c] = "stalls" /\ peer' = [peer EXCEPT ![c] = "reads"]
     \/ peer[c] # "left"   /\ peer' = [peer EXCEPT ![c] = "left"]
  /\ UNCHANGED <<pc, chan, cursor, left, first, got, taskVars, supervisorVars>>
-----------------------------------------------------------------------------
Supervise ==
  \/ \E r \in Runtimes : AddSource(r) \/ RemoveSource(r)
  \/ \E t \in Tasks : StartTask(t) \/ StopTask(t)

Forward(t) == Receive(t) \/ SendRaw(t) \/ SendMux(t) \/ Die(t)

Branch(c) == Recv(c) \/ Lag(c) \/ Closed(c)
Complete(c) == SendDone(c) \/ PongDone(c) \/ CloseDone(c) \/ SendFails(c)

Serve(c) ==
  \/ \E r \in Runtimes : ConnectRaw(c, r)
  \/ ConnectMux(c)
  \/ Subscribe(c)
  \/ UpgradeFails(c)
  \/ Branch(c)
  \/ Complete(c)
  \/ Ping(c)
  \/ PeerClosed(c)

Next ==
  \/ Supervise
  \/ \E t \in Tasks : Forward(t)
  \/ \E c \in Clients : Serve(c) \/ PeerTurns(c)

Spec == Init /\ [][Next]_vars
-----------------------------------------------------------------------------
(* What the scheduling gives.  A task that can run does; an aborted task   *)
(* is dropped when it next returns to the runtime, whatever is ready then; *)
(* select! polls its branches in a random order, so a branch that is ready *)
(* again and again is taken.  Nothing makes a peer read, or the network    *)
(* deliver, or the operator act.                                           *)
Fairness ==
  /\ \A t \in Tasks :
       /\ WF_vars(SendRaw(t) \/ SendMux(t))
       /\ SF_vars(Die(t))
  /\ \A c \in Clients :
       /\ WF_vars(Subscribe(c) \/ UpgradeFails(c))
       /\ WF_vars(Complete(c))
       /\ SF_vars(Branch(c))
       /\ SF_vars(PeerClosed(c))

FairSpec == Spec /\ Fairness
-----------------------------------------------------------------------------
Promise == INSTANCE Feed WITH
  Clients <- Clients, Exact <- Exact, Channels <- Channels, Entries <- Entries,
  Interest <- Interest, NoChannel <- NoChannel,
  log <- log, chan <- chan, first <- first, got <- got

Contract == INSTANCE Lifecycle WITH
  Ids <- Sources, None <- NoChannel, phase <- listed,
  owner <- [r \in Runtimes |-> IF listed[r] = "new" THEN NoChannel ELSE SourceOf[r]],
  serves <- [t \in Tasks |-> IF tk[t] = "new" THEN NoChannel ELSE RuntimeOf[t]],
  ended <- {t \in Tasks : tk[t] = "dead"}

(* Types, and what each place of a client's loop means for its state.      *)
TypeOK ==
  /\ listed \in [Runtimes -> {"new", "listed", "removed"}]
  /\ tk \in [Tasks -> {"new", "forward", "sequenced", "sent", "dead"}]
  /\ stopped \subseteq Tasks
  /\ received \in [Tasks -> 0..MaxFrames]
  /\ sequence \in [Runtimes -> 0..MaxFrames]
  /\ taken \in [Tasks -> Nat]
  /\ log \in [Channels -> Seq(Entries)]
  /\ pc \in [Clients ->
             {"out", "upgrading", "select", "sending", "pong", "closing", "gone"}]
  /\ chan \in [Clients -> Channels \cup {NoChannel}]
  /\ cursor \in [Clients -> Nat \ {0}]
  /\ left \in [Clients -> Nat]
  /\ peer \in [Clients -> {"reads", "stalls", "left"}]
  /\ first \in [Clients -> Nat]
  /\ got \in [Clients -> Seq(Nat)]
  /\ \A t \in Tasks :
       /\ received[t] <= sequence[RuntimeOf[t]]
       /\ tk[t] \in {"sequenced", "sent"} =>
            received[t] > 0 /\ taken[t] < sequence[RuntimeOf[t]]
  /\ \A c \in Clients :
       /\ (pc[c] = "out") = (chan[c] = NoChannel)
       /\ Connected(c) => first[c] > 0
       /\ (pc[c] = "sending") = (left[c] > 0 /\ pc[c] # "gone")

(* README.md:13, 261: no silent gap.  What a client with no transforming   *)
(* option was sent is every frame it asked for, once and in order, from    *)
(* the frame after its subscription on, up to the latest one it was sent;  *)
(* any other client gets messages in the order of the frames, made of      *)
(* frames it asked for and that were published after it subscribed.        *)
NoGapFor(c) ==
  /\ \A i \in DOMAIN got[c] :
       got[c][i] \in first[c]..Published(c) /\ Wanted(c, got[c][i])
  /\ \A i, j \in DOMAIN got[c] : i < j => got[c][i] <= got[c][j]
  /\ c \in Exact =>
       /\ \A i, j \in DOMAIN got[c] : i < j => got[c][i] < got[c][j]
       /\ \A q \in first[c]..Promise!Last(c) :
            Wanted(c, q) => \E i \in DOMAIN got[c] : got[c][i] = q

NoGap == \A c \in Clients : NoGapFor(c)

(* The same for a client that is served: one that waits for its next frame *)
(* was sent all it asked for of what its receiver has read, and two exact  *)
(* clients of a channel that ask for the same were sent the same frames of *)
(* those both are past.                                                    *)
Given(c, q) == \E i \in DOMAIN got[c] : got[c][i] = q
NothingHeld ==
  \A c \in Exact :
    pc[c] \in {"select", "pong"} =>
      \A q \in first[c]..(cursor[c] - 1) : Wanted(c, q) => Given(c, q)
Past(c) == first[c]..Promise!Last(c)
Agreement ==
  \A c, d \in Exact :
    chan[c] = chan[d] /\ Interest[c] = Interest[d] =>
      \A q \in Past(c) \cap Past(d) : Given(c, q) <=> Given(d, q)

(* upstream.rs:308-320: the numbers in the envelopes.  Whatever tasks of a *)
(* source run at once, no two of its frames get the same sequence number;  *)
(* the frames of one task keep the order it received them in, in their     *)
(* numbers and on the channel; and a number that is missing is in the      *)
(* hands of a task: any other hole means a frame lost on the way.          *)
Sent(r) == {i \in DOMAIN log[Mux] : RuntimeOf[log[Mux][i].frame.task] = r}
SequencesOK ==
  \A r \in Runtimes :
    /\ \A i, j \in Sent(r) :
         i # j => log[Mux][i].sequence # log[Mux][j].sequence
    /\ \A i, j \in Sent(r) :
         i < j /\ log[Mux][i].frame.task = log[Mux][j].frame.task =>
           /\ log[Mux][i].sequence < log[Mux][j].sequence
           /\ log[Mux][i].frame.n < log[Mux][j].frame.n
    /\ \A n \in 0..(sequence[r] - 1) :
         \/ \E i \in Sent(r) : log[Mux][i].sequence = n
         \/ \E t \in TasksOf(r) : tk[t] \in {"sequenced", "sent"} /\ taken[t] = n

(* upstream.rs:297-321: a frame reaches both channels or neither, however  *)
(* its task is stopped: only a frame in the hands of a task is on one.     *)
FramesOn(ch) == {log[ch][i].frame : i \in DOMAIN log[ch]}
RawFrames == UNION {FramesOn(r) : r \in Runtimes}
InHand == {[task |-> t, n |-> received[t]] : t \in {u \in Tasks : tk[u] = "sent"}}
BothOrNeither ==
  /\ FramesOn(Mux) \cap InHand = {}
  /\ FramesOn(Mux) \cup InHand = RawFrames

(* upstream.rs:311: the channel of a runtime carries what its own tasks    *)
(* received, each frame once, those of a task in the order it received     *)
(* them, and all of them but the one a task has yet to send.               *)
OnRaw ==
  \A r \in Runtimes :
    /\ \A i \in DOMAIN log[r] : log[r][i].frame.task \in TasksOf(r)
    /\ \A i, j \in DOMAIN log[r] :
         i < j /\ log[r][i].frame.task = log[r][j].frame.task =>
           log[r][i].frame.n < log[r][j].frame.n
    /\ \A t \in TasksOf(r) : \A n \in 1..received[t] :
         \/ tk[t] = "sequenced" /\ n = received[t]
         \/ [task |-> t, n |-> n] \in FramesOn(r)

(* README.md:261: seen from outside, the whole machine is a feed: the      *)
(* tasks, the receivers, lagging and sockets that stall do not show but as *)
(* messages that come late, or never once the client is disconnected.      *)
KeepsPromise == Promise!Spec

(* sources.rs:136-207: its sources come and go as the supervisor has them. *)
KeepsContract == Contract!Spec

(* handlers.rs:329-336, 369-376: a client that reads what it is sent is    *)
(* disconnected once it fell behind the channel, however late it notices.  *)
Gone(c) == pc[c] = "gone"
LaggingLeaves ==
  \A c \in Clients :
    (Connected(c) /\ Lagging(c)) ~> (Gone(c) \/ peer[c] # "reads")

(* handlers.rs:377: the clients of a removed source are let go, with what  *)
(* was published before, whoever else held the runtime.                    *)
RemovedLetsGo ==
  \A c \in RawClients, r \in Runtimes :
    (chan[c] = r /\ listed[r] = "removed") ~> (Gone(c) \/ peer[c] # "reads")

(* README.md:13: "Disconnects downstream clients that cannot keep up." *)
SlowDisconnected ==
  \A c \in Clients : (Connected(c) /\ Lagging(c)) ~> Gone(c)
=============================================================================
