---------------------------- MODULE FanoutProofs ----------------------------
(***************************************************************************)
(* The fan-out for any number of sources, runtimes, tasks and clients, any *)
(* filters, any channel capacity.  Three invariants, each inductive on top *)
(* of the ones before it: the types, what publish_frame leaves in the      *)
(* channels (Publishing), and where a client is in its channel (Serving).  *)
(***************************************************************************)
EXTENDS Fanout, TLAPS

USE ConfigurationAssumption, BoundsAssumption

InFlight == {"sequenced", "sent"}

(* What a task in the middle of publish_frame sends is a message. *)
LEMMA MessageType ==
  ASSUME TypeOK, NEW t \in Tasks, tk[t] \in InFlight
  PROVE  Message(t) \in Entries
  BY DEF TypeOK, InFlight, Message, Entries, Frames

(* A send adds one entry at the end of one channel and changes nothing     *)
(* that is there.                                                          *)
LEMMA SendAppends ==
  ASSUME TypeOK, NEW t \in Tasks, tk[t] \in InFlight,
         NEW ch \in Channels, log' = [log EXCEPT ![ch] = Append(@, Message(t))]
  PROVE  /\ log' \in [Channels -> Seq(Entries)]
         /\ Len(log'[ch]) = Len(log[ch]) + 1
         /\ log'[ch][Len(log[ch]) + 1] = Message(t)
         /\ \A i \in 1..Len(log[ch]) : log'[ch][i] = log[ch][i]
         /\ \A d \in Channels \ {ch} : log'[d] = log[d]
  BY MessageType DEF TypeOK

-----------------------------------------------------------------------------
(* Type correctness. *)

LEMMA InitTypeOK == Init => TypeOK
  BY DEF Init, TypeOK, Channels, Clients, Connected

LEMMA SuperviseTypeOK == ASSUME TypeOK, Supervise PROVE TypeOK'
  <1> USE DEF TypeOK, Connected, taskVars, clientVars
  <1>1. ASSUME NEW r \in Runtimes, AddSource(r) PROVE TypeOK'
    BY <1>1 DEF AddSource
  <1>2. ASSUME NEW r \in Runtimes, RemoveSource(r) PROVE TypeOK'
    BY <1>2 DEF RemoveSource, TasksOf
  <1>3. ASSUME NEW t \in Tasks, StartTask(t) PROVE TypeOK'
    BY <1>3 DEF StartTask, TasksOf
  <1>4. ASSUME NEW t \in Tasks, StopTask(t) PROVE TypeOK'
    BY <1>4 DEF StopTask
  <1> QED
    BY <1>1, <1>2, <1>3, <1>4 DEF Supervise

LEMMA ForwardTypeOK ==
  ASSUME TypeOK, NEW t \in Tasks, Forward(t) PROVE TypeOK'
  <1> USE DEF TypeOK, Connected, supervisorVars, clientVars
  <1>1. CASE Receive(t)
    <2>1. RuntimeOf[t] \in Runtimes
      OBVIOUS
    <2>2. Quota[RuntimeOf[t]] \in 0..MaxFrames
      BY <2>1, QuotaAssumption, Zenon
    <2>3. sequence[RuntimeOf[t]] \in 0..MaxFrames
      BY <2>1
    <2>4. sequence[RuntimeOf[t]] < Quota[RuntimeOf[t]]
      BY <1>1 DEF Receive
    <2>5. sequence[RuntimeOf[t]] < MaxFrames
      BY <2>2, <2>3, <2>4
    <2> QED
      BY <1>1, <2>5 DEF Receive
  <1>2. CASE SendRaw(t)
    <2>1. log' \in [Channels -> Seq(Entries)]
      BY <1>2, SendAppends DEF SendRaw, InFlight, Channels
    <2> QED
      BY <1>2, <2>1 DEF SendRaw
  <1>3. CASE SendMux(t)
    <2>1. log' \in [Channels -> Seq(Entries)]
      BY <1>3, SendAppends DEF SendMux, InFlight, Channels
    <2> QED
      BY <1>3, <2>1 DEF SendMux
  <1>4. CASE Die(t)
    BY <1>4 DEF Die
  <1> QED
    BY <1>1, <1>2, <1>3, <1>4 DEF Forward

LEMMA ServeTypeOK ==
  ASSUME TypeOK, NEW c \in Clients, Serve(c) \/ PeerTurns(c) PROVE TypeOK'
  <1> USE DEF TypeOK, Connected, supervisorVars, taskVars, Goto
  <1>1. ASSUME NEW r \in Runtimes, ConnectRaw(c, r) PROVE TypeOK'
    BY <1>1 DEF ConnectRaw, Channels
  <1>2. CASE ConnectMux(c)
    BY <1>2 DEF ConnectMux, Channels
  <1>3. CASE Subscribe(c)
    <2>1. chan[c] \in Channels
      BY <1>3 DEF Subscribe
    <2>2. Published(c) \in Nat
      BY <2>1 DEF Published
    <2> QED
      BY <1>3, <2>1, <2>2 DEF Subscribe
  <1>4. CASE UpgradeFails(c)
    BY <1>4 DEF UpgradeFails
  <1>5. CASE Recv(c)
    <2>1. PICK n \in IF Wanted(c, cursor[c]) THEN Outputs(c) ELSE {0} :
            /\ left' = [left EXCEPT ![c] = n]
            /\ pc' = [pc EXCEPT ![c] = IF n = 0 THEN "select" ELSE "sending"]
      BY <1>5 DEF Recv
    <2>2. n \in Nat
      BY DEF Outputs
    <2> QED
      BY <1>5, <2>1, <2>2 DEF Recv
  <1>6. CASE Lag(c)
    <2>1. chan[c] \in Channels
      BY <1>6 DEF Lag
    <2>2. Published(c) \in Nat /\ Published(c) - Capacity + 1 \in Nat \ {0}
      BY <1>6, <2>1 DEF Lag, Lagging, Published
    <2> QED
      BY <1>6, <2>2 DEF Lag
  <1>7. CASE Closed(c)
    BY <1>7 DEF Closed
  <1>8. CASE SendDone(c)
    <2>0. pc[c] = "sending" /\ cursor[c] \in Nat \ {0} /\ left[c] \in Nat
      BY <1>8 DEF SendDone
    <2>1. left[c] > 0
      BY <2>0
    <2>2. cursor[c] - 1 \in Nat /\ left[c] - 1 \in Nat
      BY <2>0, <2>1
    <2>3. got' \in [Clients -> Seq(Nat)]
      BY <1>8, <2>2 DEF SendDone
    <2>4. left' \in [Clients -> Nat]
      BY <1>8, <2>2 DEF SendDone
    <2>5. /\ pc' = [pc EXCEPT ![c] = IF left[c] = 1 THEN "select" ELSE "sending"]
          /\ left' = [left EXCEPT ![c] = @ - 1]
          /\ UNCHANGED <<chan, first>>
      BY <1>8 DEF SendDone
    <2>6. \A d \in Clients : (pc'[d] = "sending") = (left'[d] > 0 /\ pc'[d] # "gone")
      BY <2>0, <2>1, <2>5
    <2> QED
      BY <1>8, <2>3, <2>4, <2>5, <2>6 DEF SendDone
  <1>9. CASE PongDone(c)
    BY <1>9 DEF PongDone
  <1>10. CASE CloseDone(c)
    BY <1>10 DEF CloseDone
  <1>11. CASE SendFails(c)
    BY <1>11 DEF SendFails
  <1>12. CASE Ping(c)
    BY <1>12 DEF Ping
  <1>13. CASE PeerClosed(c)
    BY <1>13 DEF PeerClosed
  <1>14. CASE PeerTurns(c)
    BY <1>14 DEF PeerTurns
  <1> HIDE DEF TypeOK, Connected, supervisorVars, taskVars, Goto
  <1>15. CASE Branch(c)
    BY <1>5, <1>6, <1>7, <1>15, Zenon DEF Branch
  <1>16. CASE Complete(c)
    BY <1>8, <1>9, <1>10, <1>11, <1>16, Zenon DEF Complete
  <1> QED
    BY <1>1, <1>2, <1>3, <1>4, <1>12, <1>13, <1>14, <1>15, <1>16, Zenon
    DEF Serve

(* The types hold, and a message is being sent exactly at the `.await' of  *)
(* a send (handlers.rs:301, 325, 365).                                     *)
THEOREM TypeCorrect == Spec => []TypeOK
  <1>1. TypeOK /\ [Next]_vars => TypeOK'
    <2> SUFFICES ASSUME TypeOK, [Next]_vars PROVE TypeOK'
      OBVIOUS
    <2>1. CASE UNCHANGED vars
      BY <2>1 DEF vars, TypeOK, Connected
    <2> QED
      BY <2>1, SuperviseTypeOK, ForwardTypeOK, ServeTypeOK DEF Next
  <1> QED
    BY <1>1, InitTypeOK, PTL DEF Spec
-----------------------------------------------------------------------------
(* Publishing: what publish_frame leaves behind.                           *)

TaskAt(i) == log[Mux][i].frame.task
NumberAt(i) == log[Mux][i].frame.n
SequenceAt(i) == log[Mux][i].sequence
Positions == 1..Len(log[Mux])

(* What is on the channel came before what is in a task's hands. *)
Behind ==
  \A i \in Positions :
    /\ NumberAt(i) <= received[TaskAt(i)]
    /\ SequenceAt(i) < sequence[RuntimeOf[TaskAt(i)]]
    /\ tk[TaskAt(i)] \in InFlight =>
         /\ NumberAt(i) < received[TaskAt(i)]
         /\ SequenceAt(i) < taken[TaskAt(i)]

(* A number taken is on the channel or in one task's hands, never both. *)
TakenOnce ==
  /\ \A t \in Tasks : tk[t] \in InFlight =>
       /\ \A i \in Positions :
            RuntimeOf[TaskAt(i)] = RuntimeOf[t] => SequenceAt(i) # taken[t]
       /\ \A u \in Tasks \ {t} :
            RuntimeOf[u] = RuntimeOf[t] /\ tk[u] \in InFlight =>
              taken[u] # taken[t]
  /\ \A i, j \in Positions :
       i # j /\ RuntimeOf[TaskAt(i)] = RuntimeOf[TaskAt(j)] =>
         SequenceAt(i) # SequenceAt(j)

Ordered ==
  \A i, j \in Positions :
    i < j /\ TaskAt(i) = TaskAt(j) =>
      SequenceAt(i) < SequenceAt(j) /\ NumberAt(i) < NumberAt(j)

NoneMissing ==
  \A r \in Runtimes : \A n \in 0..(sequence[r] - 1) :
    \/ \E i \in Positions : RuntimeOf[TaskAt(i)] = r /\ SequenceAt(i) = n
    \/ \E t \in Tasks : /\ RuntimeOf[t] = r
                        /\ tk[t] \in InFlight
                        /\ taken[t] = n

Publishing == Behind /\ TakenOnce /\ Ordered /\ NoneMissing

LEMMA InitPublishing == Init => Publishing
  BY DEF Init, Publishing, Behind, TakenOnce, Ordered, NoneMissing, Positions,
         Channels, InFlight

(* Every number and every entry has its place in the types. *)
LEMMA PositionTypes ==
  ASSUME TypeOK
  PROVE  /\ Positions \subseteq Nat
         /\ DOMAIN log[Mux] = Positions
         /\ \A i \in Positions : /\ TaskAt(i) \in Tasks
                                 /\ NumberAt(i) \in Nat
                                 /\ SequenceAt(i) \in Nat
  <1>1. log[Mux] \in Seq(Entries)
    BY DEF TypeOK, Channels
  <1>2. \A i \in Positions : log[Mux][i] \in Entries
    BY <1>1 DEF Positions
  <1> QED
    BY <1>1, <1>2 DEF Positions, TaskAt, NumberAt, SequenceAt, Entries, Frames

(* A step that leaves the multiplex channel and what is in flight alone. *)
LEMMA PublishingUnchanged ==
  ASSUME TypeOK, Publishing,
         log'[Mux] = log[Mux], UNCHANGED <<received, sequence, taken>>,
         \A t \in Tasks : (tk'[t] \in InFlight) = (tk[t] \in InFlight)
  PROVE  Publishing'
  <1>1. /\ Positions' = Positions
        /\ \A i : /\ TaskAt(i)' = TaskAt(i)
                  /\ NumberAt(i)' = NumberAt(i)
                  /\ SequenceAt(i)' = SequenceAt(i)
    BY DEF Positions, TaskAt, NumberAt, SequenceAt
  <1>2. Behind'
    BY <1>1, PositionTypes DEF Publishing, Behind
  <1>3. TakenOnce'
    BY <1>1, PositionTypes DEF Publishing, TakenOnce
  <1>4. Ordered'
    BY <1>1 DEF Publishing, Ordered
  <1>5. NoneMissing'
    BY <1>1 DEF Publishing, NoneMissing
  <1> QED
    BY <1>2, <1>3, <1>4, <1>5 DEF Publishing

LEMMA ReceivePublishing ==
  ASSUME TypeOK, Publishing, NEW t \in Tasks, Receive(t)
  PROVE  Publishing'
  <1> USE DEF InFlight
  <1>1. /\ Positions' = Positions
        /\ \A i : /\ TaskAt(i)' = TaskAt(i)
                  /\ NumberAt(i)' = NumberAt(i)
                  /\ SequenceAt(i)' = SequenceAt(i)
    BY DEF Positions, TaskAt, NumberAt, SequenceAt, Receive
  <1>2. /\ tk' = [tk EXCEPT ![t] = "sequenced"]
        /\ received' = [received EXCEPT ![t] = @ + 1]
        /\ taken' = [taken EXCEPT ![t] = sequence[RuntimeOf[t]]]
        /\ sequence' = [sequence EXCEPT ![RuntimeOf[t]] = @ + 1]
        /\ tk[t] = "forward"
    BY DEF Receive
  <1>3. /\ tk \in [Tasks -> {"new", "forward", "sequenced", "sent", "dead"}]
        /\ received \in [Tasks -> Nat] /\ taken \in [Tasks -> Nat]
        /\ sequence \in [Runtimes -> Nat]
        /\ \A u \in Tasks :
             tk[u] \in InFlight => taken[u] < sequence[RuntimeOf[u]]
    BY DEF TypeOK
  <1>4. Behind'
    BY <1>1, <1>2, <1>3, PositionTypes DEF Publishing, Behind
  <1>5. TakenOnce'
    BY <1>1, <1>2, <1>3, PositionTypes DEF Publishing, TakenOnce, Behind
  <1>6. Ordered'
    BY <1>1 DEF Publishing, Ordered
  <1>7. NoneMissing'
    BY <1>1, <1>2, <1>3 DEF Publishing, NoneMissing
  <1> QED
    BY <1>4, <1>5, <1>6, <1>7 DEF Publishing

LEMMA SendMuxPublishing ==
  ASSUME TypeOK, Publishing, NEW t \in Tasks, SendMux(t)
  PROVE  Publishing'
  <1> USE DEF InFlight
  <1>0. PICK new \in Nat : new = Len(log[Mux]) + 1
    BY DEF TypeOK, Channels
  <1>1. /\ new \notin Positions
        /\ Positions' = Positions \cup {new}
        /\ \A i \in Positions : /\ i < new
                                /\ TaskAt(i)' = TaskAt(i)
                                /\ NumberAt(i)' = NumberAt(i)
                                /\ SequenceAt(i)' = SequenceAt(i)
        /\ TaskAt(new)' = t
        /\ NumberAt(new)' = received[t]
        /\ SequenceAt(new)' = taken[t]
    <2>1. Mux \in Channels /\ Len(log[Mux]) \in Nat
      BY DEF Channels, TypeOK
    <2>2. /\ Len(log'[Mux]) = Len(log[Mux]) + 1
          /\ log'[Mux][Len(log[Mux]) + 1] = Message(t)
          /\ \A i \in 1..Len(log[Mux]) : log'[Mux][i] = log[Mux][i]
      BY <2>1, SendAppends DEF SendMux
    <2> QED
      BY <1>0, <2>1, <2>2 DEF Positions, TaskAt, NumberAt, SequenceAt, Message
  <1>2. /\ tk' = [tk EXCEPT ![t] = "forward"]
        /\ UNCHANGED <<received, taken, sequence>>
        /\ tk[t] = "sent"
    BY DEF SendMux
  <1>3. /\ tk \in [Tasks -> {"new", "forward", "sequenced", "sent", "dead"}]
        /\ received \in [Tasks -> Nat] /\ taken \in [Tasks -> Nat]
        /\ sequence \in [Runtimes -> Nat]
        /\ taken[t] < sequence[RuntimeOf[t]]
    BY <1>2 DEF TypeOK
  <1>4. Behind'
    BY <1>1, <1>2, <1>3, PositionTypes DEF Publishing, Behind
  <1>5. TakenOnce'
    BY <1>1, <1>2, <1>3, PositionTypes DEF Publishing, TakenOnce
  <1>6. Ordered'
    BY <1>1, <1>2, <1>3, PositionTypes DEF Publishing, Ordered, Behind
  <1>7. NoneMissing'
    BY <1>1, <1>2, <1>3 DEF Publishing, NoneMissing
  <1> QED
    BY <1>4, <1>5, <1>6, <1>7 DEF Publishing

(* A step of a client leaves publishing and the supervisor alone. *)
LEMMA OtherStepsKeepTasks ==
  ASSUME NEW c \in Clients, Serve(c) \/ PeerTurns(c)
  PROVE  UNCHANGED taskVars /\ UNCHANGED supervisorVars
  BY DEF Serve, PeerTurns, Branch, Complete, ConnectRaw, ConnectMux, Subscribe,
         UpgradeFails, Recv, Lag, Closed, SendDone, PongDone, CloseDone,
         SendFails, Ping, PeerClosed

LEMMA StepPublishing ==
  ASSUME TypeOK, Publishing, [Next]_vars PROVE Publishing'
  <1>1. CASE UNCHANGED taskVars
    BY <1>1, PublishingUnchanged DEF taskVars
  <1>2. CASE Supervise
    <2>1. ASSUME NEW t \in Tasks, StartTask(t) PROVE Publishing'
      <3>1. UNCHANGED <<log, received, sequence, taken>>
        BY <2>1 DEF StartTask
      <3>2. \A u \in Tasks : (tk'[u] \in InFlight) = (tk[u] \in InFlight)
        BY <2>1 DEF StartTask, InFlight, TypeOK
      <3> QED
        BY <3>1, <3>2, PublishingUnchanged
    <2>2. ASSUME NEW t \in Tasks, StopTask(t) PROVE Publishing'
      BY <2>2, <1>1 DEF StopTask
    <2>3. ASSUME NEW r \in Runtimes, AddSource(r) \/ RemoveSource(r)
          PROVE  Publishing'
      BY <2>3, <1>1 DEF AddSource, RemoveSource
    <2> QED
      BY <1>2, <2>1, <2>2, <2>3 DEF Supervise
  <1>3. ASSUME NEW t \in Tasks, Forward(t) PROVE Publishing'
    <2>1. CASE Receive(t)
      BY <2>1, ReceivePublishing
    <2>2. CASE SendMux(t)
      BY <2>2, SendMuxPublishing
    <2>3. CASE SendRaw(t) \/ Die(t)
      <3>1. UNCHANGED <<received, sequence, taken>> /\ log'[Mux] = log[Mux]
        BY <2>3 DEF SendRaw, Die, TypeOK, Channels
      <3>2. \A u \in Tasks : (tk'[u] \in InFlight) = (tk[u] \in InFlight)
        BY <2>3 DEF SendRaw, Die, InFlight, TypeOK
      <3> QED
        BY <3>1, <3>2, PublishingUnchanged
    <2> QED
      BY <1>3, <2>1, <2>2, <2>3 DEF Forward
  <1>4. ASSUME NEW c \in Clients, Serve(c) \/ PeerTurns(c) PROVE Publishing'
    BY <1>1, <1>4, OtherStepsKeepTasks
  <1>5. CASE UNCHANGED vars
    BY <1>1, <1>5 DEF vars, taskVars
  <1> QED
    BY <1>2, <1>3, <1>4, <1>5 DEF Next

(* upstream.rs:308-320: sequence numbers are unique per source runtime,    *)
(* follow the order of receipt, and one that is missing is in a task's     *)
(* hands.                                                                  *)
THEOREM SequencesCorrect == Spec => []SequencesOK
  <1>1. TypeOK /\ Publishing => SequencesOK
    <2> SUFFICES ASSUME TypeOK, Publishing, NEW r \in Runtimes
                 PROVE  SequencesOK!(r)
      BY DEF SequencesOK
    <2>1. Sent(r) = {i \in Positions : RuntimeOf[TaskAt(i)] = r}
      BY PositionTypes DEF Sent, TaskAt
    <2> QED
      BY <2>1, PositionTypes
      DEF Publishing, TakenOnce, Ordered, NoneMissing, InFlight, TasksOf,
          TaskAt, SequenceAt, NumberAt
  <1>2. TypeOK /\ TypeOK' /\ Publishing /\ [Next]_vars => Publishing'
    BY StepPublishing
  <1> QED
    BY <1>1, <1>2, InitPublishing, TypeCorrect, PTL DEF Spec
-----------------------------------------------------------------------------
(* A frame reaches both channels or neither. *)

LEMMA FramesGrow ==
  ASSUME TypeOK, NEW t \in Tasks, tk[t] \in InFlight,
         NEW ch \in Channels, log' = [log EXCEPT ![ch] = Append(@, Message(t))]
  PROVE  /\ FramesOn(ch)' = FramesOn(ch) \cup {[task |-> t, n |-> received[t]]}
         /\ \A d \in Channels \ {ch} : FramesOn(d)' = FramesOn(d)
  <1>0. /\ Len(log'[ch]) = Len(log[ch]) + 1
        /\ log'[ch][Len(log[ch]) + 1] = Message(t)
        /\ \A i \in 1..Len(log[ch]) : log'[ch][i] = log[ch][i]
        /\ \A d \in Channels \ {ch} : log'[d] = log[d]
    BY SendAppends
  <1>1. /\ DOMAIN log[ch] = 1..Len(log[ch]) /\ Len(log[ch]) \in Nat
        /\ DOMAIN log'[ch] = 1..Len(log'[ch])
    BY SendAppends DEF TypeOK
  <1>2. Message(t).frame = [task |-> t, n |-> received[t]]
    BY DEF Message
  <1>3. FramesOn(ch)' = FramesOn(ch) \cup {[task |-> t, n |-> received[t]]}
    <2>1. FramesOn(ch)' = {log'[ch][i].frame : i \in 1..(Len(log[ch]) + 1)}
      BY <1>0, <1>1 DEF FramesOn
    <2>2. FramesOn(ch) = {log'[ch][i].frame : i \in 1..Len(log[ch])}
      <3>1. FramesOn(ch) = {log[ch][i].frame : i \in 1..Len(log[ch])}
        BY <1>1, Zenon DEF FramesOn
      <3>2. \A i \in 1..Len(log[ch]) : log[ch][i].frame = log'[ch][i].frame
        BY <1>0
      <3> QED
        BY <3>1, <3>2
    <2>3. 1..(Len(log[ch]) + 1) = 1..Len(log[ch]) \cup {Len(log[ch]) + 1}
      BY <1>1
    <2>4. log'[ch][Len(log[ch]) + 1].frame = [task |-> t, n |-> received[t]]
      BY <1>0, <1>2
    <2> QED
      BY <2>1, <2>2, <2>3, <2>4
  <1>4. \A d \in Channels \ {ch} : FramesOn(d)' = FramesOn(d)
    BY <1>0 DEF FramesOn
  <1> QED
    BY <1>3, <1>4

LEMMA StepBothOrNeither ==
  ASSUME TypeOK, Publishing, BothOrNeither, [Next]_vars PROVE BothOrNeither'
  <1> DEFINE hand(t) == [task |-> t, n |-> received[t]]
  <1>0. Mux \in Channels /\ Runtimes \subseteq Channels \ {Mux}
    BY DEF Channels
  <1>1. ASSUME log' = log, UNCHANGED received,
               \A t \in Tasks : (tk'[t] = "sent") = (tk[t] = "sent")
        PROVE  BothOrNeither'
    <2>1. \A ch : FramesOn(ch)' = FramesOn(ch)
      BY <1>1 DEF FramesOn
    <2>2. InHand' = InHand
      BY <1>1 DEF InHand
    <2> QED
      BY <2>1, <2>2 DEF BothOrNeither, RawFrames
  <1>2. CASE UNCHANGED taskVars
    BY <1>1, <1>2 DEF taskVars
  <1>3. CASE Supervise
    <2>1. ASSUME NEW t \in Tasks, StartTask(t) PROVE BothOrNeither'
      BY <1>1, <2>1 DEF StartTask, TypeOK
    <2>2. ASSUME NEW t \in Tasks, StopTask(t) PROVE BothOrNeither'
      BY <1>2, <2>2 DEF StopTask
    <2>3. ASSUME NEW r \in Runtimes, AddSource(r) \/ RemoveSource(r)
          PROVE  BothOrNeither'
      BY <1>2, <2>3 DEF AddSource, RemoveSource
    <2> QED
      BY <1>3, <2>1, <2>2, <2>3 DEF Supervise
  <1>4. ASSUME NEW t \in Tasks, Forward(t) PROVE BothOrNeither'
    <2>1. CASE Receive(t)
      <3>1. InHand' = InHand
        BY <2>1 DEF Receive, InHand, TypeOK
      <3>2. \A ch : FramesOn(ch)' = FramesOn(ch)
        BY <2>1 DEF Receive, FramesOn
      <3> QED
        BY <3>1, <3>2 DEF BothOrNeither, RawFrames
    <2>2. CASE SendRaw(t)
      <3>1. /\ FramesOn(RuntimeOf[t])' = FramesOn(RuntimeOf[t]) \cup {hand(t)}
            /\ \A d \in Channels \ {RuntimeOf[t]} : FramesOn(d)' = FramesOn(d)
        BY <1>0, <2>2, FramesGrow DEF SendRaw, InFlight
      <3>2. InHand' = InHand \cup {hand(t)}
        BY <2>2 DEF SendRaw, InHand, TypeOK
      <3>3. hand(t) \notin FramesOn(Mux)
        <4>1. \A i \in Positions :
                TaskAt(i) = t => NumberAt(i) \in Nat /\ NumberAt(i) < received[t]
          BY <2>2, PositionTypes DEF SendRaw, Publishing, Behind, InFlight
        <4>2. \A i \in DOMAIN log[Mux] : log[Mux][i].frame # hand(t)
          <5> SUFFICES ASSUME NEW i \in Positions,
                              log[Mux][i].frame = hand(t)
                       PROVE  FALSE
            BY PositionTypes
          <5>1. TaskAt(i) = t /\ NumberAt(i) = received[t]
            BY DEF TaskAt, NumberAt
          <5>2. received[t] \in Nat
            BY DEF TypeOK
          <5> QED
            BY <4>1, <5>1, <5>2
        <4> QED
          BY <4>2 DEF FramesOn
      <3>4. FramesOn(Mux)' = FramesOn(Mux)
        BY <1>0, <3>1
      <3>5. RawFrames' = RawFrames \cup {hand(t)}
        <4>1. RuntimeOf[t] \in Runtimes
          OBVIOUS
        <4>2. \A r \in Runtimes :
                FramesOn(r)' = IF r = RuntimeOf[t]
                               THEN FramesOn(r) \cup {hand(t)} ELSE FramesOn(r)
          BY <1>0, <3>1, <4>1
        <4> QED
          BY <4>1, <4>2 DEF RawFrames
      <3> QED
        BY <3>2, <3>3, <3>4, <3>5 DEF BothOrNeither
    <2>3. CASE SendMux(t)
      <3>1. /\ FramesOn(Mux)' = FramesOn(Mux) \cup {hand(t)}
            /\ \A r \in Runtimes : FramesOn(r)' = FramesOn(r)
        BY <1>0, <2>3, FramesGrow DEF SendMux, InFlight
      <3>2. InHand' = InHand \ {hand(t)} /\ hand(t) \in InHand
        <4>1. tk[t] = "sent" /\ tk' = [tk EXCEPT ![t] = "forward"]
              /\ received' = received 
              /\ tk \in [Tasks ->
                         {"new", "forward", "sequenced", "sent", "dead"}]
          BY <2>3 DEF SendMux, TypeOK
        <4>2. {u \in Tasks : tk'[u] = "sent"} = {u \in Tasks : tk[u] = "sent"} \ {t}
          BY <4>1
        <4>3. \A u \in Tasks : hand(u) = hand(t) => u = t
          OBVIOUS
        <4> QED
          BY <4>1, <4>2, <4>3 DEF InHand
      <3>3. RawFrames' = RawFrames
        BY <3>1 DEF RawFrames
      <3> QED
        BY <3>1, <3>2, <3>3 DEF BothOrNeither
    <2>4. CASE Die(t)
      BY <1>1, <2>4 DEF Die, TypeOK
    <2> QED
      BY <1>4, <2>1, <2>2, <2>3, <2>4 DEF Forward
  <1>5. ASSUME NEW c \in Clients, Serve(c) \/ PeerTurns(c) PROVE BothOrNeither'
    BY <1>2, <1>5, OtherStepsKeepTasks
  <1>6. CASE UNCHANGED vars
    BY <1>2, <1>6 DEF vars, taskVars
  <1> QED
    BY <1>3, <1>4, <1>5, <1>6 DEF Next

(* upstream.rs:297-321: stopping a task never splits a frame's publication. *)
THEOREM BothOrNeitherCorrect == Spec => []BothOrNeither
  <1>1. Init => BothOrNeither
    BY DEF Init, BothOrNeither, FramesOn, RawFrames, InHand, Channels
  <1>2. TypeOK /\ Publishing /\ BothOrNeither /\ [Next]_vars => BothOrNeither'
    BY StepBothOrNeither
  <1>3. TypeOK /\ Publishing /\ [Next]_vars => Publishing'
    BY StepPublishing
  <1> QED
    BY <1>1, <1>2, <1>3, InitPublishing, TypeCorrect, PTL DEF Spec
-----------------------------------------------------------------------------
(* The channel of a runtime. *)

(* What is there came before what a task has yet to send there. *)
RawBehind ==
  \A r \in Runtimes : \A i \in DOMAIN log[r] :
    LET f == log[r][i].frame IN
      /\ f.n <= received[f.task]
      /\ tk[f.task] = "sequenced" => f.n < received[f.task]

LEMMA RawTypes ==
  ASSUME TypeOK, NEW r \in Runtimes
  PROVE  /\ log[r] \in Seq(Entries) /\ Len(log[r]) \in Nat
         /\ DOMAIN log[r] = 1..Len(log[r])
         /\ \A i \in DOMAIN log[r] : /\ log[r][i].frame.task \in Tasks
                                     /\ log[r][i].frame.n \in Nat
  <1>1. log[r] \in Seq(Entries)
    BY DEF TypeOK, Channels
  <1>2. \A i \in DOMAIN log[r] : log[r][i] \in Entries
    BY <1>1
  <1> QED
    BY <1>1, <1>2 DEF Entries, Frames

LEMMA SendRawOnRaw ==
  ASSUME TypeOK, OnRaw, RawBehind, NEW t \in Tasks, SendRaw(t)
  PROVE  OnRaw' /\ RawBehind'
  <1> DEFINE ch == RuntimeOf[t]
             new == Len(log[ch]) + 1
  <1>1. /\ ch \in Runtimes /\ ch \in Channels /\ new \in Nat
        /\ tk[t] = "sequenced" /\ tk' = [tk EXCEPT ![t] = "sent"]
        /\ UNCHANGED received /\ received[t] \in Nat
        /\ tk \in [Tasks -> {"new", "forward", "sequenced", "sent", "dead"}]
    BY DEF SendRaw, Channels, TypeOK
  <1>2. /\ DOMAIN log'[ch] = DOMAIN log[ch] \cup {new}
        /\ \A i \in DOMAIN log[ch] : i \in Nat /\ i < new /\ log'[ch][i] = log[ch][i]
        /\ log'[ch][new].frame = [task |-> t, n |-> received[t]]
        /\ \A r \in Runtimes \ {ch} : log'[r] = log[r]
    <2>1. /\ log' \in [Channels -> Seq(Entries)]
          /\ Len(log'[ch]) = new
          /\ log'[ch][new] = Message(t)
          /\ \A i \in 1..Len(log[ch]) : log'[ch][i] = log[ch][i]
          /\ \A d \in Channels \ {ch} : log'[d] = log[d]
      BY <1>1, SendAppends DEF SendRaw, InFlight
    <2>2. DOMAIN log'[ch] = 1..new /\ DOMAIN log[ch] = 1..(new - 1)
      BY <1>1, <2>1, RawTypes
    <2> QED
      BY <1>1, <2>1, <2>2, RawTypes DEF Message, Channels
  <1> HIDE DEF ch, new
  <1>3. RawBehind'
    <2> SUFFICES ASSUME NEW r \in Runtimes, NEW i \in DOMAIN log'[r]
                 PROVE  /\ log'[r][i].frame.n <= received[log'[r][i].frame.task]
                        /\ tk'[log'[r][i].frame.task] = "sequenced" =>
                             log'[r][i].frame.n < received[log'[r][i].frame.task]
      BY <1>1 DEF RawBehind
    <2>1. CASE r = ch /\ i = new
      BY <1>1, <1>2, <2>1
    <2>2. CASE ~(r = ch /\ i = new)
      <3>1. i \in DOMAIN log[r] /\ log'[r][i] = log[r][i]
        BY <1>2, <2>2
      <3> QED
        BY <1>1, <3>1, RawTypes DEF RawBehind
    <2> QED
      BY <2>1, <2>2
  <1>4. \A r \in Runtimes : \A i \in DOMAIN log'[r] :
          log'[r][i].frame.task \in TasksOf(r)
    BY <1>1, <1>2 DEF OnRaw, TasksOf, ch
  <1>5. ASSUME NEW r \in Runtimes, NEW i \in DOMAIN log'[r], NEW j \in DOMAIN log'[r],
               i < j, log'[r][i].frame.task = log'[r][j].frame.task
        PROVE  log'[r][i].frame.n < log'[r][j].frame.n
    <2>1. CASE r # ch
      BY <1>2, <1>5, <2>1 DEF OnRaw
    <2>2. CASE r = ch /\ j # new
      <3>1. j \in DOMAIN log[ch] /\ i # new
        BY <1>1, <1>2, <1>5, <2>2
      <3> QED
        BY <1>2, <1>5, <2>2, <3>1 DEF OnRaw
    <2>3. CASE r = ch /\ j = new
      <3>1. i \in DOMAIN log[ch] /\ log'[ch][i] = log[ch][i]
        BY <1>1, <1>2, <1>5, <2>3
      <3>2. log[ch][i].frame.task = t
        BY <1>2, <1>5, <2>3, <3>1
      <3> QED
        BY <1>1, <1>2, <2>3, <3>1, <3>2 DEF RawBehind
    <2> QED
      BY <2>1, <2>2, <2>3
  <1>6. /\ FramesOn(ch)' = FramesOn(ch) \cup {[task |-> t, n |-> received[t]]}
        /\ \A d \in Channels \ {ch} : FramesOn(d)' = FramesOn(d)
    BY <1>1, FramesGrow DEF SendRaw, InFlight, ch
  <1>7. ASSUME NEW r \in Runtimes, NEW u \in TasksOf(r), NEW n \in 1..received[u]
        PROVE  \/ tk'[u] = "sequenced" /\ n = received[u]
               \/ [task |-> u, n |-> n] \in FramesOn(r)'
    <2>1. FramesOn(r) \subseteq FramesOn(r)'
      BY <1>6 DEF Channels
    <2>2. CASE u # t
      BY <1>1, <1>7, <2>1, <2>2 DEF OnRaw, TasksOf
    <2>3. CASE u = t
      <3>1. r = ch
        BY <2>3 DEF TasksOf, ch
      <3> QED
        BY <1>6, <1>7, <2>1, <2>3, <3>1 DEF OnRaw
    <2> QED
      BY <2>2, <2>3
  <1>8. OnRaw'
    BY <1>1, <1>4, <1>5, <1>7 DEF OnRaw, TasksOf
  <1> QED
    BY <1>3, <1>8

LEMMA StepOnRaw ==
  ASSUME TypeOK, OnRaw, RawBehind, [Next]_vars PROVE OnRaw' /\ RawBehind'
  <1>1. ASSUME \A r \in Runtimes : log'[r] = log[r], UNCHANGED received,
               \A t \in Tasks : (tk'[t] = "sequenced") = (tk[t] = "sequenced")
        PROVE  OnRaw' /\ RawBehind'
    <2>1. \A r \in Runtimes : FramesOn(r)' = FramesOn(r)
      BY <1>1 DEF FramesOn
    <2>2. OnRaw'
      BY <1>1, <2>1 DEF OnRaw, TasksOf
    <2>3. RawBehind'
      BY <1>1, RawTypes DEF RawBehind
    <2> QED
      BY <2>2, <2>3
  <1>2. CASE UNCHANGED taskVars
    BY <1>1, <1>2 DEF taskVars
  <1>3. CASE Supervise
    <2>1. ASSUME NEW t \in Tasks, StartTask(t) PROVE OnRaw' /\ RawBehind'
      BY <1>1, <2>1 DEF StartTask, TypeOK
    <2>2. ASSUME NEW t \in Tasks, StopTask(t) PROVE UNCHANGED taskVars
      BY <2>2 DEF StopTask
    <2>3. ASSUME NEW r \in Runtimes, AddSource(r) \/ RemoveSource(r)
          PROVE  UNCHANGED taskVars
      BY <2>3 DEF AddSource, RemoveSource
    <2> QED
      BY <1>2, <1>3, <2>1, <2>2, <2>3 DEF Supervise
  <1>4. ASSUME NEW t \in Tasks, Receive(t) PROVE OnRaw' /\ RawBehind'
    <2>1. /\ tk[t] = "forward" /\ tk' = [tk EXCEPT ![t] = "sequenced"]
          /\ received' = [received EXCEPT ![t] = @ + 1] /\ log' = log
          /\ tk \in [Tasks -> {"new", "forward", "sequenced", "sent", "dead"}]
          /\ received \in [Tasks -> Nat]
      BY <1>4 DEF Receive, TypeOK
    <2>2. RawBehind'
      BY <2>1, RawTypes DEF RawBehind
    <2>3. ASSUME NEW r \in Runtimes, NEW u \in TasksOf(r), NEW n \in 1..received'[u]
          PROVE  \/ tk'[u] = "sequenced" /\ n = received'[u]
                 \/ [task |-> u, n |-> n] \in FramesOn(r)
      <3>1. CASE u # t
        BY <2>1, <2>3, <3>1 DEF OnRaw, TasksOf
      <3>2. CASE u = t
        <4>1. n = received'[t] \/ n \in 1..received[t]
          BY <2>1, <2>3, <3>2
        <4> QED
          BY <2>1, <2>3, <3>2, <4>1 DEF OnRaw
      <3> QED
        BY <3>1, <3>2
    <2>4. \A r : FramesOn(r)' = FramesOn(r)
      BY <2>1 DEF FramesOn
    <2>5. OnRaw'
      BY <2>1, <2>3, <2>4 DEF OnRaw, TasksOf
    <2> QED
      BY <2>2, <2>5
  <1>5. ASSUME NEW t \in Tasks, SendMux(t) \/ Die(t) PROVE OnRaw' /\ RawBehind'
    <2>1. /\ \A r \in Runtimes : log'[r] = log[r]
          /\ UNCHANGED received
      BY <1>5 DEF SendMux, Die, Channels, TypeOK
    <2>2. \A u \in Tasks : (tk'[u] = "sequenced") = (tk[u] = "sequenced")
      BY <1>5 DEF SendMux, Die, TypeOK
    <2> QED
      BY <1>1, <2>1, <2>2
  <1>6. ASSUME NEW c \in Clients, Serve(c) \/ PeerTurns(c) PROVE UNCHANGED taskVars
    BY <1>6, OtherStepsKeepTasks
  <1>7. CASE UNCHANGED vars
    BY <1>2, <1>7 DEF vars, taskVars
  <1> QED
    BY <1>2, <1>3, <1>4, <1>5, <1>6, <1>7, SendRawOnRaw DEF Next, Forward

(* upstream.rs:311: the channel of a runtime has each frame of its tasks   *)
(* once, in the order its task received them, and misses none.             *)
THEOREM OnRawCorrect == Spec => []OnRaw
  <1>1. ASSUME Init PROVE OnRaw /\ RawBehind
    <2>1. \A r \in Runtimes : log[r] = <<>> /\ DOMAIN log[r] = {}
      BY <1>1 DEF Init, Channels
    <2>2. \A t \in Tasks : 1..received[t] = {}
      BY <1>1 DEF Init
    <2> QED
      BY <2>1, <2>2 DEF OnRaw, RawBehind, TasksOf
  <1>2. TypeOK /\ OnRaw /\ RawBehind /\ [Next]_vars => OnRaw' /\ RawBehind'
    BY StepOnRaw
  <1> QED
    BY <1>1, <1>2, TypeCorrect, PTL DEF Spec
-----------------------------------------------------------------------------
(* Serving: where a client is in its channel.                              *)

Live(c) == pc[c] \in {"select", "sending", "pong"}

(* A client's positions are those of a channel it joined. *)
Joined(c) ==
  /\ first[c] = 0 => got[c] = <<>>
  /\ pc[c] \in {"out", "upgrading"} => first[c] = 0
  /\ first[c] > 0 => chan[c] \in Channels /\ first[c] <= Published(c) + 1

(* While it is served, its receiver is past all it was sent; and what an   *)
(* exact client wants and was not sent, up to there, is in its hands.      *)
InPlace(c) ==
  Live(c) =>
    /\ first[c] <= cursor[c]
    /\ cursor[c] <= Published(c) + 1
    /\ Promise!Last(c) < cursor[c]
    /\ pc[c] = "sending" =>
         /\ first[c] < cursor[c]
         /\ Wanted(c, cursor[c] - 1)
         /\ c \in Exact => left[c] = 1 /\ Promise!Last(c) < cursor[c] - 1
    /\ c \in Exact =>
         \A q \in (Promise!Last(c) + 1)..(cursor[c] - 1) :
           Wanted(c, q) => pc[c] = "sending" /\ q = cursor[c] - 1

Serving(c) == Joined(c) /\ InPlace(c) /\ NoGapFor(c)

LogGrows ==
  \A ch \in Channels :
    /\ Len(log'[ch]) >= Len(log[ch])
    /\ \A i \in 1..Len(log[ch]) : log'[ch][i] = log[ch][i]

LEMMA StepLogGrows == ASSUME TypeOK, [Next]_vars PROVE LogGrows
  <1>0. \A ch \in Channels : Len(log[ch]) \in Nat
    BY DEF TypeOK
  <1>1. CASE log' = log
    BY <1>0, <1>1 DEF LogGrows
  <1>2. ASSUME NEW t \in Tasks, Forward(t) PROVE LogGrows
    <2>1. CASE Receive(t) \/ Die(t)
      BY <1>1, <2>1 DEF Receive, Die
    <2>2. CASE SendRaw(t)
      <3>1. RuntimeOf[t] \in Channels
        BY DEF Channels
      <3> QED
        BY <1>0, <2>2, <3>1, SendAppends DEF SendRaw, InFlight, LogGrows
    <2>3. CASE SendMux(t)
      <3>1. Mux \in Channels
        BY DEF Channels
      <3> QED
        BY <1>0, <2>3, <3>1, SendAppends DEF SendMux, InFlight, LogGrows
    <2> QED
      BY <1>2, <2>1, <2>2, <2>3 DEF Forward
  <1>3. CASE Supervise
    BY <1>1, <1>3
    DEF Supervise, AddSource, RemoveSource, StartTask, StopTask, taskVars
  <1>4. ASSUME NEW c \in Clients, Serve(c) \/ PeerTurns(c) PROVE LogGrows
    BY <1>1, <1>4, OtherStepsKeepTasks DEF taskVars
  <1>5. CASE UNCHANGED vars
    BY <1>1, <1>5 DEF vars
  <1> QED
    BY <1>2, <1>3, <1>4, <1>5 DEF Next

(* What was published is still there, and still wanted or not. *)
LEMMA PublishedKept ==
  ASSUME TypeOK, LogGrows, NEW c \in Clients,
         chan[c] \in Channels, chan'[c] = chan[c]
  PROVE  /\ Published(c) \in Nat /\ Published(c)' \in Nat
         /\ Published(c)' >= Published(c)
         /\ \A q \in 1..Published(c) : Wanted(c, q)' = Wanted(c, q)
  BY DEF TypeOK, LogGrows, Published, Wanted, Interest

LEMMA LastType ==
  ASSUME TypeOK, NEW c \in Clients
  PROVE  /\ Promise!Last(c) \in Int
         /\ got[c] = <<>> => Promise!Last(c) = first[c] - 1
         /\ got[c] # <<>> => /\ Len(got[c]) \in Nat \ {0}
                             /\ Promise!Last(c) = got[c][Len(got[c])]
  BY DEF TypeOK, Promise!Last

(* A step that leaves what a client was sent and will read next alone. *)
LEMMA ServingUnchanged ==
  ASSUME TypeOK, LogGrows, NEW c \in Clients, Serving(c),
         chan'[c] = chan[c], first'[c] = first[c], got'[c] = got[c],
         \/ /\ pc'[c] = pc[c] /\ cursor'[c] = cursor[c] /\ left'[c] = left[c]
         \/ /\ pc[c] \in {"select", "pong"} /\ pc'[c] \in {"select", "pong"}
            /\ cursor'[c] = cursor[c]
         \/ pc'[c] \in {"closing", "gone"}
  PROVE  Serving(c)'
  <1>1. Promise!Last(c)' = Promise!Last(c) /\ Promise!Last(c) \in Int
    BY LastType DEF Promise!Last
  <1>2. /\ first[c] \in Nat /\ cursor[c] \in Nat
        /\ DOMAIN got[c] = 1..Len(got[c]) /\ Len(got[c]) \in Nat
        /\ \A i \in DOMAIN got[c] : got[c][i] \in Nat
        /\ Live(c) => first[c] > 0
    BY DEF TypeOK, Live, Connected
  <1>3. Joined(c)'
    <2>1. first'[c] > 0 => chan'[c] \in Channels /\ first'[c] <= Published(c)'
                                                                + 1
      <3> SUFFICES ASSUME first[c] > 0
                   PROVE  chan[c] \in Channels /\ first[c] <= Published(c)' + 1
        OBVIOUS
      <3>1. chan[c] \in Channels /\ first[c] <= Published(c) + 1
        BY DEF Serving, Joined
      <3>2. /\ Published(c) \in Nat /\ Published(c)' \in Nat
            /\ Published(c)' >= Published(c)
        BY <3>1, PublishedKept
      <3> QED
        BY <1>2, <3>1, <3>2
    <2>2. pc'[c] \in {"out", "upgrading"} => pc'[c] = pc[c]
      OBVIOUS
    <2> QED
      BY <2>1, <2>2 DEF Serving, Joined
  <1>4. InPlace(c)'
    <2> SUFFICES ASSUME Live(c)' PROVE InPlace(c)'
      BY DEF InPlace
    <2>1. Live(c) /\ cursor'[c] = cursor[c] /\ first[c] > 0
      BY <1>2 DEF Live
    <2>2. chan[c] \in Channels
      BY <2>1 DEF Serving, Joined
    <2>3. /\ Published(c) \in Nat /\ Published(c)' \in Nat
          /\ Published(c)' >= Published(c)
          /\ \A q \in 1..Published(c) : Wanted(c, q)' = Wanted(c, q)
      BY <2>2, PublishedKept
    <2>4. Promise!Last(c) + 1 >= 1
      BY <1>2, <2>1, LastType DEF Serving, NoGapFor
    <2> QED
      BY <1>1, <1>2, <2>1, <2>3, <2>4 DEF Serving, InPlace, Live
  <1>5. NoGapFor(c)'
    <2>1. CASE first[c] = 0
      BY <1>1, <1>2, <2>1, LastType DEF Serving, Joined, NoGapFor
    <2>2. CASE first[c] > 0
      <3>1. chan[c] \in Channels
        BY <2>2 DEF Serving, Joined
      <3>2. /\ Published(c) \in Nat /\ Published(c)' \in Nat
            /\ Published(c)' >= Published(c)
            /\ \A q \in 1..Published(c) : Wanted(c, q)' = Wanted(c, q)
        BY <3>1, PublishedKept
      <3>3. Promise!Last(c) <= Published(c)
        BY <1>2, <2>2, <3>2, LastType DEF Serving, NoGapFor, Joined
      <3>4. \A i \in DOMAIN got'[c] :
              /\ got'[c][i] \in first'[c]..Published(c)'
              /\ log'[chan'[c]][got'[c][i]].source \in Interest[c]
        BY <1>2, <2>2, <3>2 DEF Serving, NoGapFor, Wanted, Interest
      <3>5. c \in Exact =>
              \A q \in first'[c]..Promise!Last(c)' :
                Wanted(c, q)' => \E i \in DOMAIN got'[c] : got'[c][i] = q
        BY <1>1, <1>2, <2>2, <3>2, <3>3 DEF Serving, NoGapFor
      <3>6. /\ \A i, j \in DOMAIN got'[c] : i < j => got'[c][i] <= got'[c][j]
            /\ c \in Exact => \A i, j \in DOMAIN got'[c] :
                               i < j => got'[c][i] < got'[c][j]
        BY DEF Serving, NoGapFor
      <3> QED
        BY <3>4, <3>5, <3>6 DEF NoGapFor, Wanted, Interest
    <2> QED
      BY <1>2, <2>1, <2>2
  <1> QED
    BY <1>3, <1>4, <1>5 DEF Serving

(* A client that did not subscribe yet was sent nothing. *)
LEMMA ServingBefore ==
  ASSUME TypeOK, NEW c \in Clients,
         first'[c] = 0, got'[c] = <<>>, ~Live(c)'
  PROVE  Serving(c)'
  BY DEF Serving, Joined, InPlace, NoGapFor, Promise!Last

LEMMA SubscribeServing ==
  ASSUME TypeOK, NEW c \in Clients, Serving(c), Subscribe(c)
  PROVE  Serving(c)'
  <1>1. /\ pc' = [pc EXCEPT ![c] = "select"]
        /\ cursor' = [cursor EXCEPT ![c] = Published(c) + 1]
        /\ first' = [first EXCEPT ![c] = Published(c) + 1]
        /\ got[c] = <<>> /\ chan[c] \in Channels
        /\ UNCHANGED <<chan, got, log>>
    BY DEF Subscribe, Goto, taskVars, Serving, Joined, TypeOK
  <1>2. Published(c) \in Nat /\ Published(c)' = Published(c)
    BY <1>1 DEF Published, TypeOK
  <1>3. /\ pc'[c] = "select" /\ cursor'[c] = Published(c) + 1
        /\ first'[c] = Published(c) + 1 /\ got'[c] = <<>>
    BY <1>1 DEF TypeOK
  <1>4. Promise!Last(c)' = Published(c)
    BY <1>2, <1>3 DEF Promise!Last
  <1>5. Joined(c)'
    BY <1>1, <1>2, <1>3 DEF Joined
  <1>6. InPlace(c)'
    BY <1>2, <1>3, <1>4 DEF InPlace
  <1>7. NoGapFor(c)'
    BY <1>2, <1>3, <1>4 DEF NoGapFor
  <1> QED
    BY <1>5, <1>6, <1>7 DEF Serving

LEMMA RecvServing ==
  ASSUME TypeOK, NEW c \in Clients, Serving(c), Recv(c)
  PROVE  Serving(c)'
  <1>1. PICK n \in IF Wanted(c, cursor[c]) THEN Outputs(c) ELSE {0} :
          /\ left' = [left EXCEPT ![c] = n]
          /\ pc' = [pc EXCEPT ![c] = IF n = 0 THEN "select" ELSE "sending"]
    BY DEF Recv, Goto
  <1>2. /\ pc[c] = "select" /\ cursor[c] <= Published(c)
        /\ cursor' = [cursor EXCEPT ![c] = @ + 1]
        /\ UNCHANGED <<chan, first, got, log>>
    BY DEF Recv, taskVars
  <1>3. /\ pc'[c] = IF n = 0 THEN "select" ELSE "sending"
        /\ left'[c] = n /\ cursor'[c] = cursor[c] + 1
        /\ cursor[c] \in Nat \ {0} /\ first[c] \in Nat \ {0}
    BY <1>1, <1>2 DEF TypeOK, Connected
  <1>4. chan[c] \in Channels
    BY <1>3 DEF Serving, Joined
  <1>5. /\ Published(c) \in Nat /\ Published(c)' = Published(c)
        /\ \A q : Wanted(c, q)' = Wanted(c, q)
        /\ Promise!Last(c)' = Promise!Last(c) /\ Promise!Last(c) \in Int
    BY <1>2, <1>4, LastType
    DEF Published, Wanted, Interest, Promise!Last, TypeOK
  <1>6. Joined(c)'
    BY <1>2, <1>3, <1>5 DEF Serving, Joined
  <1>7. NoGapFor(c)'
    BY <1>2, <1>5 DEF Serving, NoGapFor, Wanted, Interest
  <1>8. InPlace(c)'
    <2>1. /\ first[c] <= cursor[c] /\ Promise!Last(c) < cursor[c]
          /\ c \in Exact => \A q \in (Promise!Last(c) + 1)..(cursor[c] - 1) :
                              ~Wanted(c, q)
      BY <1>2 DEF Serving, InPlace, Live
    <2>2. CASE n = 0
      <3>1. c \in Exact => ~Wanted(c, cursor[c])
        BY <1>1, <2>2 DEF Outputs
      <3> QED
        BY <1>2, <1>3, <1>5, <2>1, <2>2, <3>1 DEF InPlace
    <2>3. CASE n # 0
      <3>1. Wanted(c, cursor[c]) /\ (c \in Exact => n = 1)
        BY <1>1, <2>3 DEF Outputs
      <3>2. cursor'[c] - 1 = cursor[c]
        BY <1>3
      <3>3. Wanted(c, cursor[c] - 1)'
        BY <1>2, <3>1, <3>2 DEF Wanted, Interest
      <3> QED
        BY <1>2, <1>3, <1>5, <2>1, <2>3, <3>1, <3>2, <3>3 DEF InPlace
    <2> QED
      BY <2>2, <2>3
  <1> QED
    BY <1>6, <1>7, <1>8 DEF Serving

(* The next message is made of the entry read last: nothing the client     *)
(* wants lies between it and the message before.                           *)
LEMMA SendInTurn ==
  ASSUME TypeOK, NEW c \in Clients, Serving(c), pc[c] = "sending",
         NEW p, p = cursor[c] - 1
  PROVE  /\ p \in first[c]..Published(c)
         /\ first[c] \in Nat \ {0} /\ Published(c) \in Nat
         /\ Wanted(c, p)
         /\ Promise!Last(c) <= p
         /\ c \in Exact =>
              /\ left[c] = 1
              /\ Promise!Last(c) < p
              /\ \A q \in (Promise!Last(c) + 1)..(p - 1) : ~Wanted(c, q)
  <1>1. cursor[c] \in Nat \ {0} /\ first[c] \in Nat \ {0}
    BY DEF TypeOK, Connected
  <1>2. chan[c] \in Channels /\ Published(c) \in Nat
    BY <1>1 DEF Serving, Joined, Published, TypeOK
  <1>3. /\ cursor[c] <= Published(c) + 1
        /\ Promise!Last(c) < cursor[c]
        /\ first[c] < cursor[c]
        /\ Wanted(c, cursor[c] - 1)
        /\ c \in Exact => left[c] = 1 /\ Promise!Last(c) < cursor[c] - 1
        /\ c \in Exact =>
             \A q \in (Promise!Last(c) + 1)..(cursor[c] - 1) :
               Wanted(c, q) => q = cursor[c] - 1
    BY DEF Serving, InPlace, Live
  <1>4. /\ p \in first[c]..Published(c)
        /\ Promise!Last(c) <= p
        /\ c \in Exact => Promise!Last(c) < p
    BY <1>1, <1>2, <1>3, LastType
  <1>5. ASSUME c \in Exact, NEW q \in (Promise!Last(c) + 1)..(p - 1)
        PROVE  ~Wanted(c, q)
    <2>1. q \in (Promise!Last(c) + 1)..(cursor[c] - 1) /\ q # cursor[c] - 1
      BY <1>1, <1>5, LastType
    <2> QED
      BY <1>3, <1>5, <2>1
  <1> QED
    BY <1>1, <1>2, <1>3, <1>4, <1>5

LEMMA SendDoneServing ==
  ASSUME TypeOK, NEW c \in Clients, Serving(c), SendDone(c)
  PROVE  Serving(c)'
  <1>1. /\ pc[c] = "sending"
        /\ pc' = [pc EXCEPT ![c] = IF left[c] = 1 THEN "select" ELSE "sending"]
        /\ left' = [left EXCEPT ![c] = @ - 1]
        /\ got' = [got EXCEPT ![c] = Append(@, cursor[c] - 1)]
        /\ UNCHANGED <<chan, cursor, first, log>>
    BY DEF SendDone, Goto, taskVars
  <1>2. PICK p \in Nat : p = cursor[c] - 1
    BY DEF TypeOK
  <1>3. /\ p \in first[c]..Published(c) /\ Wanted(c, p)
        /\ Promise!Last(c) <= p
        /\ first[c] \in Nat \ {0} /\ Published(c) \in Nat
        /\ c \in Exact =>
             /\ left[c] = 1
             /\ Promise!Last(c) < p
             /\ \A q \in (Promise!Last(c) + 1)..(p - 1) : ~Wanted(c, q)
    BY <1>1, <1>2, SendInTurn
  <1>4. /\ Published(c)' = Published(c)
        /\ \A q : Wanted(c, q)' = Wanted(c, q)
    BY <1>1 DEF Published, Wanted, Interest
  <1>5. PICK n \in Nat : n = Len(got[c])
    BY DEF TypeOK
  <1>6. /\ DOMAIN got[c] = 1..n /\ DOMAIN got'[c] = 1..(n + 1)
        /\ \A i \in 1..n : got'[c][i] = got[c][i] /\ got[c][i] \in Nat
        /\ got'[c][n + 1] = p
        /\ got'[c] # <<>> /\ Len(got'[c]) = n + 1
    BY <1>1, <1>2, <1>5 DEF TypeOK
  <1>7. Promise!Last(c)' = p
    BY <1>6 DEF Promise!Last
  <1>8. Joined(c)'
    BY <1>1, <1>3, <1>4 DEF Serving, Joined, TypeOK
  <1>9. InPlace(c)'
    <2>1. /\ cursor'[c] = p + 1 /\ first'[c] = first[c]
          /\ left'[c] = left[c] - 1
          /\ pc'[c] = IF left[c] = 1 THEN "select" ELSE "sending"
      BY <1>1, <1>2 DEF TypeOK
    <2>2. cursor'[c] - 1 = p
      BY <2>1
    <2>3. Wanted(c, cursor[c] - 1)'
      BY <1>1, <1>3, <2>2 DEF Wanted, Interest
    <2> QED
      BY <1>3, <1>4, <1>7, <2>1, <2>2, <2>3 DEF InPlace
  <1>10. NoGapFor(c)'
    <2>1. \A i \in 1..n : got[c][i] <= Promise!Last(c)
      BY <1>5, <1>6, LastType DEF Serving, NoGapFor
    <2>2. \A i \in DOMAIN got'[c] :
            /\ got'[c][i] \in first'[c]..Published(c)'
            /\ log'[chan'[c]][got'[c][i]].source \in Interest[c]
      BY <1>1, <1>3, <1>4, <1>6 DEF Serving, NoGapFor, Wanted
    <2>3. /\ \A i, j \in DOMAIN got'[c] : i < j => got'[c][i] <= got'[c][j]
          /\ c \in Exact => \A i, j \in DOMAIN got'[c] :
                             i < j => got'[c][i] < got'[c][j]
      <3> SUFFICES ASSUME NEW i \in 1..(n + 1), NEW j \in 1..(n + 1), i < j
                   PROVE  /\ got'[c][i] <= got'[c][j]
                          /\ c \in Exact => got'[c][i] < got'[c][j]
        BY <1>6
      <3>1. i \in 1..n
        OBVIOUS
      <3>2. CASE j = n + 1
        <4>1. /\ got'[c][i] = got[c][i] /\ got[c][i] \in Nat
              /\ got[c][i] <= Promise!Last(c)
          BY <1>6, <2>1, <3>1
        <4>2. got'[c][j] = p
          BY <1>6, <3>2
        <4>3. /\ Promise!Last(c) \in Int
              /\ Promise!Last(c) <= p
              /\ c \in Exact => Promise!Last(c) < p
          BY <1>3, LastType
        <4> QED
          BY <4>1, <4>2, <4>3
      <3>3. CASE j # n + 1
        <4>1. j \in 1..n
          BY <3>3
        <4> QED
          BY <1>6, <3>1, <4>1 DEF Serving, NoGapFor
      <3> QED
        BY <3>2, <3>3
    <2>4. ASSUME c \in Exact, NEW q \in first'[c]..Promise!Last(c)', Wanted(c, q)'
          PROVE  \E i \in DOMAIN got'[c] : got'[c][i] = q
      <3>1. q \in first[c]..p /\ Wanted(c, q)
        BY <1>1, <1>4, <1>7, <2>4
      <3>2. CASE q = p
        BY <1>6, <3>2
      <3>3. CASE q # p
        <4>1. q \in first[c]..Promise!Last(c)
          BY <1>3, <2>4, <3>1, <3>3, LastType
        <4>2. PICK i \in 1..n : got[c][i] = q
          BY <1>6, <2>4, <3>1, <4>1 DEF Serving, NoGapFor
        <4>3. i \in DOMAIN got'[c] /\ got'[c][i] = q
          BY <1>6, <4>2
        <4> QED
          BY <4>3
      <3> QED
        BY <3>2, <3>3
    <2> QED
      BY <2>2, <2>3, <2>4 DEF NoGapFor, Wanted, Interest
  <1> QED
    BY <1>8, <1>9, <1>10 DEF Serving

(* A step of one client says nothing about another. *)
LEMMA OtherClient ==
  ASSUME TypeOK, NEW c \in Clients, NEW d \in Clients \ {c},
         Serve(d) \/ PeerTurns(d)
  PROVE  /\ pc'[c] = pc[c] /\ chan'[c] = chan[c] /\ cursor'[c] = cursor[c]
         /\ left'[c] = left[c] /\ first'[c] = first[c] /\ got'[c] = got[c]
  BY DEF TypeOK, Goto, Serve, PeerTurns, Branch, Complete, ConnectRaw,
         ConnectMux, Subscribe, UpgradeFails, Recv, Lag, Closed, SendDone,
         PongDone, CloseDone, SendFails, Ping, PeerClosed

(* Whatever is not the client's own step leaves its place alone. *)
LEMMA NotMyStep ==
  ASSUME Supervise \/ (\E t \in Tasks : Forward(t)) \/ UNCHANGED vars
  PROVE  UNCHANGED clientVars
  BY DEF Supervise, AddSource, RemoveSource, StartTask, StopTask,
         Forward, Receive, SendRaw, SendMux, Die, vars, clientVars

LEMMA MyStepServing ==
  ASSUME TypeOK, LogGrows, NEW c \in Clients, Serving(c),
         Serve(c) \/ PeerTurns(c)
  PROVE  Serving(c)'
  <1> USE DEF Goto
  <1>1. ASSUME NEW r \in Runtimes, ConnectRaw(c, r) PROVE Serving(c)'
    BY <1>1, ServingBefore DEF ConnectRaw, Serving, Joined, Live, TypeOK
  <1>2. CASE ConnectMux(c)
    BY <1>2, ServingBefore DEF ConnectMux, Serving, Joined, Live, TypeOK
  <1>3. CASE Subscribe(c)
    BY <1>3, SubscribeServing
  <1>4. CASE UpgradeFails(c)
    BY <1>4, ServingUnchanged DEF UpgradeFails, TypeOK
  <1>5. CASE Recv(c)
    BY <1>5, RecvServing
  <1>6. CASE Lag(c)
    BY <1>6, ServingUnchanged DEF Lag, TypeOK
  <1>7. CASE Closed(c)
    BY <1>7, ServingUnchanged DEF Closed, TypeOK
  <1>8. CASE SendDone(c)
    BY <1>8, SendDoneServing
  <1>9. CASE PongDone(c)
    BY <1>9, ServingUnchanged DEF PongDone, TypeOK
  <1>10. CASE CloseDone(c)
    BY <1>10, ServingUnchanged DEF CloseDone, TypeOK
  <1>11. CASE SendFails(c)
    BY <1>11, ServingUnchanged DEF SendFails, TypeOK
  <1>12. CASE Ping(c)
    BY <1>12, ServingUnchanged DEF Ping, TypeOK
  <1>13. CASE PeerClosed(c)
    BY <1>13, ServingUnchanged DEF PeerClosed, TypeOK
  <1>14. CASE PeerTurns(c)
    BY <1>14, ServingUnchanged DEF PeerTurns
  <1> QED
    BY <1>1, <1>2, <1>3, <1>4, <1>5, <1>6, <1>7, <1>8, <1>9, <1>10, <1>11,
       <1>12, <1>13, <1>14 DEF Serve, Branch, Complete

LEMMA StepServing ==
  ASSUME TypeOK, \A c \in Clients : Serving(c), [Next]_vars
  PROVE  \A c \in Clients : Serving(c)'
  <1> SUFFICES ASSUME NEW c \in Clients PROVE Serving(c)'
    OBVIOUS
  <1>1. LogGrows /\ Serving(c)
    BY StepLogGrows
  <1>2. CASE UNCHANGED clientVars
    BY <1>1, <1>2, ServingUnchanged DEF clientVars
  <1>3. ASSUME NEW d \in Clients, Serve(d) \/ PeerTurns(d) PROVE Serving(c)'
    <2>1. CASE d = c
      BY <1>1, <1>3, <2>1, MyStepServing
    <2>2. CASE d # c
      BY <1>1, <1>3, <2>2, OtherClient, ServingUnchanged
    <2> QED
      BY <2>1, <2>2
  <1> QED
    BY <1>2, <1>3, NotMyStep DEF Next

THEOREM ServingCorrect == Spec => [](\A c \in Clients : Serving(c))
  <1>1. Init => \A c \in Clients : Serving(c)
    BY DEF Init, Serving, Joined, InPlace, NoGapFor, Live, Promise!Last
  <1>2. TypeOK /\ (\A c \in Clients : Serving(c)) /\ [Next]_vars
          => (\A c \in Clients : Serving(c))'
    BY StepServing
  <1> QED
    BY <1>1, <1>2, TypeCorrect, PTL DEF Spec

(* README.md:13, 261: a client is disconnected, never silently given a gap. *)
THEOREM NoGapCorrect == Spec => []NoGap
  <1>1. (\A c \in Clients : Serving(c)) => NoGap
    BY DEF Serving, NoGap
  <1> QED
    BY <1>1, ServingCorrect, PTL

(* handlers.rs:303-377: a client that waits was sent all that was read for *)
(* it: between recv() and select! nothing is kept back, or lost.           *)
THEOREM NothingHeldCorrect == Spec => []NothingHeld
  <1>1. ASSUME TypeOK, NEW c \in Exact, Serving(c), pc[c] \in {"select", "pong"},
               NEW q \in first[c]..(cursor[c] - 1), Wanted(c, q)
        PROVE  Given(c, q)
    <2>1. c \in Clients /\ Promise!Last(c) \in Int /\ q \in Int
      BY <1>1, LastType DEF Exact, Clients, TypeOK
    <2>2. ~(q \in (Promise!Last(c) + 1)..(cursor[c] - 1))
      BY <1>1 DEF Serving, InPlace, Live
    <2>3. q \in first[c]..Promise!Last(c)
      BY <1>1, <2>1, <2>2 DEF TypeOK
    <2> QED
      BY <1>1, <2>3 DEF Serving, NoGapFor, Given
  <1>2. TypeOK /\ (\A c \in Clients : Serving(c)) => NothingHeld
    BY <1>1 DEF NothingHeld, Exact, Clients
  <1> QED
    BY <1>2, TypeCorrect, ServingCorrect, PTL

(* README.md:261: exact clients of a channel with the same interest never  *)
(* disagree about a frame both are past.                                   *)
THEOREM AgreementCorrect == Spec => []Agreement
  <1>1. ASSUME NEW c \in Exact, NEW d \in Exact, NoGap, chan[c] = chan[d],
               Interest[c] = Interest[d], NEW q \in Past(c) \cap Past(d), Given(c, q)
        PROVE  Given(d, q)
    <2>1. c \in Clients /\ d \in Clients
      BY DEF Exact, Clients
    <2>2. Wanted(c, q)
      BY <1>1, <2>1 DEF NoGap, NoGapFor, Given
    <2>3. Wanted(d, q)
      BY <1>1, <2>2 DEF Wanted
    <2> QED
      BY <1>1, <2>1, <2>3 DEF NoGap, NoGapFor, Given, Past
  <1>2. NoGap => Agreement
    BY <1>1 DEF Agreement
  <1> QED
    BY <1>2, NoGapCorrect, PTL

(* README.md:261: the machine implements the feed its clients are promised. *)
THEOREM PromiseKept == Spec => KeepsPromise
  <1> USE DEF Promise!vars
  <1>1. Init => Promise!Init
    BY DEF Init, Promise!Init
  <1>2. TypeOK /\ (\A c \in Clients : Serving(c)) /\ [Next]_vars
          => [Promise!Next]_(Promise!vars)
    <2> SUFFICES ASSUME TypeOK, \A c \in Clients : Serving(c), [Next]_vars
                 PROVE  [Promise!Next]_(Promise!vars)
      OBVIOUS
    <2>1. CASE Supervise
      BY <2>1 DEF Supervise, AddSource, RemoveSource, StartTask, StopTask,
                  taskVars, clientVars
    <2>2. ASSUME NEW t \in Tasks, Forward(t)
          PROVE  [Promise!Next]_(Promise!vars)
      <3>1. CASE Receive(t) \/ Die(t)
        BY <3>1 DEF Receive, Die, clientVars
      <3>2. CASE SendRaw(t)
        <4>1. RuntimeOf[t] \in Channels /\ Message(t) \in Entries
          BY <3>2, MessageType DEF SendRaw, InFlight, Channels
        <4>2. Promise!Publish(RuntimeOf[t], Message(t))
          BY <3>2 DEF SendRaw, clientVars, Promise!Publish
        <4> QED
          BY <4>1, <4>2 DEF Promise!Next
      <3>3. CASE SendMux(t)
        <4>1. Mux \in Channels /\ Message(t) \in Entries
          BY <3>3, MessageType DEF SendMux, InFlight, Channels
        <4>2. Promise!Publish(Mux, Message(t))
          BY <3>3 DEF SendMux, clientVars, Promise!Publish
        <4> QED
          BY <4>1, <4>2 DEF Promise!Next
      <3> QED
        BY <2>2, <3>1, <3>2, <3>3 DEF Forward
    <2>3. ASSUME NEW c \in Clients, Serve(c) \/ PeerTurns(c)
          PROVE  [Promise!Next]_(Promise!vars)
      <3>1. ASSUME NEW r \in Runtimes, ConnectRaw(c, r)
            PROVE  Promise!Ask(c, r) /\ r \in Channels
        BY <3>1 DEF ConnectRaw, Promise!Ask, TypeOK, taskVars, Channels
      <3>2. CASE ConnectMux(c)
        <4>1. Promise!Ask(c, Mux) /\ Mux \in Channels
          BY <3>2 DEF ConnectMux, Promise!Ask, TypeOK, taskVars, Channels
        <4> QED
          BY <4>1 DEF Promise!Next
      <3>3. CASE Subscribe(c)
        <4>1. Promise!Join(c)
          BY <3>3 DEF Subscribe, Promise!Join, TypeOK, Serving, Joined,
                      taskVars, Published
        <4> QED
          BY <4>1 DEF Promise!Next
      <3>4. CASE SendDone(c)
        <4> DEFINE p == cursor[c] - 1
        <4>1. /\ pc[c] = "sending"
              /\ got' = [got EXCEPT ![c] = Append(@, p)]
              /\ UNCHANGED <<log, chan, first>>
          BY <3>4 DEF SendDone, taskVars
        <4>2. /\ first[c] > 0 /\ p \in first[c]..Len(log[chan[c]])
              /\ Promise!Wanted(c, p) /\ Promise!InTurn(c, p)
          BY <4>1, SendInTurn
          DEF Published, Wanted, Promise!Wanted, Promise!InTurn
        <4>3. Promise!Deliver(c)
          BY <4>1, <4>2 DEF Promise!Deliver
        <4> QED
          BY <4>3 DEF Promise!Next
      <3>5. CASE UpgradeFails(c) \/ Branch(c) \/ PongDone(c) \/ CloseDone(c)
                 \/ SendFails(c) \/ Ping(c) \/ PeerClosed(c) \/ PeerTurns(c)
        BY <3>5 DEF UpgradeFails, Branch, Recv, Lag, Closed, PongDone, CloseDone,
                    SendFails, Ping, PeerClosed, PeerTurns, taskVars
      <3> QED
        BY <2>3, <3>1, <3>2, <3>3, <3>4, <3>5
        DEF Serve, Complete, Promise!Next
    <2>4. CASE UNCHANGED vars
      BY <2>4 DEF vars
    <2> QED
      BY <2>1, <2>2, <2>3, <2>4 DEF Next
  <1> QED
    BY <1>1, <1>2, TypeCorrect, ServingCorrect, PTL
    DEF Spec, KeepsPromise, Promise!Spec
-----------------------------------------------------------------------------
(* Sources that come and go: Fanout and Supervisor agree on them, because  *)
(* both keep to Lifecycle, and Fanout allows all of it.                    *)

Owner  == [r \in Runtimes |-> IF listed[r] = "new" THEN NoChannel ELSE SourceOf[r]]
Serves == [t \in Tasks |-> IF tk[t] = "new" THEN NoChannel ELSE RuntimeOf[t]]
Dead   == {t \in Tasks : tk[t] = "dead"}

LEMMA CrewOf ==
  ASSUME NEW r \in Runtimes
  PROVE  Contract!Crew({r}) = {t \in TasksOf(r) : tk[t] # "new"}
  BY DEF Contract!Crew, TasksOf, Channels

LEMMA SuperviseContract == ASSUME TypeOK, Supervise PROVE Contract!Next
  <1> USE DEF taskVars
  <1>1. ASSUME NEW r \in Runtimes, AddSource(r) PROVE Contract!Add(r, SourceOf[r])
    <2>1. /\ listed \in [Runtimes -> {"new", "listed", "removed"}]
          /\ listed[r] = "new" /\ listed' = [listed EXCEPT ![r] = "listed"]
          /\ UNCHANGED <<stopped, tk>>
          /\ \A q \in Runtimes : SourceOf[q] = SourceOf[r] => listed[q] # "listed"
      BY <1>1 DEF AddSource, TypeOK
    <2>2. Owner' = [Owner EXCEPT ![r] = SourceOf[r]]
      BY <2>1 DEF Owner
    <2>3. Serves' = Serves /\ Dead' = Dead
      BY <2>1 DEF Serves, Dead
    <2>4. \A q \in Runtimes : listed[q] = "listed" => Owner[q] # SourceOf[r]
      BY <2>1 DEF Owner
    <2> QED
      BY <2>1, <2>2, <2>3, <2>4
      DEF Contract!Add, Contract!Lists, Owner, Serves, Dead
  <1>2. ASSUME NEW r \in Runtimes, RemoveSource(r) PROVE Contract!Remove({r})
    <2>1. /\ listed \in [Runtimes -> {"new", "listed", "removed"}]
          /\ listed[r] = "listed" /\ listed' = [listed EXCEPT ![r] = "removed"]
          /\ UNCHANGED tk
          /\ stopped' = stopped \cup {t \in TasksOf(r) : tk[t] # "new"}
      BY <1>2 DEF RemoveSource, TypeOK
    <2>2. Owner' = Owner /\ Serves' = Serves /\ Dead' = Dead
      BY <2>1 DEF Owner, Serves, Dead
    <2>3. listed' = [q \in Runtimes |-> IF q \in {r} THEN "removed" ELSE listed[q]]
      BY <2>1
    <2> QED
      BY <2>1, <2>2, <2>3, CrewOf DEF Contract!Remove, Owner, Serves, Dead
  <1>3. ASSUME NEW t \in Tasks, StartTask(t) PROVE Contract!Start(t, RuntimeOf[t])
    <2>1. /\ tk \in [Tasks -> {"new", "forward", "sequenced", "sent", "dead"}]
          /\ listed[RuntimeOf[t]] = "listed" /\ tk[t] = "new"
          /\ tk' = [tk EXCEPT ![t] = "forward"] /\ UNCHANGED listed
          /\ stopped' = stopped \cup {u \in TasksOf(RuntimeOf[t]) : tk[u] # "new"}
      BY <1>3 DEF StartTask, TypeOK
    <2>2. Serves[t] = NoChannel /\ Serves' = [Serves EXCEPT ![t] = RuntimeOf[t]]
      BY <2>1 DEF Serves
    <2>3. Owner' = Owner /\ Dead' = Dead
      BY <2>1 DEF Owner, Dead
    <2> QED
      BY <2>1, <2>2, <2>3, CrewOf
      DEF Contract!Start, Contract!Begins, Owner, Serves, Dead
  <1>4. ASSUME NEW t \in Tasks, StopTask(t) PROVE Contract!Stop(t)
    <2>1. Serves[t] # NoChannel
      BY <1>4 DEF StopTask, Serves, Channels
    <2>2. Owner' = Owner /\ Serves' = Serves /\ Dead' = Dead
      BY <1>4 DEF StopTask, Owner, Serves, Dead
    <2> QED
      BY <1>4, <2>1, <2>2 DEF StopTask, Contract!Stop, Owner, Serves, Dead
  <1>5. ASSUME NEW r \in Runtimes, AddSource(r) \/ RemoveSource(r) PROVE Contract!Next
    <2>1. SourceOf[r] \in Sources /\ {r} \in (SUBSET Runtimes) \ {{}}
      OBVIOUS
    <2> QED
      BY <1>1, <1>2, <1>5, <2>1 DEF Contract!Next
  <1>6. ASSUME NEW t \in Tasks, StartTask(t) \/ StopTask(t) PROVE Contract!Next
    <2>1. RuntimeOf[t] \in Runtimes
      OBVIOUS
    <2> QED
      BY <1>3, <1>4, <1>6, <2>1 DEF Contract!Next
  <1> QED
    BY <1>5, <1>6 DEF Supervise

LEMMA StepContract ==
  ASSUME TypeOK, [Next]_vars PROVE [Contract!Next]_(Contract!vars)
  <1>1. ASSUME UNCHANGED <<listed, stopped>>, Serves' = Serves, Dead' = Dead
        PROVE  UNCHANGED Contract!vars
    BY <1>1 DEF Contract!vars, Owner, Serves, Dead
  <1>2. CASE UNCHANGED vars
    BY <1>1, <1>2 DEF vars, Serves, Dead
  <1>3. CASE Supervise
    BY <1>3, SuperviseContract
  <1>4. ASSUME NEW t \in Tasks, Forward(t) PROVE [Contract!Next]_(Contract!vars)
    <2>1. tk \in [Tasks -> {"new", "forward", "sequenced", "sent", "dead"}]
      BY DEF TypeOK
    <2>2. /\ UNCHANGED <<listed, stopped>>
          /\ tk[t] # "new" /\ tk[t] # "dead"
          /\ tk' = [tk EXCEPT ![t] = tk'[t]] /\ tk'[t] # "new"
          /\ tk'[t] = "dead" => t \in stopped
      BY <1>4, <2>1
      DEF Forward, Receive, SendRaw, SendMux, Die, supervisorVars
    <2>3. Serves' = Serves
      BY <2>1, <2>2 DEF Serves
    <2>4. CASE tk'[t] = "dead"
      <3>1. Dead' = Dead \cup {t}
        BY <2>1, <2>2, <2>4 DEF Dead
      <3>2. Contract!End(t)
        BY <2>2, <2>3, <2>4, <3>1 DEF Contract!End, Owner, Serves, Dead
      <3> QED
        BY <3>2 DEF Contract!Next
    <2>5. CASE tk'[t] # "dead"
      <3>1. Dead' = Dead
        BY <2>1, <2>2, <2>5 DEF Dead
      <3> QED
        BY <1>1, <2>2, <2>3, <3>1
    <2> QED
      BY <2>4, <2>5
  <1>5. ASSUME NEW c \in Clients, Serve(c) \/ PeerTurns(c)
        PROVE  [Contract!Next]_(Contract!vars)
    <2>1. UNCHANGED <<listed, stopped, tk>>
      BY <1>5, OtherStepsKeepTasks DEF supervisorVars, taskVars
    <2> QED
      BY <1>1, <2>1 DEF Serves, Dead
  <1> QED
    BY <1>2, <1>3, <1>4, <1>5 DEF Next

(* sources.rs:136-207: the sources of the fan-out come and go as those of  *)
(* the supervisor do.                                                      *)
THEOREM ContractKept == Spec => KeepsContract
  <1>1. Init => Contract!Init
    BY DEF Init, Contract!Init
  <1>2. TypeOK /\ [Next]_vars => [Contract!Next]_(Contract!vars)
    BY StepContract
  <1> QED
    BY <1>1, <1>2, TypeCorrect, PTL DEF Spec, KeepsContract, Contract!Spec

LEMMA StepOrderly ==
  ASSUME TypeOK, Contract!Orderly, [Contract!Next]_(Contract!vars)
  PROVE  Contract!Orderly'
  <1> DEFINE Apart == \A q, r \in Runtimes :
               listed[q] = "listed" /\ listed[r] = "listed" /\ Owner[q] = Owner[r] => q = r
             Left == \A t \in Tasks :
               Serves[t] # NoChannel /\ listed[Serves[t]] = "removed" => t \in stopped
             One == \A t, u \in Tasks \ stopped :
               Serves[t] # NoChannel /\ Serves[t] = Serves[u] => t = u
  <1>1. /\ Contract!Orderly <=> Apart /\ Left /\ One /\ Dead \subseteq stopped
        /\ Contract!Orderly' <=> Apart' /\ Left' /\ One' /\ Dead' \subseteq stopped'
    BY DEF Contract!Orderly, Owner, Serves, Dead
  <1>2. /\ listed \in [Runtimes -> {"new", "listed", "removed"}]
        /\ Owner = [r \in Runtimes |-> Owner[r]]
        /\ Serves = [t \in Tasks |-> Serves[t]]
        /\ \A t \in Tasks : Serves[t] \in Runtimes \cup {NoChannel}
        /\ NoChannel \notin Runtimes
    BY DEF TypeOK, Owner, Serves, Channels
  <1>3. ASSUME UNCHANGED <<listed, Owner, Serves>>, stopped \subseteq stopped',
               Dead' \subseteq stopped'
        PROVE  Contract!Orderly'
    BY <1>1, <1>3
  <1>4. CASE UNCHANGED Contract!vars
    BY <1>1, <1>3, <1>4 DEF Contract!vars, Owner, Serves, Dead
  <1>5. ASSUME NEW t \in Tasks, Contract!Stop(t) \/ Contract!End(t)
        PROVE  Contract!Orderly'
    <2>1. /\ UNCHANGED <<listed, Owner, Serves>>
          /\ stopped \subseteq stopped' /\ Dead' \subseteq stopped'
      BY <1>1, <1>5 DEF Contract!Stop, Contract!End, Owner, Serves, Dead
    <2> QED
      BY <1>3, <2>1
  <1>6. ASSUME NEW rs \in SUBSET Runtimes, Contract!Remove(rs)
        PROVE  Contract!Orderly'
    <2>1. /\ listed' = [r \in Runtimes |-> IF r \in rs THEN "removed" ELSE listed[r]]
          /\ stopped' = stopped \cup {t \in Tasks : Serves[t] \in rs}
          /\ UNCHANGED <<Owner, Serves, Dead>>
      BY <1>6 DEF Contract!Remove, Contract!Crew, Owner, Serves, Dead
    <2>2. Apart'
      BY <1>1, <2>1
    <2>3. Left'
      BY <1>1, <1>2, <2>1
    <2>4. One' /\ Dead' \subseteq stopped'
      BY <1>1, <2>1
    <2> QED
      BY <1>1, <2>2, <2>3, <2>4
  <1>7. ASSUME NEW r \in Runtimes, NEW id \in Sources, Contract!Lists(r, id)
        PROVE  Apart' /\ (Left /\ Serves' = Serves /\ stopped' = stopped => Left')
    <2>1. /\ listed[r] = "new" /\ listed' = [listed EXCEPT ![r] = "listed"]
          /\ \A q \in Runtimes : listed[q] = "listed" => Owner[q] # id
          /\ Owner' = [Owner EXCEPT ![r] = id]
      BY <1>7 DEF Contract!Lists, Owner
    <2>2. Apart'
      BY <1>1, <1>2, <2>1
    <2> QED
      BY <1>2, <2>1, <2>2
  <1>8. ASSUME NEW t \in Tasks, NEW r \in Runtimes, Contract!Begins(t, r),
               listed'[r] = "listed",
               \A q \in Runtimes : listed'[q] = "removed" => listed[q] = "removed"
        PROVE  Left' /\ One' /\ Dead' \subseteq stopped'
    <2>1. /\ Serves[t] = NoChannel /\ Serves' = [Serves EXCEPT ![t] = r]
          /\ stopped' = stopped \cup {u \in Tasks : Serves[u] = r}
          /\ Dead' = Dead
      BY <1>8 DEF Contract!Begins, Contract!Crew, Serves, Dead
    <2>2. Left'
      BY <1>1, <1>2, <1>8, <2>1
    <2>3. One'
      BY <1>1, <1>2, <2>1
    <2> QED
      BY <1>1, <2>1, <2>2, <2>3
  <1>9. ASSUME NEW r \in Runtimes, NEW id \in Sources, Contract!Add(r, id)
        PROVE  Contract!Orderly'
    <2>1. UNCHANGED <<Serves, stopped, Dead>> /\ Contract!Lists(r, id)
      BY <1>9 DEF Contract!Add, Serves, Dead
    <2> QED
      BY <1>1, <1>7, <2>1
  <1>10. ASSUME NEW r \in Runtimes, NEW id \in Sources, NEW t \in Tasks,
                Contract!Open(r, id, t)
         PROVE  Contract!Orderly'
    <2>1. Contract!Lists(r, id) /\ Contract!Begins(t, r)
      BY <1>10 DEF Contract!Open
    <2>2. listed' = [listed EXCEPT ![r] = "listed"]
      BY <2>1 DEF Contract!Lists
    <2> QED
      BY <1>1, <1>2, <1>7, <1>8, <2>1, <2>2
  <1>11. ASSUME NEW t \in Tasks, NEW r \in Runtimes, Contract!Start(t, r)
         PROVE  Contract!Orderly'
    <2>1. listed[r] = "listed" /\ Contract!Begins(t, r) /\ UNCHANGED <<listed, Owner>>
      BY <1>11 DEF Contract!Start, Owner
    <2> QED
      BY <1>1, <1>8, <2>1
  <1> QED
    BY <1>4, <1>5, <1>6, <1>9, <1>10, <1>11 DEF Contract!Next

(* sources.rs:157-168, 196-207: as the clients and the channels see it: of *)
(* the tasks that publish for a source all but one were told to stop, and  *)
(* all of them when it is removed, so that its channel does close.         *)
THEOREM OrderlyCorrect == Spec => []Contract!Orderly
  <1>1. ASSUME Init PROVE Contract!Orderly
    BY <1>1 DEF Init, Contract!Orderly
  <1>2. TypeOK /\ Contract!Orderly /\ [Next]_vars => Contract!Orderly'
    BY StepContract, StepOrderly
  <1> QED
    BY <1>1, <1>2, TypeCorrect, PTL DEF Spec

(* And nothing of what the supervisor may do is left out: whatever change  *)
(* of the list and of the tasks Lifecycle allows, Fanout can make, an Open *)
(* as an AddSource and a StartTask, a Remove of several one by one.  (End  *)
(* waits until the task is at an `.await'.)                                *)
THEOREM ContractAllowed ==
  ASSUME TypeOK, UNCHANGED <<received, sequence, taken, log, clientVars>>
  PROVE  /\ \A r \in Runtimes :
              UNCHANGED tk =>
                /\ Contract!Add(r, SourceOf[r]) => AddSource(r)
                /\ Contract!Remove({r}) => RemoveSource(r)
         /\ \A t \in Tasks :
              /\ Contract!Start(t, RuntimeOf[t]) /\ tk' = [tk EXCEPT ![t] = "forward"]
                   => StartTask(t)
              /\ Contract!Stop(t) /\ UNCHANGED tk => StopTask(t) \/ UNCHANGED vars
              /\ Contract!End(t) /\ tk[t] = "forward" /\ tk' = [tk EXCEPT ![t] = "dead"]
                   => Die(t)
  <1> USE DEF taskVars
  <1>0. listed \in [Runtimes -> {"new", "listed", "removed"}]
    BY DEF TypeOK
  <1>1. ASSUME NEW r \in Runtimes, UNCHANGED tk, Contract!Add(r, SourceOf[r])
        PROVE  AddSource(r)
    <2>1. /\ listed[r] = "new" /\ listed' = [listed EXCEPT ![r] = "listed"]
          /\ \A q \in Runtimes : listed[q] = "listed" => Owner[q] # SourceOf[r]
          /\ UNCHANGED stopped
      BY <1>1 DEF Contract!Add, Contract!Lists, Owner
    <2>2. \A q \in Runtimes : SourceOf[q] = SourceOf[r] => listed[q] # "listed"
      BY <2>1 DEF Owner
    <2> QED
      BY <1>1, <2>1, <2>2 DEF AddSource
  <1>2. ASSUME NEW r \in Runtimes, UNCHANGED tk, Contract!Remove({r})
        PROVE  RemoveSource(r)
    <2>1. /\ listed[r] = "listed"
          /\ listed' = [q \in Runtimes |-> IF q \in {r} THEN "removed" ELSE listed[q]]
          /\ stopped' = stopped \cup Contract!Crew({r})
      BY <1>2 DEF Contract!Remove
    <2>2. listed' = [listed EXCEPT ![r] = "removed"]
      BY <1>0, <2>1
    <2> QED
      BY <1>2, <2>1, <2>2, CrewOf DEF RemoveSource
  <1>3. ASSUME NEW t \in Tasks, Contract!Start(t, RuntimeOf[t]),
               tk' = [tk EXCEPT ![t] = "forward"]
        PROVE  StartTask(t)
    <2>1. /\ listed[RuntimeOf[t]] = "listed" /\ UNCHANGED listed
          /\ Serves[t] = NoChannel
          /\ stopped' = stopped \cup Contract!Crew({RuntimeOf[t]})
      BY <1>3 DEF Contract!Start, Contract!Begins, Serves
    <2>2. tk[t] = "new"
      BY <2>1 DEF Serves, Channels
    <2> QED
      BY <1>3, <2>1, <2>2, CrewOf DEF StartTask
  <1>4. ASSUME NEW t \in Tasks, Contract!Stop(t), UNCHANGED tk
        PROVE  StopTask(t) \/ UNCHANGED vars
    <2>1. /\ Serves[t] # NoChannel /\ UNCHANGED listed
          /\ stopped' = stopped \cup {t}
      BY <1>4 DEF Contract!Stop, Serves
    <2>2. tk[t] # "new"
      BY <2>1 DEF Serves
    <2>3. CASE t \in stopped
      BY <1>4, <2>1, <2>3 DEF vars, clientVars
    <2>4. CASE t \notin stopped
      BY <1>4, <2>1, <2>2, <2>4 DEF StopTask
    <2> QED
      BY <2>3, <2>4
  <1>5. ASSUME NEW t \in Tasks, Contract!End(t), tk[t] = "forward",
               tk' = [tk EXCEPT ![t] = "dead"]
        PROVE  Die(t)
    BY <1>5 DEF Contract!End, Die, supervisorVars
  <1> QED
    BY <1>1, <1>2, <1>3, <1>4, <1>5
=============================================================================
