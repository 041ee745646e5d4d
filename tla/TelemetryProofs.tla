--------------------------- MODULE TelemetryProofs ---------------------------
(* Proofs about Telemetry: its types, what the deltas add up to, and the    *)
(* order in which a client is given snapshots.                              *)
EXTENDS Telemetry, TLAPS

(* What a step leaves alone, as TypeOK is made of. *)
SourceTypes ==
  /\ runtimes \in [Ids -> Nat] /\ listed \subseteq Ids
  /\ packets \in [Ids -> Nat] /\ received \in [Ids -> Nat]

BuildTypes ==
  /\ bpc \in {"tick", "reading", "stored"}
  /\ todo \subseteq Ids
  /\ last \in [Ids -> Nat \cup {None}]
  /\ reported \in [Ids -> Nat] /\ base \in [Ids -> Nat]
  /\ latest \in Nat /\ sent \in Nat
  /\ todo # {} => bpc = "reading"

ClientTypes ==
  /\ pc \in [Clients -> {"out", "upgraded", "first", "subscribe", "select",
                         "sending", "pong", "gone"}]
  /\ item \in [Clients -> Nat] /\ cursor \in [Clients -> Nat \ {0}]
  /\ peer \in [Clients -> {"reads", "stalls", "left"}]
  /\ joined \in [Clients -> Nat] /\ got \in [Clients -> Seq(Nat)]

LEMMA TypesSplit == TypeOK <=> SourceTypes /\ BuildTypes /\ ClientTypes
BY DEF TypeOK, SourceTypes, BuildTypes, ClientTypes

(* Each of the three parts of the system keeps its own types. *)
LEMMA SourceTyped ==
  ASSUME TypeOK, NEW id \in Ids, Source(id)
  PROVE  SourceTypes'
<1>0. SourceTypes BY TypesSplit
<1> USE DEF SourceTypes
<1>1. CASE AddSource(id)    BY <1>0, <1>1 DEF AddSource
<1>2. CASE RemoveSource(id) BY <1>0, <1>2 DEF RemoveSource
<1>3. CASE RecordPacket(id) BY <1>0, <1>3 DEF RecordPacket
<1> QED BY <1>1, <1>2, <1>3 DEF Source

LEMMA SourceElsewhere ==
  ASSUME NEW id \in Ids, Source(id)
  PROVE  UNCHANGED <<buildVars, latest, sent, clientVars>>
BY DEF Source, AddSource, RemoveSource, RecordPacket

LEMMA DeltaNat ==
  ASSUME TypeOK, NEW id \in Ids
  PROVE  Delta(id) \in Nat
BY DEF TypeOK, Delta

LEMMA BroadcasterTyped ==
  ASSUME TypeOK, Broadcaster
  PROVE  BuildTypes'
<1>0. BuildTypes /\ SourceTypes BY TypesSplit
<1> USE DEF BuildTypes
<1>1. CASE BeginSnapshot BY <1>0, <1>1 DEF BeginSnapshot, SourceTypes
<1>2. CASE Store         BY <1>0, <1>2 DEF Store
<1>3. CASE Send          BY <1>0, <1>3 DEF Send
<1>4. ASSUME NEW id \in Ids, SampleSource(id) PROVE BuildTypes'
  <2>1. Delta(id) \in Nat BY DeltaNat
  <2>2. reported[id] + Delta(id) \in Nat BY <1>0, <2>1
  <2> QED BY <1>0, <1>4, <2>2 DEF SampleSource, SourceTypes
<1> QED BY <1>1, <1>2, <1>3, <1>4 DEF Broadcaster

LEMMA BroadcasterElsewhere ==
  ASSUME Broadcaster
  PROVE  UNCHANGED <<sourceVars, clientVars>>
BY DEF Broadcaster, BeginSnapshot, SampleSource, Store, Send, Broadcast

LEMMA ClientTyped ==
  ASSUME TypeOK, NEW c \in Clients, Client(c)
  PROVE  ClientTypes'
<1>0. ClientTypes BY TypesSplit
<1>00. latest \in Nat /\ sent \in Nat /\ Capacity \in Nat
  BY TelemetryAssumption DEF TypeOK
<1> USE DEF ClientTypes
<1>1. CASE ConnectClient(c) BY <1>0, <1>00, <1>1 DEF ConnectClient, Goto
<1>2. CASE ReadLatest(c)    BY <1>0, <1>00, <1>2 DEF ReadLatest, Goto
<1>3. CASE Subscribe(c)     BY <1>0, <1>00, <1>3 DEF Subscribe, Goto
<1>4. CASE Recv(c)          BY <1>0, <1>4 DEF Recv, Goto
<1>5. CASE Lag(c)           BY <1>0, <1>00, <1>5 DEF Lag, Lagging
<1>6. CASE SendDone(c)      BY <1>0, <1>6 DEF SendDone, Goto
<1>7. CASE Ping(c)          BY <1>0, <1>7 DEF Ping, Goto
<1>8. CASE PongDone(c)      BY <1>0, <1>8 DEF PongDone, Goto
<1>9. CASE Leave(c)         BY <1>0, <1>9 DEF Leave, Goto
<1>10. CASE PeerTurns(c)    BY <1>0, <1>10 DEF PeerTurns
<1> QED BY <1>1, <1>2, <1>3, <1>4, <1>5, <1>6, <1>7, <1>8, <1>9, <1>10 DEF Client

LEMMA ClientElsewhere ==
  ASSUME NEW c \in Clients, Client(c)
  PROVE  UNCHANGED <<sourceVars, buildVars, latest, sent>>
BY DEF Client, ConnectClient, ReadLatest, Subscribe, Recv, Lag, SendDone, Ping,
       PongDone, Leave, PeerTurns, Elsewhere

(* Every state is well typed: no delta is negative, and sources are still   *)
(* to be read only while a snapshot is built (telemetry.rs:170-246).        *)
THEOREM TypeCorrect == Spec => []TypeOK
<1>1. Init => TypeOK
  <2> SUFFICES ASSUME Init PROVE TypeOK OBVIOUS
  <2> USE TelemetryAssumption DEF Init
  <2>1. SourceTypes BY DEF SourceTypes
  <2>2. BuildTypes  BY DEF BuildTypes
  <2>3. ClientTypes BY DEF ClientTypes
  <2> QED BY <2>1, <2>2, <2>3, TypesSplit
<1>2. TypeOK /\ [Next]_vars => TypeOK'
  <2> SUFFICES ASSUME TypeOK, [Next]_vars PROVE SourceTypes' /\ BuildTypes' /\ ClientTypes'
    BY DEF TypeOK, SourceTypes, BuildTypes, ClientTypes
  <2>0. SourceTypes /\ BuildTypes /\ ClientTypes BY TypesSplit
  <2>1. ASSUME NEW id \in Ids, Source(id)
        PROVE  SourceTypes' /\ BuildTypes' /\ ClientTypes'
    <3>1. SourceTypes' BY <2>1, SourceTyped
    <3>2. UNCHANGED <<buildVars, latest, sent, clientVars>> BY <2>1, SourceElsewhere
    <3>3. BuildTypes' BY <2>0, <3>2 DEF BuildTypes, buildVars
    <3>4. ClientTypes' BY <2>0, <3>2 DEF ClientTypes, clientVars
    <3> QED BY <3>1, <3>3, <3>4
  <2>2. CASE Broadcaster
    <3>1. BuildTypes' BY <2>2, BroadcasterTyped
    <3>2. UNCHANGED <<sourceVars, clientVars>> BY <2>2, BroadcasterElsewhere
    <3>3. SourceTypes' BY <2>0, <3>2 DEF SourceTypes, sourceVars
    <3>4. ClientTypes' BY <2>0, <3>2 DEF ClientTypes, clientVars
    <3> QED BY <3>1, <3>3, <3>4
  <2>3. ASSUME NEW c \in Clients, Client(c)
        PROVE  SourceTypes' /\ BuildTypes' /\ ClientTypes'
    <3>1. ClientTypes' BY <2>3, ClientTyped
    <3>2. UNCHANGED <<sourceVars, buildVars, latest, sent>> BY <2>3, ClientElsewhere
    <3>3. SourceTypes' BY <2>0, <3>2 DEF SourceTypes, sourceVars
    <3>4. BuildTypes' BY <2>0, <3>2 DEF BuildTypes, buildVars
    <3> QED BY <3>1, <3>3, <3>4
  <2>4. CASE UNCHANGED vars
    BY <2>0, <2>4 DEF vars, SourceTypes, BuildTypes, ClientTypes
  <2> QED BY <2>1, <2>2, <2>3, <2>4 DEF Next
<1> QED BY <1>1, <1>2, PTL DEF Spec
-----------------------------------------------------------------------------
(* What is still to be shown of a source never exceeds what was received    *)
(* and not yet shown; an id without a runtime was never read, and the first *)
(* runtime only counts up.                                                  *)
Tally(id) ==
  /\ reported[id] + Delta(id) <= received[id]
  /\ runtimes[id] = 0 => last[id] = None /\ id \notin listed
  /\ last[id] = None => reported[id] = 0
  /\ (runtimes[id] = 1 /\ last[id] # None) =>
       (reported[id] + base[id] = last[id] /\ last[id] <= packets[id])

CountedInv == todo \subseteq listed /\ \A id \in Ids : Tally(id)

LEMMA SourceTallies ==
  ASSUME TypeOK, CountedInv, NEW k \in Ids, Source(k), NEW id \in Ids
  PROVE  Tally(id)'
<1>0. SourceTypes /\ BuildTypes /\ Tally(id) BY TypesSplit DEF CountedInv
<1>00. UNCHANGED <<last, reported, base>> BY SourceElsewhere DEF buildVars
<1>000. None \notin Nat BY TelemetryAssumption
<1>1. CASE id # k
  <2>1. /\ packets'[id] = packets[id] /\ received'[id] = received[id]
        /\ runtimes'[id] = runtimes[id]
        /\ id \in listed' <=> id \in listed
    BY <1>0, <1>1 DEF SourceTypes, Source, AddSource, RemoveSource, RecordPacket
  <2> QED BY <1>0, <1>00, <2>1 DEF Tally, Delta
<1>2. CASE id = k /\ AddSource(k)
  <2>1. /\ packets'[id] = 0 /\ received'[id] = received[id]
        /\ runtimes'[id] = runtimes[id] + 1
        /\ runtimes[id] = 0 \/ runtimes[id] + 1 # 1
    BY <1>0, <1>2 DEF SourceTypes, AddSource
  <2>2. runtimes'[id] # 0 BY <1>0, <2>1 DEF SourceTypes
  <2>3. last[id] # None => Delta(id)' = 0 /\ Delta(id) >= 0
    BY <1>0, <1>00, <2>1, DeltaNat DEF Delta, SourceTypes, BuildTypes
  <2>4. last[id] = None => Delta(id)' = 0 /\ Delta(id) >= 0
    BY <1>00 DEF Delta
  <2>5. reported[id] \in Nat /\ received[id] \in Nat /\ Delta(id) \in Nat
    BY <1>0, DeltaNat DEF SourceTypes, BuildTypes
  <2>6. reported'[id] + Delta(id)' <= received'[id]
    BY <1>0, <1>00, <2>1, <2>3, <2>4, <2>5 DEF Tally
  <2> QED BY <1>0, <1>00, <2>1, <2>2, <2>6 DEF Tally
<1>3. CASE id = k /\ RecordPacket(k)
  <2>1. /\ packets'[id] = packets[id] + 1 /\ received'[id] = received[id] + 1
        /\ runtimes' = runtimes /\ listed' = listed
    BY <1>0, <1>3 DEF SourceTypes, RecordPacket
  <2> QED BY <1>0, <1>00, <1>000, <2>1 DEF Tally, Delta, SourceTypes, BuildTypes
<1>4. CASE id = k /\ ~AddSource(k) /\ ~RecordPacket(k)
  <2>1. UNCHANGED <<packets, received, runtimes>> /\ listed' \subseteq listed
    BY <1>4 DEF Source, RemoveSource
  <2> QED BY <1>0, <1>00, <2>1 DEF Tally, Delta
<1> QED BY <1>1, <1>2, <1>3, <1>4

LEMMA SampleTallies ==
  ASSUME TypeOK, CountedInv, NEW k \in Ids, SampleSource(k), NEW id \in Ids
  PROVE  Tally(id)'
<1>0. SourceTypes /\ BuildTypes /\ Tally(id) BY TypesSplit DEF CountedInv
<1>00. UNCHANGED <<packets, received, runtimes, listed>>
  BY DEF SampleSource, Broadcast, sourceVars
<1>000. None \notin Nat BY TelemetryAssumption
<1>1. CASE id # k
  <2>1. last'[id] = last[id] /\ reported'[id] = reported[id] /\ base'[id] = base[id]
    BY <1>0, <1>1 DEF SampleSource, BuildTypes
  <2> QED BY <1>0, <1>00, <2>1 DEF Tally, Delta
<1>2. CASE id = k
  <2>1. /\ last'[id] = packets[id]
        /\ reported'[id] = reported[id] + Delta(id)
        /\ base'[id] = IF last[id] = None THEN packets[id] ELSE base[id]
    BY <1>0, <1>2 DEF SampleSource, BuildTypes
  <2>2. packets[id] \in Nat /\ base[id] \in Nat /\ reported[id] \in Nat
    BY <1>0 DEF SourceTypes, BuildTypes
  <2>3. packets[id] # None BY <1>000, <2>2
  <2>4. Delta(id)' = 0 BY <1>00, <2>1, <2>2, <2>3 DEF Delta
  <2>5. runtimes[id] # 0 BY <1>0, <1>2 DEF Tally, CountedInv, SampleSource
  <2>6. reported'[id] + Delta(id)' <= received'[id]
    BY <1>0, <1>00, <2>1, <2>2, <2>4, DeltaNat DEF Tally
  <2>7. runtimes[id] = 1 => reported'[id] + base'[id] = packets[id]
    <3>1. CASE last[id] = None
      BY <1>0, <2>1, <2>2, <3>1 DEF Tally, Delta
    <3>2. CASE last[id] # None
      BY <1>0, <2>1, <2>2, <3>2 DEF Tally, Delta, BuildTypes
    <3> QED BY <3>1, <3>2
  <2> QED BY <1>00, <2>1, <2>2, <2>3, <2>5, <2>6, <2>7 DEF Tally
<1> QED BY <1>1, <1>2

(* telemetry.rs:228-235: for every number of sources, removed and added     *)
(* again as often as one likes, the deltas shown of a source never add up   *)
(* to more than was received from it.                                       *)
THEOREM CountedCorrect == Spec => []Counted
<1>1. Init => CountedInv
  BY TelemetryAssumption DEF Init, CountedInv, Tally, Delta
<1>2. TypeOK /\ CountedInv /\ [Next]_vars => CountedInv'
  <2> SUFFICES ASSUME TypeOK, CountedInv, [Next]_vars PROVE CountedInv'
    OBVIOUS
  <2>1. ASSUME NEW k \in Ids, Source(k) PROVE CountedInv'
    <3>1. \A id \in Ids : Tally(id)' BY <2>1, SourceTallies
    <3>2. todo' = todo BY <2>1, SourceElsewhere DEF buildVars
    <3>3. bpc # "reading" \/ listed' = listed
      BY <2>1 DEF Source, AddSource, RemoveSource, RecordPacket
    <3>4. bpc # "reading" => todo = {} BY TelemetryAssumption DEF TypeOK
    <3> QED BY <3>1, <3>2, <3>3, <3>4 DEF CountedInv
  <2>2. ASSUME NEW k \in Ids, SampleSource(k) PROVE CountedInv'
    <3>1. \A id \in Ids : Tally(id)' BY <2>2, SampleTallies
    <3>2. todo' \subseteq listed'
      BY <2>2 DEF CountedInv, SampleSource, Broadcast, sourceVars
    <3> QED BY <3>1, <3>2 DEF CountedInv
  <2>3. CASE BeginSnapshot \/ Store \/ Send
    BY <2>3 DEF CountedInv, Tally, Delta, BeginSnapshot, Store, Send, Broadcast, sourceVars
  <2>4. ASSUME NEW c \in Clients, Client(c) PROVE CountedInv'
    BY <2>4, ClientElsewhere DEF CountedInv, Tally, Delta, sourceVars, buildVars
  <2>5. CASE UNCHANGED vars
    BY <2>5 DEF vars, CountedInv, Tally, Delta
  <2> QED BY <2>1, <2>2, <2>3, <2>4, <2>5 DEF Next, Broadcaster
<1>3. TypeOK /\ CountedInv => Counted
  <2> SUFFICES ASSUME TypeOK, CountedInv, NEW id \in Ids
               PROVE  /\ reported[id] <= received[id]
                      /\ (runtimes[id] = 1 /\ last[id] # None) =>
                           reported[id] + base[id] = last[id]
    BY DEF Counted
  <2>1. Tally(id) /\ Delta(id) \in Nat BY DeltaNat DEF CountedInv
  <2> QED BY <2>1 DEF Tally, TypeOK
<1> QED BY <1>1, <1>2, <1>3, TypeCorrect, PTL DEF Spec
-----------------------------------------------------------------------------
(* All a client was given is older than n, but for a first snapshot that is *)
(* n itself.                                                                *)
Fresh(c, n) ==
  \A i \in DOMAIN got[c] : got[c][i] < n \/ (Len(got[c]) = 1 /\ got[c][i] = n)

(* The snapshot that is stored is the last one sent or the next one to be   *)
(* sent, and what a client is about to be given is newer than what it has.  *)
Order(c) ==
  /\ joined[c] <= sent
  /\ pc[c] \in {"out", "upgraded", "first"} => got[c] = <<>>
  /\ pc[c] = "first" => joined[c] <= item[c] /\ item[c] <= latest
  /\ pc[c] = "subscribe" =>
       Len(got[c]) <= 1 /\ \A i \in DOMAIN got[c] : got[c][i] <= latest
  /\ pc[c] \in {"select", "pong"} => joined[c] < cursor[c] /\ Fresh(c, cursor[c])
  /\ pc[c] = "sending" =>
       /\ joined[c] <= item[c] /\ Fresh(c, item[c])
       /\ cursor[c] = item[c] + 1

InOrderOf(c) ==
  /\ got[c] # <<>> => got[c][1] >= joined[c]
  /\ \A i, j \in DOMAIN got[c] : i < j =>
       got[c][i] < got[c][j] \/ (i = 1 /\ j = 2 /\ got[c][i] = got[c][j])

Stored ==
  /\ bpc = "stored" => latest = sent + 1
  /\ bpc # "stored" => latest = sent

OrderInv == Stored /\ \A c \in Clients : Order(c) /\ InOrderOf(c)

(* A client that takes no snapshot in this step keeps what it has. *)
LEMMA SameOrder ==
  ASSUME TypeOK, NEW c \in Clients, Order(c), InOrderOf(c),
         got'[c] = got[c], pc'[c] = pc[c], item'[c] = item[c],
         cursor'[c] = cursor[c], joined'[c] = joined[c],
         latest' \in Nat, sent' \in Nat, latest <= latest', sent <= sent'
  PROVE  Order(c)' /\ InOrderOf(c)'
<1>1. got[c] \in Seq(Nat) BY DEF TypeOK
<1>2. \A i \in DOMAIN got[c] : got[c][i] \in Nat BY <1>1
<1>3. joined[c] \in Nat /\ item[c] \in Nat /\ latest \in Nat /\ sent \in Nat BY DEF TypeOK
<1>4. InOrderOf(c)' BY DEF InOrderOf
<1>5. Order(c)' BY <1>2, <1>3 DEF Order, Fresh
<1> QED BY <1>4, <1>5

LEMMA Given ==
  ASSUME TypeOK, Stored, NEW c \in Clients, Order(c), InOrderOf(c), SendDone(c)
  PROVE  Order(c)' /\ InOrderOf(c)'
<1>1. /\ got[c] \in Seq(Nat) /\ item[c] \in Nat /\ joined[c] \in Nat
      /\ cursor[c] \in Nat /\ latest \in Nat /\ sent \in Nat
  BY DEF TypeOK
<1>2. /\ got'[c] = Append(got[c], item[c])
      /\ pc'[c] = IF pc[c] = "first" THEN "subscribe" ELSE "select"
      /\ UNCHANGED <<item, cursor, joined, latest, sent>>
  BY DEF SendDone, Goto, Elsewhere, TypeOK
<1> DEFINE g == got[c]
           h == Append(g, item[c])
<1>3. /\ Len(h) = Len(g) + 1 /\ DOMAIN h = 1..(Len(g) + 1)
      /\ DOMAIN g = 1..Len(g) /\ Len(g) \in Nat
      /\ \A i \in 1..Len(g) : h[i] = g[i] /\ g[i] \in Nat
      /\ h[Len(g) + 1] = item[c] /\ h # <<>>
  BY <1>1
<1>4. CASE pc[c] = "first"
  <2>1. g = <<>> /\ joined[c] <= item[c] /\ item[c] <= latest BY <1>4 DEF Order
  <2>3. Len(h) = 1 /\ h[1] = item[c] BY <1>3, <2>1
  <2> QED
    <3>1. InOrderOf(c)' BY <1>1, <1>2, <1>3, <2>1, <2>3 DEF InOrderOf
    <3>2. Order(c)' BY <1>1, <1>2, <1>3, <1>4, <2>1, <2>3 DEF Order
    <3> QED BY <3>1, <3>2
<1>5. CASE pc[c] = "sending"
  <2>1. /\ joined[c] <= item[c] /\ cursor[c] = item[c] + 1
        /\ \A i \in 1..Len(g) : g[i] < item[c] \/ (Len(g) = 1 /\ g[i] = item[c])
    BY <1>3, <1>5 DEF Order, Fresh
  <2>2. \A i \in 1..(Len(g) + 1) : h[i] < item[c] + 1
    <3>1. ASSUME NEW i \in 1..Len(g) PROVE h[i] < item[c] + 1
      <4>1. h[i] = g[i] /\ g[i] \in Nat BY <1>3
      <4>2. g[i] <= item[c] BY <1>1, <2>1, <4>1
      <4> HIDE DEF g, h
      <4> QED BY <1>1, <4>1, <4>2
    <3>2. h[Len(g) + 1] < item[c] + 1 BY <1>1, <1>3
    <3> QED BY <1>3, <3>1, <3>2
  <2>3. Order(c)'
    <3>1. Fresh(c, cursor[c])' BY <1>1, <1>2, <1>3, <2>1, <2>2 DEF Fresh
    <3>2. joined[c] < item[c] + 1 BY <1>1, <2>1
    <3>3. joined[c] <= sent BY DEF Order
    <3> QED BY <1>2, <1>5, <2>1, <3>1, <3>2, <3>3 DEF Order
  <2>4. h[1] >= joined[c]
    <3>1. CASE g = <<>> BY <1>3, <2>1, <3>1
    <3>2. CASE g # <<>>
      <4>1. 1 \in 1..Len(g) BY <1>1, <1>3, <3>2
      <4> QED BY <1>3, <3>2, <4>1 DEF InOrderOf
    <3> QED BY <3>1, <3>2
  <2>5. ASSUME NEW i \in 1..(Len(g) + 1), NEW j \in 1..(Len(g) + 1), i < j
        PROVE  h[i] < h[j] \/ (i = 1 /\ j = 2 /\ h[i] = h[j])
    <3>1. i \in 1..Len(g) BY <1>3, <2>5
    <3>2. CASE j \in 1..Len(g)
      BY <1>3, <2>5, <3>1, <3>2 DEF InOrderOf
    <3>3. CASE j = Len(g) + 1
      BY <1>3, <2>1, <2>5, <3>1, <3>3
    <3> QED BY <1>3, <3>2, <3>3
  <2>6. InOrderOf(c)' BY <1>2, <1>3, <2>4, <2>5 DEF InOrderOf
  <2> QED BY <2>3, <2>6
<1> QED BY <1>4, <1>5 DEF SendDone

(* A client's own step. *)
LEMMA ClientOrder ==
  ASSUME TypeOK, Stored, NEW c \in Clients, Order(c), InOrderOf(c), Client(c)
  PROVE  Order(c)' /\ InOrderOf(c)'
<1>0. /\ got[c] \in Seq(Nat) /\ item[c] \in Nat /\ joined[c] \in Nat
      /\ cursor[c] \in Nat /\ latest \in Nat /\ sent \in Nat /\ Capacity \in Nat
  BY TelemetryAssumption DEF TypeOK
<1>00. ClientTypes BY TypesSplit
<1>000. sent <= latest BY <1>0 DEF Stored, TypeOK
<1>0000. \A i \in DOMAIN got[c] : got[c][i] \in Nat BY <1>0
<1>1. CASE SendDone(c) BY <1>1, Given
<1>2. CASE ~SendDone(c)
  <2>1. UNCHANGED <<got, latest, sent>>
    BY <1>2 DEF Client, ConnectClient, ReadLatest, Subscribe, Recv, Lag, Ping,
       PongDone, Leave, PeerTurns, Elsewhere
  <2>2. CASE ConnectClient(c)
    BY <1>0, <1>00, <2>1, <2>2 DEF ConnectClient, Goto, Order, InOrderOf, ClientTypes
  <2>3. CASE ReadLatest(c)
    BY <1>0, <1>00, <1>000, <2>1, <2>3
       DEF ReadLatest, Goto, Order, InOrderOf, ClientTypes
  <2>4. CASE Subscribe(c)
    <3>1. /\ pc'[c] = "select" /\ cursor'[c] = sent + 1
          /\ joined' = joined /\ pc[c] = "subscribe"
      BY <1>00, <2>4 DEF Subscribe, Goto, ClientTypes
    <3>2. \A i \in DOMAIN got[c] : got[c][i] <= latest /\ Len(got[c]) = 1
      <4>1. ASSUME NEW i \in DOMAIN got[c] PROVE Len(got[c]) = 1
        <5>1. Len(got[c]) \in Nat /\ i \in 1..Len(got[c]) BY <1>0, <4>1
        <5>2. Len(got[c]) <= 1 BY <3>1 DEF Order
        <5> DEFINE n == Len(got[c])
        <5>3. n \in Nat /\ i \in 1..n /\ n <= 1 BY <5>1, <5>2
        <5> HIDE DEF n
        <5>4. n = 1 BY <5>3
        <5> QED BY <5>4 DEF n
      <4> QED BY <3>1, <4>1 DEF Order
    <3>3. latest <= sent + 1 BY <1>0 DEF Stored, TypeOK
    <3>4. Fresh(c, cursor[c])'
      BY <1>0, <1>0000, <2>1, <3>1, <3>2, <3>3 DEF Fresh
    <3>5. Order(c)' BY <1>0, <2>1, <3>1, <3>4 DEF Order
    <3> QED BY <2>1, <3>1, <3>5 DEF InOrderOf
  <2>5. CASE Recv(c)
    <3>1. /\ pc'[c] = "sending" /\ item'[c] = cursor[c]
          /\ cursor'[c] = cursor[c] + 1 /\ joined' = joined /\ pc[c] = "select"
      BY <1>00, <2>5 DEF Recv, Goto, ClientTypes
    <3>2. Order(c)' BY <1>0, <2>1, <3>1 DEF Order, Fresh
    <3> QED BY <2>1, <3>1, <3>2 DEF InOrderOf
  <2>6. CASE Lag(c)
    <3>1. /\ cursor'[c] = sent - Capacity + 1 /\ cursor[c] < cursor'[c]
          /\ joined' = joined /\ pc' = pc /\ pc[c] = "select"
      BY <1>0, <1>00, <2>6 DEF Lag, Lagging, ClientTypes
    <3>2. Fresh(c, cursor[c])'
      <4>1. cursor'[c] \in Int BY <1>0, <3>1
      <4>2. ASSUME NEW i \in DOMAIN got[c] PROVE got[c][i] < cursor'[c]
        <5>1. got[c][i] <= cursor[c] BY <1>0, <1>0000, <3>1 DEF Order, Fresh
        <5> QED BY <1>0, <1>0000, <3>1, <4>1, <5>1
      <4> QED BY <2>1, <4>2 DEF Fresh
    <3>3. joined[c] < cursor'[c] BY <1>0, <3>1 DEF Order
    <3>4. Order(c)' BY <2>1, <3>1, <3>2, <3>3 DEF Order
    <3> QED BY <2>1, <3>1, <3>4 DEF InOrderOf
  <2>7. CASE Ping(c) \/ PongDone(c) \/ Leave(c)
    <3>1. /\ pc'[c] \in {"select", "pong", "gone"}
          /\ pc'[c] # "gone" => pc[c] \in {"select", "pong"}
          /\ UNCHANGED <<item, cursor, joined>>
      BY <1>00, <2>7 DEF Ping, PongDone, Leave, Goto, ClientTypes
    <3>2. Order(c)' BY <2>1, <3>1 DEF Order, Fresh
    <3> QED BY <2>1, <3>1, <3>2 DEF InOrderOf
  <2>8. CASE PeerTurns(c)
    BY <1>0, <2>1, <2>8, SameOrder DEF PeerTurns
  <2> QED BY <1>2, <2>2, <2>3, <2>4, <2>5, <2>6, <2>7, <2>8 DEF Client
<1> QED BY <1>1, <1>2

(* telemetry.rs:103-140: a client is never given an older snapshot after a  *)
(* newer one, whenever it connects and however far behind it falls: the     *)
(* broadcaster stores a snapshot before it sends it.                        *)
THEOREM InOrderCorrect == Spec => []InOrder
<1>1. Init => OrderInv
  BY DEF Init, OrderInv, Stored, Order, InOrderOf, Fresh
<1>2. TypeOK /\ OrderInv /\ [Next]_vars => OrderInv'
  <2> SUFFICES ASSUME TypeOK, OrderInv, [Next]_vars PROVE OrderInv'
    OBVIOUS
  <2>0. latest \in Nat /\ sent \in Nat BY DEF TypeOK
  <2>1. ASSUME NEW d \in Clients,
               UNCHANGED <<got, pc, item, cursor, joined>>,
               latest' \in Nat, sent' \in Nat, latest <= latest', sent <= sent'
        PROVE  Order(d)' /\ InOrderOf(d)'
    BY <2>1, SameOrder DEF OrderInv
  <2>2. ASSUME NEW k \in Ids, Source(k) PROVE OrderInv'
    <3>1. UNCHANGED <<bpc, latest, sent, got, pc, item, cursor, joined>>
      BY <2>2, SourceElsewhere DEF buildVars, clientVars
    <3> QED BY <2>0, <2>1, <3>1 DEF OrderInv, Stored
  <2>3. CASE Broadcaster
    <3>1. UNCHANGED <<got, pc, item, cursor, joined>>
      BY <2>3, BroadcasterElsewhere DEF clientVars
    <3>2. /\ Stored' /\ latest' \in Nat /\ sent' \in Nat
          /\ latest <= latest' /\ sent <= sent'
      <4>1. CASE BeginSnapshot
        BY <2>0, <4>1 DEF OrderInv, Stored, BeginSnapshot
      <4>2. CASE Store
        BY <2>0, <4>2 DEF OrderInv, Stored, Store
      <4>3. CASE Send
        BY <2>0, <4>3 DEF OrderInv, Stored, Send
      <4>4. CASE \E id \in Ids : SampleSource(id)
        BY <2>0, <4>4 DEF OrderInv, Stored, SampleSource
      <4> QED BY <2>3, <4>1, <4>2, <4>3, <4>4 DEF Broadcaster
    <3> QED BY <2>1, <3>1, <3>2 DEF OrderInv
  <2>4. ASSUME NEW c \in Clients, Client(c) PROVE OrderInv'
    <3>1. UNCHANGED <<bpc, latest, sent>> BY <2>4, ClientElsewhere DEF buildVars
    <3>2. Order(c)' /\ InOrderOf(c)' BY <2>4, ClientOrder DEF OrderInv
    <3>3. ASSUME NEW d \in Clients, d # c PROVE Order(d)' /\ InOrderOf(d)'
      <4>1. /\ got'[d] = got[d] /\ pc'[d] = pc[d] /\ item'[d] = item[d]
            /\ cursor'[d] = cursor[d] /\ joined'[d] = joined[d]
        BY <2>4, <3>3 DEF TypeOK, Client, ConnectClient, ReadLatest, Subscribe,
           Recv, Lag, SendDone, Ping, PongDone, Leave, PeerTurns, Goto
      <4> QED BY <2>0, <3>1, <4>1, SameOrder DEF OrderInv
    <3> QED BY <3>1, <3>2, <3>3 DEF OrderInv, Stored
  <2>5. CASE UNCHANGED vars
    BY <2>0, <2>1, <2>5 DEF vars, OrderInv, Stored
  <2> QED BY <2>2, <2>3, <2>4, <2>5 DEF Next
<1>3. OrderInv => InOrder
  BY DEF OrderInv, InOrderOf, InOrder
<1> QED BY <1>1, <1>2, <1>3, TypeCorrect, PTL DEF Spec
=============================================================================
