------------------------------ MODULE Telemetry ------------------------------
(***************************************************************************)
(* The dashboard's feed (src/telemetry.rs): once a second the broadcaster  *)
(* reads the total of every source, while the sources' tasks count packets *)
(* and sources are removed and added again; it stores the snapshot for     *)
(* clients to come and sends it to those there are.                        *)
(*                                                                         *)
(* A snapshot is its number and what it said of each source.  Bytes are    *)
(* counted like packets.  Whichever tasks a runtime has had, they count in *)
(* one place: they are not told apart.  The source's state and its uptime  *)
(* are read as they are and left out.                                      *)
(***************************************************************************)
EXTENDS Integers, Sequences

CONSTANTS
  Ids,           \* source ids
  Clients,       \* clients of /ws/telemetry
  Capacity,      \* TELEMETRY_CHANNEL_CAPACITY
  None,
  MaxRuntimes,   \* bounds: runtimes of an id,
  MaxPackets,    \* ... packets received from it,
  MaxSnapshots   \* ... snapshots

ASSUME TelemetryAssumption ==
  /\ Capacity \in Nat \ {0}
  /\ None \notin Nat
  /\ {MaxRuntimes, MaxPackets, MaxSnapshots} \subseteq Nat

VARIABLES
  runtimes,  \* how many SourceRuntimes an id has had
  listed,    \* the ids in state.sources
  packets,   \* SourceRuntime.packets of the latest runtime
  received,  \* history: packets counted for an id, by all its runtimes
  bpc,       \* where the broadcaster is
  todo,      \* the sources it still has to read
  last,      \* last_packets
  reported,  \* history: the sum of the deltas shown for an id
  base,      \* history: the total at the first snapshot with the id
  latest,    \* latest_telemetry
  sent,      \* snapshots sent on telemetry_tx
  pc,        \* where each client's task is
  item,      \* the snapshot it is sending
  cursor,    \* the position its receiver reads next
  peer,      \* "reads", "stalls" or "left"
  joined,    \* history: how many were sent when it connected
  got        \* history: the snapshots it was given

sourceVars == <<runtimes, listed, packets, received>>
buildVars  == <<bpc, todo, last, reported, base>>
clientVars == <<pc, item, cursor, peer, joined, got>>
vars == <<runtimes, listed, packets, received, bpc, todo, last, reported, base,
          latest, sent, pc, item, cursor, peer, joined, got>>

Init ==
  /\ runtimes = [id \in Ids |-> 0] /\ listed = {}
  /\ packets = [id \in Ids |-> 0] /\ received = [id \in Ids |-> 0]
  /\ bpc = "tick" /\ todo = {}
  /\ last = [id \in Ids |-> None]
  /\ reported = [id \in Ids |-> 0] /\ base = [id \in Ids |-> 0]
  /\ latest = 0 /\ sent = 0
  /\ pc = [c \in Clients |-> "out"]
  /\ item = [c \in Clients |-> 0]
  /\ cursor = [c \in Clients |-> 1]
  /\ peer = [c \in Clients |-> "reads"]
  /\ joined = [c \in Clients |-> 0]
  /\ got = [c \in Clients |-> <<>>]
-----------------------------------------------------------------------------
(* The supervisor: state.sources is written to, so not while it is read.   *)
AddSource(id) ==
  /\ bpc # "reading"
  /\ id \notin listed
  /\ runtimes[id] < MaxRuntimes
  /\ listed' = listed \cup {id}
  /\ runtimes' = [runtimes EXCEPT ![id] = @ + 1]
  /\ packets' = [packets EXCEPT ![id] = 0]
  /\ UNCHANGED <<received, buildVars, latest, sent, clientVars>>

RemoveSource(id) ==
  /\ bpc # "reading"
  /\ id \in listed
  /\ listed' = listed \ {id}
  /\ UNCHANGED <<runtimes, packets, received, buildVars, latest, sent, clientVars>>

(* A task of the listed runtime; what others count no snapshot shows. *)
RecordPacket(id) ==
  /\ id \in listed
  /\ received[id] < MaxPackets
  /\ packets'  = [packets EXCEPT ![id] = @ + 1]
  /\ received' = [received EXCEPT ![id] = @ + 1]
  /\ UNCHANGED <<runtimes, listed, buildVars, latest, sent, clientVars>>
-----------------------------------------------------------------------------
(* The broadcaster; build_snapshot holds the lock on the sources. *)
Broadcast == UNCHANGED <<sourceVars, clientVars>>

BeginSnapshot ==
  /\ bpc = "tick"
  /\ latest < MaxSnapshots
  /\ bpc' = "reading" /\ todo' = listed
  /\ UNCHANGED <<last, reported, base, latest, sent>> /\ Broadcast

(* source_telemetry *)
MutWrap(id) == IF last[id] = None THEN 0 ELSE packets[id] - last[id]
MutFromZero(id) == IF last[id] = None THEN packets[id]
                   ELSE IF packets[id] < last[id] THEN 0 ELSE packets[id] - last[id]
Delta(id) == IF last[id] = None \/ packets[id] < last[id] THEN 0
             ELSE packets[id] - last[id]

SampleSource(id) ==
  /\ bpc = "reading"
  /\ id \in todo
  /\ todo' = todo \ {id}
  /\ last' = [last EXCEPT ![id] = packets[id]]
  /\ reported' = [reported EXCEPT ![id] = @ + Delta(id)]
  /\ base' = IF last[id] = None THEN [base EXCEPT ![id] = packets[id]] ELSE base
  /\ UNCHANGED <<bpc, latest, sent>> /\ Broadcast

Store ==
  /\ bpc = "reading" /\ todo = {}
  /\ bpc' = "stored"
  /\ latest' = latest + 1
  /\ UNCHANGED <<todo, last, reported, base, sent>> /\ Broadcast

Send ==
  /\ bpc = "stored"
  /\ bpc' = "tick"
  /\ sent' = sent + 1
  /\ UNCHANGED <<todo, last, reported, base, latest>> /\ Broadcast
-----------------------------------------------------------------------------
(* A client. *)
Goto(c, label) == pc' = [pc EXCEPT ![c] = label]
Elsewhere == UNCHANGED <<sourceVars, buildVars, latest, sent>>

ConnectClient(c) ==
  /\ pc[c] = "out"
  /\ Goto(c, "upgraded")
  /\ joined' = [joined EXCEPT ![c] = sent]
  /\ UNCHANGED <<item, cursor, peer, got>> /\ Elsewhere

ReadLatest(c) ==
  /\ pc[c] = "upgraded"
  /\ item' = [item EXCEPT ![c] = latest]
  /\ Goto(c, IF latest = 0 THEN "subscribe" ELSE "first")
  /\ UNCHANGED <<cursor, peer, joined, got>> /\ Elsewhere

MutBacklog(c) ==
  /\ pc[c] = "subscribe"
  /\ cursor' = [cursor EXCEPT ![c] = IF sent < Capacity THEN 1 ELSE sent - Capacity + 1]
  /\ Goto(c, "select")
  /\ UNCHANGED <<item, peer, joined, got>> /\ Elsewhere
Subscribe(c) ==
  /\ pc[c] = "subscribe"
  /\ cursor' = [cursor EXCEPT ![c] = sent + 1]
  /\ Goto(c, "select")
  /\ UNCHANGED <<item, peer, joined, got>> /\ Elsewhere

Lagging(c) == sent - cursor[c] + 1 > Capacity

Recv(c) ==
  /\ pc[c] = "select"
  /\ cursor[c] <= sent /\ ~Lagging(c)
  /\ item' = [item EXCEPT ![c] = cursor[c]]
  /\ cursor' = [cursor EXCEPT ![c] = @ + 1]
  /\ Goto(c, "sending")
  /\ UNCHANGED <<peer, joined, got>> /\ Elsewhere

(* Lagged is ignored: the receiver is at the oldest snapshot that is kept. *)
MutLagLeaves(c) ==
  /\ pc[c] = "select"
  /\ Lagging(c)
  /\ Goto(c, "gone")
  /\ UNCHANGED <<item, cursor, peer, joined, got>> /\ Elsewhere
Lag(c) ==
  /\ pc[c] = "select"
  /\ Lagging(c)
  /\ cursor' = [cursor EXCEPT ![c] = sent - Capacity + 1]
  /\ UNCHANGED <<pc, item, peer, joined, got>> /\ Elsewhere

SendDone(c) ==
  /\ pc[c] \in {"first", "sending"}
  /\ peer[c] = "reads"
  /\ got' = [got EXCEPT ![c] = Append(@, item[c])]
  /\ Goto(c, IF pc[c] = "first" THEN "subscribe" ELSE "select")
  /\ UNCHANGED <<item, cursor, peer, joined>> /\ Elsewhere

Ping(c) ==
  /\ pc[c] = "select"
  /\ peer[c] # "left"
  /\ Goto(c, "pong")
  /\ UNCHANGED <<item, cursor, peer, joined, got>> /\ Elsewhere

PongDone(c) ==
  /\ pc[c] = "pong"
  /\ peer[c] = "reads"
  /\ Goto(c, "select")
  /\ UNCHANGED <<item, cursor, peer, joined, got>> /\ Elsewhere

(* A send fails, or the end of the connection is read. *)
Leave(c) ==
  /\ pc[c] \in {"first", "select", "sending", "pong"}
  /\ peer[c] = "left"
  /\ Goto(c, "gone")
  /\ UNCHANGED <<item, cursor, peer, joined, got>> /\ Elsewhere

PeerTurns(c) ==
  /\ pc[c] \notin {"out", "gone"}
  /\ \/ peer[c] = "reads"  /\ peer' = [peer EXCEPT ![c] = "stalls"]
     \/ peer[c] = "stalls" /\ peer' = [peer EXCEPT ![c] = "reads"]
     \/ peer[c] # "left"   /\ peer' = [peer EXCEPT ![c] = "left"]
  /\ UNCHANGED <<pc, item, cursor, joined, got>> /\ Elsewhere
-----------------------------------------------------------------------------
Source(id) ==
  AddSource(id) \/ RemoveSource(id) \/ RecordPacket(id)

Broadcaster ==
  BeginSnapshot \/ Store \/ Send \/ \E id \in Ids : SampleSource(id)

Client(c) ==
  \/ ConnectClient(c) \/ ReadLatest(c) \/ Subscribe(c) \/ Recv(c) \/ Lag(c)
  \/ SendDone(c) \/ Ping(c) \/ PongDone(c) \/ Leave(c) \/ PeerTurns(c)

Next ==
  \/ \E id \in Ids : Source(id)
  \/ Broadcaster
  \/ \E c \in Clients : Client(c)

Spec == Init /\ [][Next]_vars

(* select! polls its branches in a random order: one that is ready again   *)
(* and again is taken.  Nothing makes a peer read.                         *)
Fairness ==
  \A c \in Clients :
    /\ WF_vars(SendDone(c) \/ PongDone(c) \/ Leave(c))
    /\ SF_vars(Recv(c) \/ Lag(c))

FairSpec == Spec /\ Fairness
-----------------------------------------------------------------------------
(* Types, and what each place means.  Deltas are never negative. *)
TypeOK ==
  /\ runtimes \in [Ids -> Nat] /\ listed \subseteq Ids
  /\ packets \in [Ids -> Nat] /\ received \in [Ids -> Nat]
  /\ bpc \in {"tick", "reading", "stored"}
  /\ todo \subseteq Ids
  /\ last \in [Ids -> Nat \cup {None}]
  /\ reported \in [Ids -> Nat] /\ base \in [Ids -> Nat]
  /\ latest \in Nat /\ sent \in Nat
  /\ pc \in [Clients -> {"out", "upgraded", "first", "subscribe", "select",
                         "sending", "pong", "gone"}]
  /\ item \in [Clients -> Nat] /\ cursor \in [Clients -> Nat \ {0}]
  /\ peer \in [Clients -> {"reads", "stalls", "left"}]
  /\ joined \in [Clients -> Nat] /\ got \in [Clients -> Seq(Nat)]
  /\ todo # {} => bpc = "reading"

(* telemetry.rs:220-235: the deltas of a source add up to no more than was *)
(* received, though totals are remembered by id and a source that was      *)
(* removed and added again starts at zero; and to exactly what came since  *)
(* its first snapshot while it keeps its runtime.                          *)
Counted ==
  \A id \in Ids :
    /\ reported[id] <= received[id]
    /\ runtimes[id] = 1 /\ last[id] # None => reported[id] + base[id] = last[id]

(* telemetry.rs:103-140: a client begins with a snapshot at least as new   *)
(* as any that was sent before it connected, and never goes back: only the *)
(* first may come twice.                                                   *)
InOrder ==
  \A c \in Clients :
    /\ got[c] # <<>> => got[c][1] >= joined[c]
    /\ \A i, j \in DOMAIN got[c] : i < j =>
         got[c][i] < got[c][j] \/ (i = 1 /\ j = 2 /\ got[c][i] = got[c][j])

(* telemetry.rs:142-151: falling behind costs a client snapshots, never    *)
(* its connection: if it goes on reading it gets to the latest one.        *)
Latest(c) == IF got[c] = <<>> THEN 0 ELSE got[c][Len(got[c])]
CatchesUp ==
  \A c \in Clients, n \in 1..MaxSnapshots :
    (pc[c] = "select" /\ cursor[c] <= n /\ n <= sent) ~>
      (Latest(c) >= n \/ peer[c] # "reads")
=============================================================================
