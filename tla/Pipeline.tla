------------------------------ MODULE Pipeline ------------------------------
(***************************************************************************)
(* What one client of /ws is sent for each frame: the handshake that turns *)
(* a query into filters (multiplex_ws) and the stages a frame goes through *)
(* in serve_multiplex_client (src/handlers.rs), with the client's dedup    *)
(* cache and the envelope.  The query's ?dedupWindowSecs is `Requested'.   *)
(*                                                                         *)
(* Fanout has the receiver and the socket around this; here each frame is  *)
(* received and each send ends.  The clock starts at the handshake.        *)
(***************************************************************************)
EXTENDS DedupCache, Envelope

CONSTANTS
  Queries,        \* query strings
  Listed,         \* AppState.sources at the handshake
  Programs,       \* jq programs that compile
  Outcome(_, _),  \* how many values a program makes of a projection, or
  Failed,         \* ... a runtime error
  Messages,       \* upstream messages with the numbers they were given
  Unsent

ASSUME MessagesAssumption ==
  /\ \A m \in Messages :
       m.source \in SourceIds /\ m.payload \in Payloads /\ m.kind \in {Text, Binary}
  /\ \A p \in Payloads : Meta(p).content_hash \in Keys \cup {None}
  /\ Blank \notin Programs /\ None \notin Programs
  /\ None \notin Keys
  /\ \A q \in Queries : \A t \in q.payloadTypes : Upper(t) # None
  /\ Unsent \notin Nat
  /\ None \notin Messages

VARIABLES
  pc,        \* "out", "serving" or "refused"
  options,   \* what the handshake made of the query
  served,    \* history: the latest frame, when it came, what was sent for it
  delivered  \* history: when a message was last made of each packet

cacheVars    == <<rotated_at, current, previous, called_at,
                  admissions, admitted_at, reply>>
pipelineVars == <<now, rotated_at, current, previous, called_at, admissions,
                  admitted_at, reply, pc, options, served, delivered>>

NoOptions == [sources |-> {}, types |-> {}, dedup |-> FALSE, jaq |-> None,
              binary |-> FALSE]
Nothing == [message |-> None, at |-> 0, sent |-> <<>>]

PipelineInit ==
  /\ Init
  /\ pc = "out"
  /\ options = NoOptions
  /\ served = Nothing
  /\ delivered = [k \in Keys |-> Unsent]
-----------------------------------------------------------------------------
(* The handshake.  The parts of a comma-separated list come trimmed; the   *)
(* blank ones do not count, and a list without any other is no filter.     *)
Flag(raw)  == raw # None /\ Upper(raw) \in {Blank, "1", "TRUE", "YES", "ON"}
Parts(csv) == csv \ {Blank}

RequestedSourceIds(q)    == q.source \cup Parts(q.sources)
RequestedPayloadTypes(q) == {Upper(part) : part \in Parts(q.payloadTypes)}

(* Query<MultiplexQuery>: to serde_urlencoded a value is a string and never *)
(* a list, so a query with any `source=' is refused before multiplex_ws,   *)
(* whatever README.md:206 says ("Repeatable `?source=`").                  *)
Readable(q) == q.source = {}

Acceptable(q) ==
  /\ Readable(q)
  /\ q.jaq \in Programs \cup {None, Blank}
  /\ RequestedSourceIds(q) \subseteq Listed

Accept(q) ==
  /\ pc = "out"
  /\ Acceptable(q)
  /\ pc' = "serving"
  /\ options' = [sources |-> RequestedSourceIds(q),
                 types   |-> RequestedPayloadTypes(q),
                 dedup   |-> Flag(q.dedupByContent),
                 jaq     |-> IF q.jaq = Blank THEN None ELSE q.jaq,
                 binary  |-> Flag(q.binary)]
  /\ UNCHANGED <<now, cacheVars, served, delivered>>

Refuse(q) ==
  /\ pc = "out"
  /\ ~Acceptable(q)
  /\ pc' = "refused"
  /\ UNCHANGED <<now, cacheVars, options, served, delivered>>
-----------------------------------------------------------------------------
(* The stages. *)
Frame(m) == Encode(m.source, m.sequence, now, m.kind, m.payload)

BySource(f) == options.sources = {} \/ SourceId(f) \in options.sources
ByType(f)   == options.types = {} \/ FrameMeta(f).payload_type \in options.types
MutNoTypes(f) == BySource(f)
Passes(f)   == BySource(f) /\ ByType(f)

(* The hash the cache is asked about; without one a frame is not asked of. *)
Hash(f) == IF options.dedup THEN FrameMeta(f).content_hash ELSE None

(* socket.send: values of a jq program, the frame itself or its projection. *)
Projection(f) == [form |-> "json", content |-> Decode(f)]

Values(f) ==
  IF ~WellFormed(f) \/ Outcome(options.jaq, Decode(f)) = Failed THEN <<>>
  ELSE [i \in 1..Outcome(options.jaq, Decode(f)) |-> Projection(f)]

Sends(f) ==
  IF options.jaq # None THEN Values(f)
  ELSE IF options.binary THEN <<[form |-> "binary", content |-> f]>>
  ELSE IF WellFormed(f) THEN <<Projection(f)>> ELSE <<>>

(* History: which packet a message was about, whatever became of it. *)
Packet(m) == IF m.kind = Text THEN Meta(m.payload).content_hash ELSE None

Record(m, messages) ==
  /\ served' = [message |-> m, at |-> now, sent |-> messages]
  /\ delivered' = IF messages = <<>> \/ Packet(m) = None THEN delivered
                  ELSE [delivered EXCEPT ![Packet(m)] = now]
  /\ UNCHANGED <<pc, options>>

MutFilterLate(m) ==
  /\ pc = "serving"
  /\ ~Passes(Frame(m))
  /\ IF Hash(Frame(m)) = None THEN UNCHANGED <<now, cacheVars>>
     ELSE Admit(Hash(Frame(m)))
  /\ Record(m, <<>>)
FilterOut(m) ==
  /\ pc = "serving"
  /\ ~Passes(Frame(m))
  /\ UNCHANGED <<now, cacheVars>>
  /\ Record(m, <<>>)

DropRepeat(m) ==
  /\ pc = "serving"
  /\ Passes(Frame(m))
  /\ Hash(Frame(m)) # None
  /\ Suppresses(Hash(Frame(m)))
  /\ Admit(Hash(Frame(m)))
  /\ Record(m, <<>>)

MutNotRecorded(m) ==
  /\ pc = "serving"
  /\ Passes(Frame(m))
  /\ Hash(Frame(m)) # None => ~Suppresses(Hash(Frame(m)))
  /\ UNCHANGED <<now, cacheVars>>
  /\ Record(m, Sends(Frame(m)))
Deliver(m) ==
  /\ pc = "serving"
  /\ Passes(Frame(m))
  /\ \/ Hash(Frame(m)) = None /\ UNCHANGED <<now, cacheVars>>
     \/ /\ Hash(Frame(m)) # None
        /\ ~Suppresses(Hash(Frame(m)))
        /\ Admit(Hash(Frame(m)))
  /\ Record(m, Sends(Frame(m)))

TimePasses ==
  /\ pc = "serving"
  /\ Tick
  /\ UNCHANGED <<pc, options, served, delivered>>

PipelineNext ==
  \/ \E q \in Queries : Accept(q) \/ Refuse(q)
  \/ \E m \in Messages : FilterOut(m) \/ DropRepeat(m) \/ Deliver(m)
  \/ TimePasses

PipelineSpec == PipelineInit /\ [][PipelineNext]_pipelineVars
-----------------------------------------------------------------------------
(* What a client asked for, said of the upstream's messages. *)
Wanted(m) ==
  /\ options.sources = {} \/ m.source \in options.sources
  /\ options.types = {} \/
       (m.kind = Text /\ Meta(m.payload).payload_type \in options.types)

SentLately(k, time) ==
  /\ delivered[k] # Unsent
  /\ time - delivered[k] <= 2 * Window + MaxGap - 2

(* README.md:202-203: the options compose.  Nothing is sent that was not   *)
(* asked for; and without a jq program, everything asked for is sent once, *)
(* unless a message of the same packet really reached this client not long *)
(* ago: what other filters drop suppresses nothing.                        *)
Selected ==
  LET m == served.message IN
  m # None =>
    /\ served.sent # <<>> => Wanted(m)
    /\ Wanted(m) /\ options.jaq = None =>
         \/ Len(served.sent) = 1
         \/ options.dedup /\ Packet(m) # None /\ SentLately(Packet(m), served.at)

(* multiplex.rs:208-270, README.md:100-160: every message is about what the *)
(* upstream sent: whoever decodes the envelope, or reads the projection,   *)
(* finds the source, number, kind and payload that were published; and an  *)
(* envelope that was cut short is not taken for another one.               *)
Content(message) ==
  IF message.form = "binary" THEN Decode(message.content) ELSE message.content
Faithful ==
  LET m == served.message
      f == Encode(m.source, m.sequence, served.at, m.kind, m.payload)
  IN m # None =>
       /\ \A i \in DOMAIN served.sent :
            Content(served.sent[i]) =
              Project(m.source, m.sequence, served.at, m.kind, m.payload)
       /\ \A n \in 0..(Len(f.body) - 1) : ~WellFormed(Truncated(f, n))

(* README.md:208: with ?dedupByContent no two messages made of one packet, *)
(* whatever sources and observers it came by, are less than a window apart, *)
(* with or without a jq program.                                           *)
SentAbout(k) ==
  /\ pc = "serving" /\ now' = now
  /\ Packet(served'.message) = k
  /\ served'.sent # <<>>
RepeatFree ==
  [][\A k \in Keys :
       options.dedup /\ SentAbout(k) =>
         delivered[k] = Unsent \/ now - delivered[k] >= Window]_pipelineVars

(* handlers.rs:39-41: "drop frames whose CoreScope content hash was already *)
(* sent to this client within the dedup window".                           *)
SuppressedWasSent ==
  \A k \in Keys : reply = [key |-> k, admitted |-> FALSE] => delivered[k] # Unsent
=============================================================================
