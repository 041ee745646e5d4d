--------------------------- MODULE PipelineProofs ---------------------------
(***************************************************************************)
(* Proofs about Envelope and Pipeline: for all ids and payloads whose      *)
(* lengths fit their fields, all queries and all jq programs.              *)
(***************************************************************************)
EXTENDS Pipeline, DedupCacheProofs, SequenceTheorems

(* A length that fits its field is written as it is. *)
LEMMA Fits == ASSUME NEW n \in Nat, NEW span \in Nat, n < span PROVE n % span = n
  OBVIOUS

LEMMA EncodedLengths ==
  ASSUME NEW id \in SourceIds, NEW p \in Payloads,
         NEW seq, NEW at, NEW kind, NEW f, f = Encode(id, seq, at, kind, p)
  PROVE  /\ id \in Seq(Bytes) /\ p \in Seq(Bytes)
         /\ Len(id) \in Nat /\ Len(p) \in Nat
         /\ IsUtf8(id)
         /\ SourceEnd(f) = Len(id) /\ PayloadEnd(f) = Len(id) + Len(p)
         /\ f.body = id \o p /\ f.kind = kind
         /\ f.sequence = seq /\ f.timestamp = at
         /\ Len(f.body) = Len(id) + Len(p)
  <1>1. /\ id \in Seq(Bytes) /\ Len(id) \in Nat /\ Len(id) < SourceSpan
        /\ IsUtf8(id) /\ SourceSpan \in Nat /\ PayloadSpan \in Nat
        /\ p \in Seq(Bytes) /\ Len(p) \in Nat /\ Len(p) < PayloadSpan
    BY LengthsAssumption
  <1>2. Len(id) % SourceSpan = Len(id) /\ Len(p) % PayloadSpan = Len(p)
    BY <1>1, Fits
  <1>3. Len(id \o p) = Len(id) + Len(p)
    BY <1>1, ConcatProperties
  <1> QED
    BY <1>1, <1>2, <1>3 DEF Encode, SourceEnd, PayloadEnd

(* Where one sequence ends and the other begins. *)
LEMMA Cut ==
  ASSUME NEW S, NEW s \in Seq(S), NEW t \in Seq(S)
  PROVE  /\ SubSeq(s \o t, 1, Len(s)) = s
         /\ SubSeq(s \o t, Len(s) + 1, Len(s) + Len(t)) = t
  <1>1. Len(s) \in Nat /\ Len(t) \in Nat
    OBVIOUS
  <1>2. SubSeq(s \o t, 1, Len(s)) = s
    OBVIOUS
  <1>3. SubSeq(s \o t, Len(s) + 1, Len(s) + Len(t)) = t
    OBVIOUS
  <1> QED
    BY <1>2, <1>3

(* multiplex.rs:208-270: whoever decodes an envelope finds what was put    *)
(* into it, whatever the bytes of the id and of the payload are.           *)
THEOREM DecodeInverts ==
  ASSUME NEW id \in SourceIds, NEW p \in Payloads, NEW seq, NEW at, NEW kind
  PROVE  LET f == Encode(id, seq, at, kind, p) IN
         /\ WellFormed(f)
         /\ Decode(f) = Project(id, seq, at, kind, p)
         /\ SourceId(f) = id
         /\ FrameMeta(f) = IF kind = Text THEN Meta(p) ELSE NoMeta
  <1> DEFINE f == Encode(id, seq, at, kind, p)
  <1>1. /\ id \in Seq(Bytes) /\ p \in Seq(Bytes)
        /\ Len(id) \in Nat /\ Len(p) \in Nat
        /\ IsUtf8(id)
        /\ SourceEnd(f) = Len(id) /\ PayloadEnd(f) = Len(id) + Len(p)
        /\ f.body = id \o p /\ f.kind = kind
        /\ f.sequence = seq /\ f.timestamp = at
        /\ Len(f.body) = Len(id) + Len(p)
    BY EncodedLengths
  <1> HIDE DEF f
  <1>2. SourceBytes(f) = id /\ PayloadBytes(f) = p
    BY <1>1, Cut DEF SourceBytes, PayloadBytes
  <1>3. WellFormed(f) /\ SourceId(f) = id
    BY <1>1, <1>2 DEF WellFormed, SourceId
  <1>4. Decode(f) = Project(id, seq, at, kind, p)
    BY <1>1, <1>2 DEF Decode
  <1>5. FrameMeta(f) = IF kind = Text THEN Meta(p) ELSE NoMeta
    BY <1>1, <1>2 DEF FrameMeta
  <1> QED
    BY <1>3, <1>4, <1>5 DEF f

(* multiplex.rs:216-218: an envelope that lost a byte is not decoded.      *)
THEOREM TruncatedRefused ==
  ASSUME NEW id \in SourceIds, NEW p \in Payloads, NEW seq, NEW at, NEW kind,
         NEW n \in 0..(Len(Encode(id, seq, at, kind, p).body) - 1)
  PROVE  ~WellFormed(Truncated(Encode(id, seq, at, kind, p), n))
  <1> DEFINE f == Encode(id, seq, at, kind, p)
             g == Truncated(f, n)
  <1>1. /\ id \in Seq(Bytes) /\ p \in Seq(Bytes)
        /\ Len(id) \in Nat /\ Len(p) \in Nat
        /\ SourceEnd(f) = Len(id) /\ PayloadEnd(f) = Len(id) + Len(p)
        /\ f.body = id \o p /\ Len(f.body) = Len(id) + Len(p)
    BY EncodedLengths
  <1>2. f.body \in Seq(Bytes) /\ n < Len(f.body) /\ n \in Nat
    BY <1>1, ConcatProperties
  <1>3. g.body = SubSeq(f.body, 1, n) /\ g.source_len = f.source_len
        /\ g.payload_len = f.payload_len
    BY DEF Truncated, Encode
  <1>4. Len(g.body) = n
    BY <1>2, <1>3
  <1>5. PayloadEnd(g) = PayloadEnd(f)
    BY <1>3 DEF PayloadEnd, SourceEnd
  <1> QED
    BY <1>1, <1>2, <1>4, <1>5 DEF WellFormed
-----------------------------------------------------------------------------
(* What the filters read from a frame is what the upstream's message said. *)
LEMMA FrameOf ==
  ASSUME NEW m \in Messages
  PROVE  /\ WellFormed(Frame(m))
         /\ Decode(Frame(m)) = Project(m.source, m.sequence, now, m.kind, m.payload)
         /\ SourceId(Frame(m)) = m.source
         /\ FrameMeta(Frame(m)) = IF m.kind = Text THEN Meta(m.payload) ELSE NoMeta
         /\ FrameMeta(Frame(m)).content_hash = Packet(m)
         /\ Packet(m) \in Keys \cup {None}
  <1>1. m.source \in SourceIds /\ m.payload \in Payloads
    BY MessagesAssumption
  <1>2. /\ WellFormed(Frame(m))
        /\ Decode(Frame(m)) = Project(m.source, m.sequence, now, m.kind, m.payload)
        /\ SourceId(Frame(m)) = m.source
        /\ FrameMeta(Frame(m)) = IF m.kind = Text THEN Meta(m.payload) ELSE NoMeta
    BY <1>1, DecodeInverts DEF Frame
  <1>3. FrameMeta(Frame(m)).content_hash = Packet(m)
    BY <1>2 DEF Packet, NoMeta
  <1>4. Packet(m) \in Keys \cup {None}
    BY <1>1, MessagesAssumption DEF Packet
  <1> QED
    BY <1>2, <1>3, <1>4

LEMMA HashType ==
  ASSUME NEW m \in Messages
  PROVE  /\ Hash(Frame(m)) = IF options.dedup THEN Packet(m) ELSE None
         /\ Hash(Frame(m)) \in Keys \cup {None}
  BY FrameOf DEF Hash

(* handlers.rs:280-288: the cache a client's task keeps is used as         *)
(* DedupCache says: all that is proved of it holds of this client's.       *)
THEOREM Implements == PipelineSpec => Spec
  <1>1. PipelineInit => Init
    BY DEF PipelineInit
  <1>2. [PipelineNext]_pipelineVars => [Next]_vars
    <2> SUFFICES ASSUME [PipelineNext]_pipelineVars PROVE Next \/ UNCHANGED vars
      OBVIOUS
    <2> USE DEF vars, cacheVars
    <2>1. ASSUME NEW q \in Queries, Accept(q) \/ Refuse(q) PROVE UNCHANGED vars
      BY <2>1 DEF Accept, Refuse
    <2>2. ASSUME NEW m \in Messages, FilterOut(m) PROVE UNCHANGED vars
      BY <2>2 DEF FilterOut
    <2>3. ASSUME NEW m \in Messages, DropRepeat(m) \/ Deliver(m)
          PROVE  Next \/ UNCHANGED vars
      <3>1. Hash(Frame(m)) # None => Hash(Frame(m)) \in Keys
        BY HashType
      <3> QED
        BY <2>3, <3>1 DEF DropRepeat, Deliver, Next
    <2>4. CASE TimePasses
      BY <2>4 DEF TimePasses, Next
    <2>5. CASE UNCHANGED pipelineVars
      BY <2>5 DEF pipelineVars
    <2> QED
      BY <2>1, <2>2, <2>3, <2>4, <2>5 DEF PipelineNext
  <1> QED
    BY <1>1, <1>2, PTL DEF PipelineSpec, Spec
-----------------------------------------------------------------------------
(* handlers.rs:184-226, 265-270: nothing is served before the handshake,   *)
(* what it made of the query stays, and None is no payload type.           *)
Handshake ==
  /\ pc \in {"out", "serving", "refused"}
  /\ pc # "serving" =>
       /\ served = Nothing
       /\ \A k \in Keys : admissions[k] = 0 /\ delivered[k] = Unsent
  /\ None \notin options.types
  /\ delivered \in [Keys -> Nat \cup {Unsent}]

(* What the latest frame was turned into. *)
Messaged ==
  served.message # None =>
    /\ served.message \in Messages
    /\ LET m == served.message
           f == Encode(m.source, m.sequence, served.at, m.kind, m.payload)
       IN \A i \in DOMAIN served.sent :
            served.sent[i] \in {[form |-> "binary", content |-> f], Projection(f)}

(* With ?dedupByContent a packet was sent when it was let through, at the  *)
(* latest; and just then, unless a jq program had a say.                   *)
Recorded ==
  options.dedup =>
    \A k \in Keys :
      /\ delivered[k] # Unsent => admissions[k] > 0 /\ delivered[k] <= admitted_at[k]
      /\ options.jaq = None /\ admissions[k] > 0 => delivered[k] = admitted_at[k]

PInv == Handshake /\ Messaged /\ Recorded /\ Selected

(* The cache's own invariant, and what the latest frame needs of it. *)
CacheOK == IInv /\ SuppressionBounded

LEMMA PassesIsWanted ==
  ASSUME Handshake, NEW m \in Messages PROVE Passes(Frame(m)) <=> Wanted(m)
  <1>1. BySource(Frame(m)) <=> (options.sources = {} \/ m.source \in options.sources)
    BY FrameOf DEF BySource
  <1>2. FrameMeta(Frame(m)).payload_type =
          IF m.kind = Text THEN Meta(m.payload).payload_type ELSE None
    BY FrameOf DEF NoMeta
  <1>3. ByType(Frame(m)) <=>
          (options.types = {} \/
            (m.kind = Text /\ Meta(m.payload).payload_type \in options.types))
    BY <1>2 DEF ByType, Handshake
  <1> QED
    BY <1>1, <1>3 DEF Passes, Wanted

LEMMA NotNone == ASSUME NEW m \in Messages PROVE m # None
  BY MessagesAssumption

(* What a frame is turned into: one message, unless a program says how many. *)
LEMMA SendsOf ==
  ASSUME NEW m \in Messages
  PROVE  /\ \A i \in DOMAIN Sends(Frame(m)) :
              Sends(Frame(m))[i] \in {[form |-> "binary", content |-> Frame(m)],
                                     Projection(Frame(m))}
         /\ options.jaq = None => Len(Sends(Frame(m))) = 1
  <1>1. WellFormed(Frame(m))
    BY FrameOf
  <1>2. CASE options.jaq # None
    BY <1>2 DEF Sends, Values
  <1>3. CASE options.jaq = None
    BY <1>1, <1>3 DEF Sends
  <1> QED
    BY <1>2, <1>3

(* What every frame step has in common. *)
LEMMA RecordKeeps ==
  ASSUME PInv, NEW m \in Messages, NEW sent, pc = "serving", now' = now, Record(m, sent),
         \A i \in DOMAIN sent :
           sent[i] \in {[form |-> "binary", content |-> Frame(m)], Projection(Frame(m))},
         now \in Nat
  PROVE  Handshake' /\ Messaged'
  <1>1. /\ served' = [message |-> m, at |-> now, sent |-> sent]
        /\ pc' = pc /\ options' = options
    BY DEF Record
  <1>2. delivered' \in [Keys -> Nat \cup {Unsent}]
    BY FrameOf DEF Record, PInv, Handshake
  <1>3. Handshake'
    BY <1>1, <1>2 DEF PInv, Handshake
  <1>4. Messaged'
    BY <1>1 DEF Messaged, Frame, Projection
  <1> QED
    BY <1>3, <1>4

LEMMA FilterOutKeeps ==
  ASSUME PInv, CacheOK, NEW m \in Messages, FilterOut(m) PROVE PInv'
  <1>1. now \in Nat /\ pc = "serving" /\ now' = now /\ Record(m, <<>>)
    BY DEF FilterOut, CacheOK, IInv, TypeOK
  <1>2. Handshake' /\ Messaged'
    BY <1>1, RecordKeeps
  <1>3. Recorded'
    BY DEF FilterOut, Record, cacheVars, PInv, Recorded
  <1>4. ~Wanted(m)
    BY PassesIsWanted DEF FilterOut, PInv
  <1>5. Selected'
    BY <1>1, <1>4 DEF Selected, Record, Wanted
  <1> QED
    BY <1>2, <1>3, <1>5 DEF PInv

(* A hash the cache suppresses was let through. *)
LEMMA SuppressedWasAdmitted ==
  ASSUME CacheOK, NEW k \in Keys, Suppresses(k)
  PROVE  /\ admissions[k] > 0 /\ admitted_at[k] \in Nat
         /\ now - admitted_at[k] <= 2 * Window + MaxGap - 2
  BY GenerationsAtCall DEF CacheOK, IInv, TypeOK, SuppressionBounded, Suppresses

LEMMA DropRepeatKeeps ==
  ASSUME PInv, CacheOK, NEW m \in Messages, DropRepeat(m) PROVE PInv'
  <1> DEFINE k == Packet(m)
  <1>1. /\ now \in Nat /\ pc = "serving" /\ now' = now /\ Record(m, <<>>)
        /\ options.dedup /\ k \in Keys /\ k # None /\ Suppresses(k)
        /\ admissions' = admissions /\ admitted_at' = admitted_at
    BY HashType DEF DropRepeat, Admit, CacheOK, IInv, TypeOK
  <1>2. Handshake' /\ Messaged'
    BY <1>1, RecordKeeps
  <1>3. /\ served' = [message |-> m, at |-> now, sent |-> <<>>]
        /\ delivered' = delivered /\ options' = options
    BY <1>1 DEF Record
  <1>4. Recorded'
    BY <1>1, <1>3 DEF PInv, Recorded
  <1>5. options.jaq = None => SentLately(k, now)
    <2> HAVE options.jaq = None
    <2>1. delivered[k] = admitted_at[k] /\ admitted_at[k] \in Nat
      BY <1>1, SuppressedWasAdmitted DEF PInv, Recorded
    <2> QED
      BY <1>1, <2>1, SuppressedWasAdmitted, MessagesAssumption DEF SentLately
  <1>6. Selected'
    BY <1>1, <1>3, <1>5 DEF Selected, SentLately
  <1> QED
    BY <1>2, <1>4, <1>6 DEF PInv

LEMMA DeliverKeeps ==
  ASSUME PInv, CacheOK, NEW m \in Messages, Deliver(m) PROVE PInv'
  <1> DEFINE k == Packet(m)
             sent == Sends(Frame(m))
  <1>1. now \in Nat /\ pc = "serving" /\ now' = now /\ Record(m, sent)
    BY DEF Deliver, Admit, CacheOK, IInv, TypeOK
  <1>2. Handshake' /\ Messaged'
    BY <1>1, RecordKeeps, SendsOf
  <1>3. /\ served' = [message |-> m, at |-> now, sent |-> sent]
        /\ options' = options
        /\ delivered' = IF sent = <<>> \/ k = None THEN delivered
                        ELSE [delivered EXCEPT ![k] = now]
    BY <1>1 DEF Record
  <1>4. options.jaq = None => Len(sent) = 1 /\ sent # <<>>
    BY SendsOf
  <1>5. Recorded'
    <2> SUFFICES ASSUME options.dedup PROVE Recorded'
      BY <1>3 DEF Recorded
    <2>1. delivered \in [Keys -> Nat \cup {Unsent}] /\ Unsent \notin Nat
          /\ admitted_at \in [Keys -> Nat] /\ admissions \in [Keys -> Nat]
      BY MessagesAssumption DEF PInv, Handshake, CacheOK, IInv, TypeOK
    <2>2. CASE k = None
      <3>1. admissions' = admissions /\ admitted_at' = admitted_at
        BY <2>2, HashType DEF Deliver, cacheVars
      <3> QED
        BY <1>3, <2>2, <3>1 DEF PInv, Recorded
    <2>3. CASE k # None
      <3>1. /\ k \in Keys
            /\ admissions'  = [admissions EXCEPT ![k] = @ + 1]
            /\ admitted_at' = [admitted_at EXCEPT ![k] = now]
        BY <2>3, HashType DEF Deliver, Admit
      <3>2. \A j \in Keys \ {k} : /\ admissions'[j] = admissions[j]
                                 /\ admitted_at'[j] = admitted_at[j]
                                 /\ delivered'[j] = delivered[j]
        BY <1>3, <2>1, <3>1
      <3>3. admissions'[k] > 0 /\ admitted_at'[k] = now
        BY <2>1, <3>1
      <3>4. delivered'[k] = now \/ (delivered'[k] = delivered[k] /\ options.jaq # None)
        BY <1>3, <1>4, <2>1, <2>3, <3>1
      <3>5. delivered[k] # Unsent => delivered[k] <= now
        <4>1. admitted_at[k] <= now
          BY <1>1, <3>1 DEF CacheOK, IInv, TypeOK
        <4>2. delivered[k] # Unsent => delivered[k] <= admitted_at[k] /\ delivered[k] \in Nat
          BY <2>1, <3>1 DEF PInv, Recorded
        <4> QED
          BY <1>1, <2>1, <3>1, <4>1, <4>2
      <3> QED
        BY <1>1, <1>3, <3>2, <3>3, <3>4, <3>5 DEF PInv, Recorded
    <2> QED
      BY <2>2, <2>3
  <1>6. Wanted(m)
    BY PassesIsWanted DEF Deliver, PInv
  <1>7. Selected'
    BY <1>3, <1>4, <1>6 DEF Selected, Wanted
  <1> QED
    BY <1>2, <1>5, <1>7 DEF PInv

LEMMA AcceptKeeps ==
  ASSUME PInv, CacheOK, NEW q \in Queries, Accept(q) PROVE PInv'
  <1>1. /\ served' = served /\ served = Nothing /\ pc' = "serving"
        /\ admissions' = admissions /\ delivered' = delivered
        /\ \A k \in Keys : admissions[k] = 0 /\ delivered[k] = Unsent
        /\ options'.types = RequestedPayloadTypes(q)
    BY DEF Accept, cacheVars, PInv, Handshake
  <1>2. None \notin RequestedPayloadTypes(q)
    BY MessagesAssumption DEF RequestedPayloadTypes, Parts
  <1>3. Handshake'
    BY <1>1, <1>2 DEF PInv, Handshake
  <1>4. Messaged' /\ Selected'
    BY <1>1 DEF Nothing, Messaged, Selected
  <1>5. Recorded'
    BY <1>1 DEF Recorded
  <1> QED
    BY <1>3, <1>4, <1>5 DEF PInv

LEMMA StepKeeps ==
  ASSUME PInv, CacheOK, [PipelineNext]_pipelineVars PROVE PInv'
  <1>1. ASSUME NEW q \in Queries, Accept(q) PROVE PInv'
    BY <1>1, AcceptKeeps
  <1>2. ASSUME NEW q \in Queries, Refuse(q) PROVE PInv'
    BY <1>2 DEF Refuse, cacheVars, PInv, Handshake, Messaged, Recorded, Selected,
                Projection, Wanted, SentLately
  <1>3. ASSUME NEW m \in Messages, FilterOut(m) \/ DropRepeat(m) \/ Deliver(m)
        PROVE  PInv'
    BY <1>3, FilterOutKeeps, DropRepeatKeeps, DeliverKeeps
  <1>4. CASE TimePasses
    BY <1>4 DEF TimePasses, Tick, PInv, Handshake, Messaged, Recorded, Selected,
                Projection, Wanted, SentLately
  <1>5. CASE UNCHANGED pipelineVars
    BY <1>5 DEF pipelineVars, PInv, Handshake, Messaged, Recorded, Selected,
                Projection, Wanted, SentLately
  <1> QED
    BY <1>1, <1>2, <1>3, <1>4, <1>5 DEF PipelineNext

THEOREM Served == PipelineSpec => [](PInv /\ CacheOK)
  <1>1. PipelineInit => PInv
    BY MessagesAssumption
    DEF PipelineInit, Init, PInv, Handshake, Messaged, Recorded, Selected,
        Nothing, NoOptions
  <1>2. PInv /\ CacheOK /\ [PipelineNext]_pipelineVars => PInv'
    BY StepKeeps
  <1>3. PipelineSpec => []CacheOK
    <2>1. IInv /\ SuppressionBounded <=> CacheOK
      BY DEF CacheOK
    <2> QED
      BY <2>1, Implements, Inductive, SuppressionIsBounded, PTL
  <1> QED
    BY <1>1, <1>2, <1>3, PTL DEF PipelineSpec

(* README.md:202-203: the options compose: what is sent was asked for, and *)
(* without a program what was asked for is sent, unless its packet was     *)
(* sent to this client not long ago.                                       *)
THEOREM SelectedCorrect == PipelineSpec => []Selected
  <1>1. PInv => Selected
    BY DEF PInv
  <1> QED
    BY <1>1, Served, PTL

(* multiplex.rs:208-270: what is sent for a frame says what the upstream's *)
(* message said.                                                           *)
THEOREM FaithfulCorrect == PipelineSpec => []Faithful
  <1>1. ASSUME Messaged, served.message # None
        PROVE  LET m == served.message
                   f == Encode(m.source, m.sequence, served.at, m.kind, m.payload)
               IN /\ \A i \in DOMAIN served.sent :
                       Content(served.sent[i]) =
                         Project(m.source, m.sequence, served.at, m.kind, m.payload)
                  /\ \A n \in 0..(Len(f.body) - 1) : ~WellFormed(Truncated(f, n))
    <2> DEFINE m == served.message
               f == Encode(m.source, m.sequence, served.at, m.kind, m.payload)
    <2>1. m \in Messages /\ m.source \in SourceIds /\ m.payload \in Payloads
      BY <1>1, MessagesAssumption DEF Messaged
    <2>2. Decode(f) = Project(m.source, m.sequence, served.at, m.kind, m.payload)
      BY <2>1, DecodeInverts
    <2>3. \A n \in 0..(Len(f.body) - 1) : ~WellFormed(Truncated(f, n))
      BY <2>1, TruncatedRefused
    <2>4. \A i \in DOMAIN served.sent :
            served.sent[i] \in {[form |-> "binary", content |-> f], Projection(f)}
      BY <1>1 DEF Messaged
    <2> HIDE DEF f
    <2>5. \A i \in DOMAIN served.sent : Content(served.sent[i]) = Decode(f)
      BY <2>4 DEF Content, Projection
    <2> QED
      BY <2>2, <2>3, <2>5 DEF f
  <1>2. PInv => Faithful
    BY <1>1 DEF PInv, Faithful
  <1> QED
    BY <1>2, Served, PTL

(* README.md:208: no two messages about a packet are sent less than a      *)
(* window apart to a client that asks for none.                            *)
THEOREM RepeatFreeCorrect == PipelineSpec => RepeatFree
  <1>1. ASSUME PInv, CacheOK, [PipelineNext]_pipelineVars,
               NEW k \in Keys, options.dedup, SentAbout(k), delivered[k] # Unsent,
               ~UNCHANGED pipelineVars
        PROVE  now - delivered[k] >= Window
    <2>1. PICK m \in Messages : Deliver(m)
      <3>1. ASSUME NEW q \in Queries, Accept(q) \/ Refuse(q) PROVE FALSE
        BY <1>1, <3>1 DEF Accept, Refuse, SentAbout
      <3>2. ASSUME NEW m \in Messages, FilterOut(m) \/ DropRepeat(m) PROVE FALSE
        BY <1>1, <3>2 DEF FilterOut, DropRepeat, Record, SentAbout
      <3>3. CASE TimePasses
        BY <1>1, <3>3 DEF TimePasses, Tick, SentAbout, CacheOK, IInv, TypeOK
      <3> QED
        BY <1>1, <3>1, <3>2, <3>3 DEF PipelineNext
    <2>2. Packet(m) = k
      BY <1>1, <2>1 DEF SentAbout, Deliver, Record
    <2>3. ~Suppresses(k)
      BY <1>1, <2>1, <2>2, HashType, MessagesAssumption DEF Deliver
    <2>4. admissions[k] > 0 /\ delivered[k] <= admitted_at[k] /\ delivered[k] \in Nat
      BY <1>1, MessagesAssumption DEF PInv, Recorded, Handshake
    <2>5. RotatedAt - admitted_at[k] > Window
      BY <1>1, <2>3, <2>4, GenerationsAtCall DEF CacheOK, Suppresses
    <2>6. RotatedAt \in Nat /\ RotatedAt <= now /\ admitted_at[k] \in Nat /\ now \in Nat
      BY <1>1 DEF CacheOK, IInv, TypeOK, RotatedAt
    <2>7. Window \in Nat
      BY WindowPositive
    <2> QED
      BY <2>4, <2>5, <2>6, <2>7
  <1>2. ASSUME PInv, CacheOK, [PipelineNext]_pipelineVars
        PROVE  [\A k \in Keys :
                  options.dedup /\ SentAbout(k) =>
                    delivered[k] = Unsent \/ now - delivered[k] >= Window]_pipelineVars
    BY <1>1, <1>2
  <1> QED
    BY <1>2, Served, PTL DEF PipelineSpec, RepeatFree
-----------------------------------------------------------------------------
(* What the cache promises, kept inside a client's task.                   *)

(* dedup.rs, handlers.rs:280-288: whatever the query, the frames and the   *)
(* filters before it, the cache of a client is within its types and its    *)
(* bounds, and suppresses what a sliding window may and must.              *)
THEOREM CacheCorrect ==
  PipelineSpec => [](TypeOK /\ GenerationsOK /\ SuppressionBounded) /\ KeepsPromise
  BY Implements, TypeCorrect, GenerationsCorrect, SuppressionIsBounded, PromiseKept, PTL

(* handlers.rs:272-377: with neither ?dedupByContent nor ?jaq, a frame that *)
(* was asked for makes one message and any other none.  It is what Fanout  *)
(* takes for granted of its clients without transforming options.          *)
OneEach ==
  ~options.dedup /\ options.jaq = None /\ served.message # None =>
    /\ Wanted(served.message) => Len(served.sent) = 1
    /\ ~Wanted(served.message) => served.sent = <<>>

THEOREM OneEachCorrect == PipelineSpec => []OneEach
  <1>1. Selected => OneEach
    BY DEF Selected, OneEach
  <1> QED
    BY <1>1, SelectedCorrect, PTL

(* A client that made no query, or did not ask for it, has no use of the   *)
(* cache; and what the cache answered about was let through, then or before. *)
Answered ==
  /\ pc = "out" => reply = Promise!NoReply
  /\ reply # Promise!NoReply =>
       options.dedup /\ \A k \in Keys : reply.key = k => admissions[k] > 0

LEMMA AdmitAnswered ==
  ASSUME CacheOK, NEW k \in Keys, Admit(k)
  PROVE  reply'.key = k /\ admissions'[k] > 0
  <1>1. CASE Suppresses(k)
    BY <1>1, SuppressedWasAdmitted DEF Admit
  <1>2. CASE ~Suppresses(k)
    BY <1>2 DEF Admit, CacheOK, IInv, TypeOK
  <1> QED
    BY <1>1, <1>2

LEMMA StepAnswered ==
  ASSUME PInv, CacheOK, Answered, [PipelineNext]_pipelineVars PROVE Answered'
  <1> USE DEF Answered, Promise!NoReply
  <1>1. ASSUME NEW q \in Queries, Accept(q) \/ Refuse(q) PROVE Answered'
    BY <1>1 DEF Accept, Refuse, cacheVars
  <1>2. ASSUME NEW m \in Messages, FilterOut(m) \/ DropRepeat(m) \/ Deliver(m)
        PROVE  Answered'
    <2>1. pc' = "serving" /\ options' = options
      BY <1>2 DEF FilterOut, DropRepeat, Deliver, Record
    <2>2. CASE UNCHANGED cacheVars
      BY <1>2, <2>1, <2>2 DEF cacheVars
    <2>3. CASE Hash(Frame(m)) # None /\ Admit(Hash(Frame(m)))
      <3>1. options.dedup /\ Hash(Frame(m)) \in Keys
        BY <2>3, HashType
      <3> QED
        BY <2>1, <2>3, <3>1, AdmitAnswered
    <2> QED
      BY <1>2, <2>2, <2>3 DEF FilterOut, DropRepeat, Deliver
  <1>3. CASE TimePasses
    BY <1>3 DEF TimePasses, Tick
  <1>4. CASE UNCHANGED pipelineVars
    BY <1>4 DEF pipelineVars
  <1> QED
    BY <1>1, <1>2, <1>3, <1>4 DEF PipelineNext

(* handlers.rs:39-41: what the comment says of the cache is so for every   *)
(* client without a jq program: a packet it drops was sent to the client.  *)
(* (With one it is not, as PipelineFiltered shows.)                        *)
THEOREM DroppedWasSent ==
  PipelineSpec =>
    [](options.jaq = None /\ reply # Promise!NoReply => SuppressedWasSent)
  <1>1. PipelineInit => Answered
    BY DEF PipelineInit, Init, Answered
  <1>2. PInv /\ CacheOK /\ Answered /\ [PipelineNext]_pipelineVars => Answered'
    BY StepAnswered
  <1>3. PInv /\ CacheOK /\ Answered =>
          (options.jaq = None /\ reply # Promise!NoReply => SuppressedWasSent)
    <2> SUFFICES ASSUME PInv, CacheOK, Answered, options.jaq = None,
                        reply # Promise!NoReply, NEW k \in Keys,
                        reply = [key |-> k, admitted |-> FALSE]
                 PROVE  delivered[k] # Unsent
      BY DEF SuppressedWasSent
    <2>1. delivered[k] = admitted_at[k] /\ admitted_at[k] \in Nat
      <3>1. options.dedup /\ admissions[k] > 0
        BY DEF Answered
      <3> QED
        BY <3>1 DEF PInv, Recorded, CacheOK, IInv, TypeOK
    <2> QED
      BY <2>1, MessagesAssumption
  <1> QED
    BY <1>1, <1>2, <1>3, Served, PTL DEF PipelineSpec
=============================================================================
