------------------------------ MODULE Envelope ------------------------------
(***************************************************************************)
(* The CSR1 envelope that publish_frame makes of an upstream message, and  *)
(* what the client loops read from it (src/multiplex.rs).                  *)
(*                                                                         *)
(* A frame is a record of the header's fields and a body, the bytes of the *)
(* id followed by those of the payload; only the two lengths, written into *)
(* 16 and 32 bits, say where one ends.  What a run of bytes means (UTF-8,  *)
(* JSON and the two fields the filters look at) is left to constants.      *)
(***************************************************************************)
EXTENDS Integers, Sequences

CONSTANTS
  Bytes,
  SourceIds,   \* ids that validate_config lets through, as bytes
  Payloads,    \* bodies of upstream messages
  SourceSpan,  \* 2^16
  PayloadSpan, \* 2^32
  IsUtf8(_),   \* std::str::from_utf8
  IsJson(_),   \* serde_json::from_str::<&RawValue>
  Probe(_),    \* serde_json::from_slice::<Probe>: data.hash and the type name
  Upper(_),    \* to_ascii_uppercase
  Blank,       \* the empty string
  None

(* validate_config bounds an id; tungstenite takes no message of 4 GiB. *)
ASSUME LengthsAssumption ==
  /\ SourceSpan \in Nat \ {0} /\ PayloadSpan \in Nat \ {0}
  /\ \A id \in SourceIds :
       id \in Seq(Bytes) /\ Len(id) \in 1..(SourceSpan - 1) /\ IsUtf8(id)
  /\ \A p \in Payloads : p \in Seq(Bytes) /\ Len(p) < PayloadSpan

(* RawFrame::kind *)
Text   == 1
Binary == 2

MutSwapLengths(source, sequence, at, kind, payload) ==
  [kind |-> kind, sequence |-> sequence, timestamp |-> at,
   source_len  |-> Len(payload) % SourceSpan,
   payload_len |-> Len(source) % PayloadSpan,
   body |-> source \o payload]

Encode(source, sequence, at, kind, payload) ==
  [kind |-> kind, sequence |-> sequence, timestamp |-> at,
   source_len  |-> Len(source) % SourceSpan,
   payload_len |-> Len(payload) % PayloadSpan,
   body |-> source \o payload]

SourceEnd(f)  == f.source_len
PayloadEnd(f) == SourceEnd(f) + f.payload_len

SourceBytes(f) == SubSeq(f.body, 1, SourceEnd(f))
PayloadBytes(f) == SubSeq(f.body, SourceEnd(f) + 1, PayloadEnd(f))

SourceId(f) ==
  IF SourceEnd(f) <= Len(f.body) /\ IsUtf8(SourceBytes(f))
  THEN SourceBytes(f) ELSE None

(* What the filters use; a binary message has neither. *)
NoMeta == [content_hash |-> None, payload_type |-> None]
Meta(payload) ==
  IF Probe(payload) = None THEN NoMeta
  ELSE [content_hash |-> IF Probe(payload).hash = Blank THEN None
                         ELSE Probe(payload).hash,
        payload_type |-> IF Probe(payload).type = None THEN None
                         ELSE Upper(Probe(payload).type)]
FrameMeta(f) ==
  IF f.kind = Text /\ PayloadEnd(f) <= Len(f.body)
  THEN Meta(PayloadBytes(f)) ELSE NoMeta

(* The JSON projection: payload is what a client reads back under encoding. *)
Encoding(kind, payload) ==
  IF kind # Text \/ ~IsUtf8(payload) THEN "base64"
  ELSE IF IsJson(payload) THEN "json" ELSE "utf8"

Project(source, sequence, at, kind, payload) ==
  [source |-> source, sequence |-> sequence, timestamp |-> at, kind |-> kind,
   encoding |-> Encoding(kind, payload), payload |-> payload]

WellFormed(f) == PayloadEnd(f) <= Len(f.body) /\ IsUtf8(SourceBytes(f))
Decode(f) ==
  Project(SourceBytes(f), f.sequence, f.timestamp, f.kind, PayloadBytes(f))

(* A frame that lost its last bytes. *)
Truncated(f, n) == [f EXCEPT !.body = SubSeq(@, 1, n)]
=============================================================================
