----------------------------- MODULE MCPipeline -----------------------------
(***************************************************************************)
(* Pipeline on small instances: two sources that both report packet h1,    *)
(* one of them without its type, lengths of two bits.                      *)
(***************************************************************************)
EXTENDS Pipeline

CONSTANTS h1, h2, fromB, twice, broken

A == <<1>>
B == <<1, 2>>
Advert  == <<5>>        \* packet h1
Untyped == <<5, 6>>     \* packet h1, not decoded by its observer
Request == <<7>>        \* packet h2
Stats   == <<8, 8>>     \* JSON, but no packet
Plain   == <<4, 4, 4>>  \* text, but no JSON
Noise   == <<9>>        \* not even text

MCSourceIds == {A, B}
MCPayloads  == {Advert, Untyped, Request, Stats, Plain, Noise}

MCIsUtf8(bytes) == \A i \in DOMAIN bytes : bytes[i] # 9
MCIsJson(bytes) == bytes \in {Advert, Untyped, Request, Stats}
MCProbe(bytes) ==
  CASE bytes = Advert  -> [hash |-> h1, type |-> "advert"]
    [] bytes = Untyped -> [hash |-> h1, type |-> None]
    [] bytes = Request -> [hash |-> h2, type |-> "REQ"]
    [] bytes = Stats   -> [hash |-> Blank, type |-> None]
    [] OTHER           -> None
MCUpper(text) ==
  CASE text = "advert" -> "ADVERT" [] text = "req" -> "REQ"
    [] text = "true" -> "TRUE" [] OTHER -> text

Message(source, sequence, kind, payload) ==
  [source |-> source, sequence |-> sequence, kind |-> kind, payload |-> payload]
FewMessages ==
  {Message(A, 0, Text, Advert), Message(B, 0, Text, Advert),
   Message(B, 1, Text, Untyped), Message(A, 1, Text, Request),
   Message(A, 2, Text, Stats), Message(B, 2, Text, Plain),
   Message(B, 3, Binary, Noise), Message(A, 3, Binary, Advert)}

(* `select(.source == "b")', and a program that emits two values or fails. *)
MCOutcome(program, json) ==
  IF program = fromB THEN IF json.source = B THEN 1 ELSE 0
  ELSE IF json.encoding = "json" THEN 2 ELSE Failed

Query == [source |-> {}, sources |-> {}, payloadTypes |-> {},
          dedupByContent |-> None, jaq |-> None, binary |-> None]
Dedup == [Query EXCEPT !.dedupByContent = Blank]
FewQueries ==
  {[Query EXCEPT !.binary = "1", !.sources = {B, Blank}],
   [Query EXCEPT !.payloadTypes = {Blank}, !.jaq = Blank, !.binary = "no"],
   [Query EXCEPT !.jaq = twice],
   [Query EXCEPT !.jaq = broken],
   [Query EXCEPT !.sources = {A, <<3>>}],
   [Query EXCEPT !.source = {A}],
   [Dedup EXCEPT !.payloadTypes = {"advert", "req"}],
   [Dedup EXCEPT !.binary = "true", !.sources = {B}],
   [Dedup EXCEPT !.jaq = twice]}
DedupFromB == {[Dedup EXCEPT !.jaq = fromB]}
=============================================================================
