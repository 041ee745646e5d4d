-------------------------------- MODULE Proxy --------------------------------
(***************************************************************************)
(* Reconnect with what happens inside a dial: straight to the upstream, or *)
(* by connect_via_proxy (src/proxy.rs), which asks a proxy for a tunnel    *)
(* and reads its answer before the WebSocket handshake goes through it.    *)
(*                                                                         *)
(* Bytes come in pieces that the limit and the end of the header can tell  *)
(* apart: a line, or the end of one.  All that was read is UTF-8 if its    *)
(* lines are.  The TCP connection and the TLS and WebSocket handshakes are *)
(* external: they end well, badly or not at all.                           *)
(***************************************************************************)
EXTENDS Reconnect, Sequences

CONSTANTS
  Pieces,       \* status lines, header lines, and
  Eol,          \* ... CR LF
  Garbled,      \* ... those that are not UTF-8
  Answers,      \* all a proxy says before it falls silent or hangs up
  Success,      \* status lines "HTTP/... 2.."
  MaxResponse   \* MAX_PROXY_RESPONSE_BYTES

ASSUME AnswersAssumption ==
  /\ MaxResponse \in Nat
  /\ Eol \in Pieces /\ Answers \subseteq Seq(Pieces)

VARIABLES
  stage,   \* of a dial: "asking", "reading", "tunnel" or "direct"
  buf,     \* the proxy's answer, as far as it was read
  stream,  \* what is still to be read from the connection
  hangup,  \* the proxy closes after that
  answer   \* history: all it said

dialVars  == <<stage, buf, stream, hangup, answer>>
proxyVars == <<policy, pc, delay, offline, degraded, wait, left, plain, waits,
               stopped, stage, buf, stream, hangup, answer>>

NoDial ==
  /\ stage' = "none"
  /\ buf' = <<>> /\ stream' = <<>> /\ answer' = <<>> /\ hangup' = FALSE

ProxyInit ==
  /\ Init
  /\ stage = "none"
  /\ buf = <<>> /\ stream = <<>> /\ answer = <<>> /\ hangup = FALSE
-----------------------------------------------------------------------------
(* source.proxy says which; a respawned task may find another setting. *)
DialStarts ==
  /\ Dial
  /\ stage' \in {"direct", "asking"}
  /\ UNCHANGED <<buf, stream, hangup, answer>>

(* TcpStream::connect and send_connect ended well; the answer is on its way. *)
Asked(a) ==
  /\ stage = "asking"
  /\ stage' = "reading"
  /\ stream' = a /\ answer' = a
  /\ hangup' \in BOOLEAN
  /\ UNCHANGED <<vars, buf>>

(* read_connect_response *)
Complete(r) == Len(r) > 1 /\ r[Len(r)] = Eol /\ r[Len(r) - 1] = Eol
MutTooLong(r) == Len(r) >= MaxResponse
TooLong(r)  == Len(r) > MaxResponse
Granted(r)  == /\ \A i \in DOMAIN r : r[i] \notin Garbled
               /\ Head(r) \in Success

MutUnread == IF Complete(Append(buf, Head(stream))) THEN <<>> ELSE Tail(stream)
Unread == Tail(stream)

ReadOn ==
  /\ stage = "reading"
  /\ stream # <<>>
  /\ LET r == Append(buf, Head(stream)) IN
       \/ /\ ~TooLong(r)
          /\ Complete(r) => Granted(r)
          /\ stage' = IF Complete(r) THEN "tunnel" ELSE "reading"
          /\ buf' = r /\ stream' = Unread
          /\ UNCHANGED <<vars, hangup, answer>>
       \/ /\ TooLong(r) \/ (Complete(r) /\ ~Granted(r))
          /\ DialFails /\ NoDial

ReadEof ==
  /\ stage = "reading"
  /\ stream = <<>> /\ hangup
  /\ DialFails /\ NoDial

(* A request that cannot be made, no connection, or a failed handshake. *)
Fails == stage \in {"asking", "direct", "tunnel"} /\ DialFails /\ NoDial
Succeeds == stage \in {"direct", "tunnel"} /\ Connect /\ NoDial
-----------------------------------------------------------------------------
ProxyStep ==
  \/ DialStarts \/ ReadOn \/ ReadEof
  \/ (PauseEnds \/ Wait \/ WaitEnds) /\ UNCHANGED dialVars

ProxyNext ==
  \/ ProxyStep
  \/ \E a \in Answers : Asked(a)
  \/ Fails \/ Succeeds
  \/ (Pause \/ ForwardEnds \/ Stop \/ Return \/ Tick) /\ UNCHANGED dialVars
  \/ Drop /\ NoDial
  \/ \E p \in Policies : Reload(p) /\ UNCHANGED dialVars

ProxySpec == ProxyInit /\ [][ProxyNext]_proxyVars

(* Time passes; the task runs on when it can, and an aborted one is polled *)
(* to be dropped.  Whether a dial, a handshake or a connection ends is up  *)
(* to others.                                                              *)
Fairness ==
  /\ WF_proxyVars(Tick /\ UNCHANGED dialVars)
  /\ WF_proxyVars(ProxyStep)
  /\ WF_proxyVars((Return /\ UNCHANGED dialVars) \/ (Drop /\ NoDial))

FairProxySpec == ProxySpec /\ Fairness
-----------------------------------------------------------------------------
(* What a proxy says to let a client through: one header of a success that *)
(* is text and within the limit.                                           *)
Opens(r) ==
  /\ Complete(r) /\ Granted(r) /\ Len(r) <= MaxResponse
  /\ \A n \in 1..(Len(r) - 1) : ~Complete(SubSeq(r, 1, n))

(* proxy.rs:132-170: the handshake gets the tunnel only once it is one,    *)
(* and gets all of it: not a byte after the header was taken from it,      *)
(* whatever came in one packet with the header.                            *)
HandedOver ==
  stage = "tunnel" =>
    \E n \in 1..Len(answer) :
      Opens(SubSeq(answer, 1, n)) /\ stream = SubSeq(answer, n + 1, Len(answer))

(* proxy.rs:141-149: a tunnel that was granted is not given up while its   *)
(* header is read, be it exactly as long as is allowed.                    *)
NotGivenUp ==
  [][stage = "reading" /\ pc' = "down" =>
       \A n \in 1..Len(answer) : ~Opens(SubSeq(answer, 1, n))]_proxyVars
=============================================================================
