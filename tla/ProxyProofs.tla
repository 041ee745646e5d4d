----------------------------- MODULE ProxyProofs -----------------------------
(***************************************************************************)
(* Proofs about Proxy, for whatever proxies say and any limit.             *)
(***************************************************************************)
EXTENDS Proxy, ReconnectProofs, SequenceTheorems

(* upstream.rs:218-238: whatever goes on inside a dial, the task is one    *)
(* that Reconnect describes: all that is proved of those holds of it.      *)
THEOREM Implements == ProxySpec => Spec
  <1>1. ProxyInit => Init
    BY DEF ProxyInit
  <1>2. [ProxyNext]_proxyVars => [Next]_vars
    <2> SUFFICES ASSUME [ProxyNext]_proxyVars PROVE Next \/ UNCHANGED vars
      OBVIOUS
    <2> USE DEF Next, Step
    <2>1. CASE ProxyStep
      BY <2>1 DEF ProxyStep, DialStarts, ReadOn, ReadEof
    <2>2. ASSUME NEW a \in Answers, Asked(a) PROVE UNCHANGED vars
      BY <2>2 DEF Asked
    <2>3. CASE Fails \/ Succeeds
      BY <2>3 DEF Fails, Succeeds
    <2>4. CASE Pause \/ ForwardEnds \/ Stop \/ Return \/ Tick \/ Drop
      BY <2>4
    <2>5. ASSUME NEW p \in Policies, Reload(p) PROVE Next
      BY <2>5
    <2>6. CASE UNCHANGED proxyVars
      BY <2>6 DEF proxyVars, vars
    <2> QED
      BY <2>1, <2>2, <2>3, <2>4, <2>5, <2>6 DEF ProxyNext
  <1> QED
    BY <1>1, <1>2, PTL DEF ProxySpec, Spec

(* upstream.rs:103-137, 218-238: a proxy that is slow, refuses or talks    *)
(* nonsense does not disturb the delays: they stay within their types,     *)
(* double as they should, and a new policy takes hold.                     *)
THEOREM DelaysCorrect == ProxySpec => []TypeOK /\ []TakesHold /\ Backoff
  BY Implements, TypeCorrect, TakesHoldCorrect, BackoffCorrect, PTL
-----------------------------------------------------------------------------
Prefix(n) == SubSeq(answer, 1, n)

(* What was read is the beginning of the answer, what is to be read is the *)
(* rest of it, and no header ended before the latest byte read.            *)
Split ==
  stage \in {"reading", "tunnel"} =>
    /\ answer \in Seq(Pieces)
    /\ Len(buf) <= Len(answer)
    /\ buf = Prefix(Len(buf))
    /\ stream = SubSeq(answer, Len(buf) + 1, Len(answer))
    /\ \A n \in 1..(Len(buf) - 1) : ~Complete(Prefix(n))

Place ==
  /\ stage \in {"none", "asking", "reading", "tunnel", "direct"}
  /\ pc # "dialing" => stage = "none"
  /\ stage \in {"none", "asking"} => buf = <<>>
  /\ stage = "reading" => ~Complete(buf)
  /\ stage = "tunnel" => Complete(buf) /\ Granted(buf) /\ Len(buf) <= MaxResponse

DInv == Split /\ Place

LEMMA PrefixOfPrefix ==
  ASSUME answer \in Seq(Pieces), NEW n \in 1..Len(answer), NEW k \in 1..n
  PROVE  SubSeq(Prefix(n), 1, k) = Prefix(k)
  BY SubSeqOfSubSeq DEF Prefix

(* The next byte of the answer, and what reading it leaves. *)
LEMMA NextByte ==
  ASSUME Split, stage = "reading", stream # <<>>
  PROVE  /\ Len(buf) \in Nat /\ Len(buf) + 1 <= Len(answer)
         /\ Append(buf, Head(stream)) = Prefix(Len(buf) + 1)
         /\ Len(Prefix(Len(buf) + 1)) = Len(buf) + 1
         /\ Tail(stream) = SubSeq(answer, Len(buf) + 2, Len(answer))
  <1> DEFINE m == Len(buf) + 1
  <1>1. /\ answer \in Seq(Pieces) /\ Len(answer) \in Nat
        /\ \A i \in 1..Len(answer) : answer[i] \in Pieces
    BY DEF Split
  <1>2. buf = Prefix(Len(buf)) /\ Len(buf) <= Len(answer)
    BY DEF Split
  <1>3. Len(buf) \in Nat
    <2>1. Len(answer) \in Nat
      BY <1>1
    <2> QED
      BY <1>1, <1>2 DEF Prefix
  <1>4. m <= Len(answer)
    <2>1. CASE Len(buf) = Len(answer)
      <3>1. stream = <<>>
        BY <1>1, <1>3, <2>1, SubSeqEmpty DEF Split
      <3> QED
        BY <3>1
    <2> QED
      BY <1>1, <1>2, <1>3, <2>1
  <1>5. /\ Head(stream) = answer[m]
        /\ Tail(stream) = SubSeq(answer, m + 1, Len(answer))
    <2>1. m \in 1..Len(answer) /\ Len(answer) \in m..Len(answer)
      BY <1>1, <1>3, <1>4
    <2>2. stream = SubSeq(answer, m, Len(answer))
      BY DEF Split
    <2> QED
      BY <1>1, <2>1, <2>2, HeadTailOfSubSeq
  <1>6. Prefix(m) = Prefix(m - 1) \o <<answer[m]>>
    <2>1. 1 \in 1..Len(answer) /\ m \in 1..Len(answer)
      BY <1>1, <1>3, <1>4
    <2> QED
      BY <1>1, <2>1, SubSeqRecursiveSecond DEF Prefix
  <1>7. Append(buf, Head(stream)) = Prefix(m)
    <2>1. m - 1 = Len(buf)
      BY <1>3
    <2>2. buf \in Seq(Pieces) /\ answer[m] \in Pieces
      <3>1. buf \in Seq(Pieces)
        <4>1. \A i \in 1..Len(buf) : answer[i] \in Pieces
          BY <1>1, <1>2, <1>3
        <4> QED
          BY <1>2, <1>3, <4>1, SubSeqProperties DEF Prefix
      <3> QED
        BY <1>1, <1>3, <1>4, <3>1
    <2>3. Append(buf, answer[m]) = buf \o <<answer[m]>>
      BY <2>2, AppendIsConcat
    <2> QED
      BY <1>2, <1>5, <1>6, <2>1, <2>3
  <1>8. Len(Prefix(m)) = m
    BY <1>1, <1>3, <1>4 DEF Prefix
  <1>9. m + 1 = Len(buf) + 2
    BY <1>3
  <1> QED
    BY <1>3, <1>4, <1>5, <1>7, <1>8, <1>9

LEMMA ReadKeeps ==
  ASSUME DInv, ReadOn PROVE DInv'
  <1>1. stage = "reading" /\ stream # <<>>
    BY DEF ReadOn
  <1>2. CASE NoDial
    BY <1>2 DEF NoDial, DInv, Split, Place
  <1>3. CASE ~NoDial
    <2> DEFINE r == Append(buf, Head(stream))
    <2>1. /\ ~TooLong(r) /\ (Complete(r) => Granted(r))
          /\ stage' = IF Complete(r) THEN "tunnel" ELSE "reading"
          /\ buf' = r /\ stream' = Tail(stream) /\ answer' = answer
      BY <1>3 DEF ReadOn, Unread
    <2>2. /\ Len(buf) \in Nat /\ Len(buf) + 1 <= Len(answer)
          /\ r = Prefix(Len(buf) + 1) /\ Len(r) = Len(buf) + 1
          /\ Tail(stream) = SubSeq(answer, Len(buf) + 2, Len(answer))
      BY <1>1, NextByte DEF DInv
    <2> HIDE DEF r
    <2>3. \A n \in 1..Len(buf) : ~Complete(Prefix(n))
      <3>1. ~Complete(buf) /\ buf = Prefix(Len(buf))
        BY <1>1 DEF DInv, Split, Place
      <3>2. \A n \in 1..(Len(buf) - 1) : ~Complete(Prefix(n))
        BY <1>1 DEF DInv, Split
      <3> QED
        BY <2>2, <3>1, <3>2
    <2>4. Split'
      <3>1. \A n : Prefix(n)' = Prefix(n)
        BY <2>1 DEF Prefix
      <3>2. Len(buf') = Len(buf) + 1 /\ Len(buf') + 1 = Len(buf) + 2
        BY <2>1, <2>2
      <3>3. \A n \in 1..(Len(buf') - 1) : ~Complete(Prefix(n)')
        BY <2>2, <2>3, <3>1, <3>2
      <3>4. answer' \in Seq(Pieces) /\ Len(buf') <= Len(answer')
        BY <1>1, <2>1, <2>2, <3>2 DEF DInv, Split
      <3>5. buf' = SubSeq(answer', 1, Len(buf'))
        BY <2>1, <2>2, <3>2 DEF Prefix
      <3>6. stream' = SubSeq(answer', Len(buf') + 1, Len(answer'))
        BY <2>1, <2>2, <3>2
      <3> QED
        BY <3>3, <3>4, <3>5, <3>6 DEF Split, Prefix, Complete
    <2>5. Place'
      <3>1. pc' = "dialing"
        BY <1>1, <1>3 DEF ReadOn, vars, DInv, Place
      <3>2. r = <<>> => FALSE
        BY <2>2
      <3> QED
        BY <2>1, <2>2, <3>1, <3>2, AnswersAssumption DEF Place, TooLong, Complete, Granted
    <2> QED
      BY <2>4, <2>5 DEF DInv
  <1> QED
    BY <1>2, <1>3

(* Every other step leaves the dialogue alone, ends it or begins it. *)
LEMMA OthersKeep ==
  ASSUME DInv, [ProxyNext]_proxyVars, ~ReadOn PROVE DInv'
  <1>1. CASE UNCHANGED dialVars /\ (pc' = pc \/ pc # "dialing")
    BY <1>1 DEF dialVars, DInv, Split, Place, Prefix, Complete, Granted
  <1>2. CASE NoDial
    BY <1>2 DEF NoDial, DInv, Split, Place
  <1>3. CASE DialStarts
    <2>1. stage' \in {"direct", "asking"} /\ buf' = buf /\ pc' = "dialing"
      BY <1>3 DEF DialStarts, Dial
    <2>2. buf = <<>>
      BY <1>3 DEF DialStarts, Dial, DInv, Place
    <2> QED
      BY <2>1, <2>2 DEF DInv, Split, Place
  <1>4. ASSUME NEW a \in Answers, Asked(a) PROVE DInv'
    <2>1. /\ stage' = "reading" /\ stream' = a /\ answer' = a /\ buf' = <<>>
          /\ pc = "dialing" /\ pc' = pc
      BY <1>4 DEF Asked, vars, DInv, Place
    <2>2. a \in Seq(Pieces)
      BY AnswersAssumption
    <2>3. a = SubSeq(a, 1, Len(a)) /\ <<>> = SubSeq(a, 1, 0)
      BY <2>2, SubSeqFull, SubSeqEmpty
    <2>4. Split'
      BY <2>1, <2>2, <2>3 DEF Split, Prefix
    <2>5. Place'
      BY <2>1 DEF Place, Complete
    <2> QED
      BY <2>4, <2>5 DEF DInv
  <1>5. ASSUME \/ Pause \/ PauseEnds \/ Wait \/ WaitEnds \/ ForwardEnds
               \/ Stop \/ Return \/ Tick
               \/ \E p \in Policies : Reload(p)
        PROVE  pc' = pc \/ pc # "dialing"
    BY <1>5 DEF Pause, PauseEnds, Wait, WaitEnds, ForwardEnds, Stop, Return,
                Ends, Tick, Reload
  <1> QED
    BY <1>1, <1>2, <1>3, <1>4, <1>5
    DEF ProxyNext, ProxyStep, ReadEof, Fails, Succeeds, proxyVars, dialVars

(* proxy.rs:132-156: what was read and what is left make up the answer.    *)
THEOREM DialogueCorrect == ProxySpec => []DInv
  <1>1. ProxyInit => DInv
    BY DEF ProxyInit, Init, DInv, Split, Place
  <1>2. DInv /\ [ProxyNext]_proxyVars => DInv'
    BY ReadKeeps, OthersKeep
  <1> QED
    BY <1>1, <1>2, PTL DEF ProxySpec

(* proxy.rs:132-170: the tunnel is handed over once it was granted, and    *)
(* with every byte that came after the header.                             *)
THEOREM HandedOverCorrect == ProxySpec => []HandedOver
  <1>1. ASSUME DInv, stage = "tunnel"
        PROVE  \E n \in 1..Len(answer) :
                 Opens(Prefix(n)) /\ stream = SubSeq(answer, n + 1, Len(answer))
    <2>1. /\ answer \in Seq(Pieces) /\ Len(answer) \in Nat
          /\ buf = Prefix(Len(buf)) /\ Len(buf) <= Len(answer)
          /\ stream = SubSeq(answer, Len(buf) + 1, Len(answer))
          /\ \A n \in 1..(Len(buf) - 1) : ~Complete(Prefix(n))
          /\ Complete(buf) /\ Granted(buf) /\ Len(buf) <= MaxResponse
      BY <1>1 DEF DInv, Split, Place
    <2>2. Len(buf) \in 1..Len(answer)
      <3>1. Len(buf) > 1
        BY <2>1 DEF Complete
      <3>2. Len(buf) \in Nat
        BY <2>1 DEF Prefix
      <3> QED
        BY <2>1, <3>1, <3>2
    <2>3. \A n \in 1..(Len(buf) - 1) : ~Complete(SubSeq(buf, 1, n))
      <3> SUFFICES ASSUME NEW n \in 1..(Len(buf) - 1)
                   PROVE  ~Complete(SubSeq(buf, 1, n))
        OBVIOUS
      <3>1. SubSeq(buf, 1, n) = Prefix(n)
        BY <2>1, <2>2, PrefixOfPrefix
      <3> QED
        BY <2>1, <3>1
    <2> QED
      BY <2>1, <2>2, <2>3 DEF Opens
  <1>2. DInv => HandedOver
    BY <1>1 DEF HandedOver, Prefix
  <1> QED
    BY <1>2, DialogueCorrect, PTL

(* proxy.rs:141-156: a tunnel that was granted, by a header that is text   *)
(* and within the limit, is not given up while that header is read.        *)
THEOREM NotGivenUpCorrect == ProxySpec => NotGivenUp
  <1>1. ASSUME DInv, [ProxyNext]_proxyVars, stage = "reading", pc' = "down",
               NEW n \in 1..Len(answer), Opens(Prefix(n))
        PROVE  FALSE
    <2> DEFINE m == Len(buf)
    <2>1. /\ answer \in Seq(Pieces) /\ Len(answer) \in Nat
          /\ buf = Prefix(m) /\ m <= Len(answer) /\ m \in Nat
          /\ stream = SubSeq(answer, m + 1, Len(answer))
          /\ \A k \in 1..m : ~Complete(Prefix(k))
      <3>1. /\ answer \in Seq(Pieces) /\ Len(answer) \in Nat
            /\ buf = Prefix(m) /\ m <= Len(answer)
            /\ stream = SubSeq(answer, m + 1, Len(answer))
            /\ \A k \in 1..(m - 1) : ~Complete(Prefix(k))
            /\ ~Complete(buf)
        BY <1>1 DEF DInv, Split, Place
      <3>2. m \in Nat
        BY <3>1 DEF Prefix
      <3> QED
        BY <3>1, <3>2
    <2>2. /\ Complete(Prefix(n)) /\ Granted(Prefix(n)) /\ Len(Prefix(n)) <= MaxResponse
          /\ \A k \in 1..(n - 1) : ~Complete(Prefix(k))
          /\ Len(Prefix(n)) = n
      <3>1. Len(Prefix(n)) = n
        BY <2>1 DEF Prefix
      <3>2. \A k \in 1..(n - 1) : SubSeq(Prefix(n), 1, k) = Prefix(k)
        BY <2>1, PrefixOfPrefix
      <3> QED
        BY <1>1, <3>1, <3>2 DEF Opens
    <2>3. n > m
      BY <2>1, <2>2
    <2>4. stream # <<>>
      <3>1. Len(stream) = Len(answer) - m
        BY <2>1
      <3>2. Len(stream) > 0
        BY <2>1, <2>3, <3>1
      <3> QED
        BY <3>2
    <2>5. /\ Append(buf, Head(stream)) = Prefix(m + 1)
          /\ Len(Prefix(m + 1)) = m + 1
      BY <1>1, <2>4, NextByte DEF DInv
    <2>6. ReadOn /\ (TooLong(Prefix(m + 1)) \/ (Complete(Prefix(m + 1)) /\ ~Granted(Prefix(m + 1))))
      <3>1. pc = "dialing" /\ pc' # pc
        BY <1>1 DEF DInv, Place
      <3>2. ReadOn
        BY <1>1, <2>4, <3>1
        DEF ProxyNext, ProxyStep, DialStarts, ReadEof, Fails, Succeeds, Asked, proxyVars,
            vars, Dial, PauseEnds, Wait, WaitEnds, Pause, ForwardEnds, Stop, Return,
            Drop, Ends, Tick, Reload
      <3>3. ~UNCHANGED vars
        BY <3>1 DEF vars
      <3> QED
        BY <2>5, <3>2, <3>3 DEF ReadOn
    <2>7. m + 1 = n
      BY <2>1, <2>2, <2>3, <2>5, <2>6, AnswersAssumption DEF TooLong
    <2> QED
      BY <2>2, <2>6, <2>7, AnswersAssumption DEF TooLong
  <1>2. ASSUME DInv, [ProxyNext]_proxyVars
        PROVE  [stage = "reading" /\ pc' = "down" =>
                  \A n \in 1..Len(answer) : ~Opens(SubSeq(answer, 1, n))]_proxyVars
    BY <1>1, <1>2 DEF Prefix
  <1> QED
    BY <1>2, DialogueCorrect, PTL DEF ProxySpec, NotGivenUp
=============================================================================
