--------------------------- MODULE ReconnectProofs ---------------------------
(***************************************************************************)
(* Proofs about Reconnect, for any set of valid policies.                  *)
(***************************************************************************)
EXTENDS Reconnect, TLAPS

USE PoliciesAssumption

(* What validate_config says about the policy in force. *)
LEMMA ValidPolicy ==
  ASSUME TypeOK
  PROVE  /\ policy.initial_delay \in Seconds /\ policy.max_delay \in Seconds
         /\ policy.max_delay >= policy.initial_delay
         /\ policy.offline_threshold \in Nat /\ policy.offline_delay \in Seconds
  BY DEF TypeOK

LEMMA DoubledInLimit ==
  ASSUME TypeOK PROVE Doubled \in Seconds
  BY ValidPolicy DEF TypeOK, Doubled, AtMost, Seconds

LEMMA StepTypeOK == TypeOK /\ [Next]_vars => TypeOK'
  <1> SUFFICES ASSUME TypeOK, [Next]_vars PROVE TypeOK'
    OBVIOUS
  <1>1. CASE UNCHANGED vars
    BY <1>1 DEF TypeOK, vars
  <1>2. CASE Dial \/ Pause \/ PauseEnds \/ Stop
    <2>1. 1 \in 0..Limit
      BY ValidPolicy DEF Seconds
    <2> QED
      BY <1>2, <2>1 DEF TypeOK, Dial, Pause, PauseEnds, Stop
  <1>3. CASE Connect
    BY <1>3, ValidPolicy DEF TypeOK, Connect
  <1>4. CASE DialFails \/ ForwardEnds
    BY <1>4 DEF TypeOK, DialFails, ForwardEnds
  <1>5. CASE Wait
    <2>1. wait' \in Seconds
      BY <1>5, ValidPolicy DEF TypeOK, Wait
    <2>2. waits' \in 0..2
      BY <1>5 DEF TypeOK, Wait
    <2> QED
      BY <1>5, <2>1, <2>2 DEF TypeOK, Wait, Seconds
  <1>6. CASE WaitEnds
    BY <1>6, DoubledInLimit DEF TypeOK, WaitEnds
  <1>7. CASE Tick
    BY <1>7 DEF TypeOK, Tick
  <1>8. ASSUME NEW p \in Policies, Reload(p) PROVE TypeOK'
    BY <1>8 DEF TypeOK, Reload
  <1>9. CASE Return \/ Drop
    BY <1>9 DEF TypeOK, Return, Drop, Ends
  <1> QED
    BY <1>1, <1>2, <1>3, <1>4, <1>5, <1>6, <1>7, <1>8, <1>9 DEF Next, Step

LEMMA InitTypeOK == Init => TypeOK
  <1> SUFFICES ASSUME Init PROVE TypeOK
    OBVIOUS
  <1>1. policy \in Policies /\ delay \in Seconds
    BY DEF Init
  <1>2. 0 \in 0..Limit /\ 0 \in 0..2
    BY DEF Seconds
  <1> QED
    BY <1>1, <1>2 DEF Init, TypeOK

(* upstream.rs:130-136, config.rs:129-172: every delay is a length some    *)
(* config.toml said, so that doubling one does not overflow.               *)
THEOREM TypeCorrect == Spec => []TypeOK
  <1> QED
    BY InitTypeOK, StepTypeOK, PTL DEF Spec
-----------------------------------------------------------------------------
(* Degraded stays degraded until a connection is made. *)
Long == offline # Never /\ offline >= policy.offline_threshold

(* What a wait under the policy in force leaves behind: unless the task    *)
(* has been offline for long, a delay that is within the policy, and is    *)
(* twice the wait before.                                                  *)
Waited ==
  waits > 0 =>
    /\ pc = "waiting" => IF degraded THEN Long /\ wait = policy.offline_delay
                         ELSE wait = delay
    /\ pc = "connected" => ~plain /\ delay <= policy.max_delay
    /\ pc \notin {"waiting", "ended"} =>
         /\ Long \/ delay <= policy.max_delay
         /\ plain => Long \/ delay = AtMost(wait * 2, policy.max_delay)

LEMMA StepWaited == TypeOK /\ Waited /\ TakesHold /\ [Next]_vars => Waited' /\ TakesHold'
  <1> SUFFICES ASSUME TypeOK, Waited, TakesHold, [Next]_vars PROVE Waited' /\ TakesHold'
    OBVIOUS
  <1> USE DEF Waited, TakesHold, Long
  <1>1. CASE UNCHANGED vars
    BY <1>1 DEF vars
  <1>2. CASE Dial \/ Pause \/ PauseEnds
    BY <1>2 DEF Dial, Pause, PauseEnds
  <1>3. CASE Stop
    BY <1>3 DEF Stop
  <1>4. CASE Connect
    BY <1>4, ValidPolicy DEF Connect
  <1>5. CASE DialFails \/ ForwardEnds
    BY <1>5, ValidPolicy DEF TypeOK, DialFails, ForwardEnds
  <1>6. CASE Wait
    <2>1. offline # Never /\ waits \in 0..2 /\ waits' = IF waits < 2 THEN waits + 1 ELSE 2
      BY <1>6 DEF Wait, TypeOK
    <2>2. CASE Long
      <3>1. degraded' /\ wait' = policy.offline_delay
        BY <1>6, <2>1, <2>2 DEF Wait
      <3> QED
        BY <1>6, <2>1, <2>2, <3>1 DEF Wait
    <2>3. CASE ~Long
      <3>1. ~degraded' /\ wait' = delay
        BY <1>6, <2>1, <2>3 DEF Wait
      <3>2. waits > 0 => delay <= policy.max_delay
        BY <1>6, <2>3 DEF Wait
      <3> QED
        BY <1>6, <2>1, <3>1, <3>2 DEF Wait
    <2> QED
      BY <2>2, <2>3
  <1>7. CASE WaitEnds
    BY <1>7, ValidPolicy DEF TypeOK, WaitEnds, Doubled, AtMost, Seconds
  <1>8. CASE Tick
    BY <1>8, ValidPolicy DEF TypeOK, Tick
  <1>9. ASSUME NEW p \in Policies, Reload(p) PROVE Waited' /\ TakesHold'
    BY <1>9 DEF Reload
  <1>10. CASE Return \/ Drop
    BY <1>10 DEF Return, Drop, Ends
  <1> QED
    BY <1>1, <1>2, <1>3, <1>4, <1>5, <1>6, <1>7, <1>8, <1>9, <1>10 DEF Next, Step

(* README.md:75: a reload of the policy takes hold with the second wait    *)
(* after it at the latest, whatever the task was doing when it came.       *)
THEOREM TakesHoldCorrect == Spec => []TakesHold
  <1>1. Init => Waited /\ TakesHold
    BY DEF Init, Waited, TakesHold
  <1> QED
    BY <1>1, InitTypeOK, StepTypeOK, StepWaited, PTL DEF Spec

(* config.toml, "Reconnect backoff for upstream analyzers": under one      *)
(* policy and without a connection, ordinary waits double up to its        *)
(* maximum.                                                                *)
THEOREM BackoffCorrect == Spec => Backoff
  <1>1. Init => Waited /\ TakesHold
    BY DEF Init, Waited, TakesHold
  <1>2. ASSUME TypeOK, Waited
        PROVE  [(Wait /\ ~degraded' /\ plain /\ waits > 0) =>
                  wait' = AtMost(wait * 2, policy.max_delay)]_vars
    <2> SUFFICES ASSUME Wait, ~degraded', plain, waits > 0
                 PROVE  wait' = AtMost(wait * 2, policy.max_delay)
      OBVIOUS
    <2>1. ~Long /\ wait' = delay /\ pc = "down"
      BY DEF Wait, Long
    <2>2. pc \notin {"waiting", "ended"}
      BY <2>1
    <2>3. Long \/ delay = AtMost(wait * 2, policy.max_delay)
      BY <1>2, <2>2 DEF Waited
    <2> QED
      BY <2>1, <2>3
  <1> QED
    BY <1>1, <1>2, InitTypeOK, StepTypeOK, StepWaited, PTL DEF Spec, Backoff
=============================================================================
