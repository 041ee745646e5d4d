-------------------------- MODULE DedupCacheProofs --------------------------
(***************************************************************************)
(* What a dedup client relies on, for every set of hashes, every window    *)
(* policy (unvalidated ones included), every request and every traffic.    *)
(***************************************************************************)
EXTENDS DedupCache, TLAPS

(* The generations are exact only because the cache was called recently:   *)
(* the inductive invariant adds the traffic's own promise to them.         *)
GapOK == now - called_at <= MaxGap

IInv == TypeOK /\ GenerationsOK /\ GapOK

(* handlers.rs:110-114: whatever the policy and the query say, the window  *)
(* a cache is built with is at least one second.                           *)
LEMMA WindowPositive == Window \in Nat \ {0}
  BY WindowsAssumption DEF Window, Clamp, AtLeast, AtMost

LEMMA InitIInv == Init => IInv
  <1> SUFFICES ASSUME Init PROVE IInv
    OBVIOUS
  <1> USE WindowPositive, TrafficAssumption
  <1>1. TypeOK
    BY DEF Init, TypeOK
  <1>2. GenerationsOK
    BY DEF Init, GenerationsOK
  <1>3. GapOK
    BY DEF Init, GapOK
  <1> QED
    BY <1>1, <1>2, <1>3 DEF IInv

(* The clock moves on and nothing else does. *)
LEMMA TickIInv == ASSUME IInv, Tick PROVE IInv'
  <1>1. TypeOK'
    BY DEF IInv, TypeOK, Tick, Promise!NoReply
  <1>2. GenerationsOK'
    BY DEF IInv, GenerationsOK, Tick
  <1>3. GapOK'
    BY TrafficAssumption DEF IInv, TypeOK, GapOK, Tick
  <1> QED
    BY <1>1, <1>2, <1>3 DEF IInv

(* A call that rotates comes after the latest call: everything the cache   *)
(* holds was let through before the rotation.                              *)
LEMMA RotationIsLater ==
  ASSUME IInv, RotationDue PROVE called_at < now
  BY WindowPositive DEF IInv, TypeOK, GenerationsOK, RotationDue

LEMMA AdmitTypeOK ==
  ASSUME IInv, NEW key \in Keys, Admit(key) PROVE TypeOK'
  <1> USE DEF IInv, TypeOK, Admit
  <1>1. /\ now' \in Nat
        /\ rotated_at' \in 0..now'
        /\ called_at' \in rotated_at'..now'
    BY DEF RotatedAt
  <1>2. current' \subseteq Keys /\ previous' \subseteq Keys
    BY DEF CurrentGen, PreviousGen
  <1>3. admissions' \in [Keys -> Nat]
    OBVIOUS
  <1>4. admitted_at' \in [Keys -> 0..called_at']
    OBVIOUS
  <1>5. reply' \in [key : Keys, admitted : BOOLEAN] \cup {Promise!NoReply}'
    <2>1. (~Suppresses(key)) \in BOOLEAN
      BY Zenon DEF Suppresses
    <2> QED
      BY <2>1
  <1> QED
    BY <1>1, <1>2, <1>3, <1>4, <1>5

(* What holds of the generations as `admit' sees them, whether or not it   *)
(* rotated: GenerationsOK with its strict bound now reaching the clock.    *)
LEMMA GenerationsAtCall ==
  ASSUME IInv
  PROVE  /\ CurrentGen \cap PreviousGen = {}
         /\ now - RotatedAt < Window
         /\ \A k \in CurrentGen :
              admissions[k] > 0 /\ admitted_at[k] >= RotatedAt
         /\ \A k \in PreviousGen :
              /\ admissions[k] > 0
              /\ admitted_at[k] < RotatedAt
              /\ RotatedAt - admitted_at[k] < Window + MaxGap
         /\ \A k \in Keys \ (CurrentGen \cup PreviousGen) :
              admissions[k] > 0 => RotatedAt - admitted_at[k] > Window
  <1> USE WindowPositive, TrafficAssumption DEF IInv, TypeOK, GenerationsOK
  <1>1. CASE RotationDue
    <2>1. CurrentGen = {} /\ PreviousGen = current /\ RotatedAt = now
      BY <1>1 DEF CurrentGen, PreviousGen, RotatedAt
    <2>2. \A k \in current :
            /\ admissions[k] > 0
            /\ admitted_at[k] < now
            /\ now - admitted_at[k] < Window + MaxGap
      <3> SUFFICES ASSUME NEW k \in current
                   PROVE  /\ admissions[k] > 0
                          /\ admitted_at[k] < now
                          /\ now - admitted_at[k] < Window + MaxGap
        OBVIOUS
      <3>1. /\ admitted_at[k] \in rotated_at..called_at
            /\ admissions[k] > 0
        OBVIOUS
      <3>2. called_at < now /\ now - called_at <= MaxGap
        BY <1>1, RotationIsLater DEF GapOK
      <3> QED
        BY <3>1, <3>2
    <2>3. \A k \in Keys \ current :
            admissions[k] > 0 => now - admitted_at[k] > Window
      BY <1>1 DEF RotationDue
    <2> QED
      BY <2>1, <2>2, <2>3
  <1>2. CASE ~RotationDue
    BY <1>2 DEF CurrentGen, PreviousGen, RotatedAt, RotationDue
  <1> QED
    BY <1>1, <1>2

LEMMA AdmitIInv == ASSUME IInv, NEW key \in Keys, Admit(key) PROVE IInv'
  <1>1. TypeOK'
    BY AdmitTypeOK
  <1>2. GenerationsOK'
    <2> USE GenerationsAtCall, WindowPositive, TrafficAssumption
        DEF IInv, TypeOK, GenerationsOK
    <2>0. /\ rotated_at' = RotatedAt /\ RotatedAt \in Nat
          /\ previous' = PreviousGen
          /\ called_at' = now
      BY DEF Admit, RotatedAt
    <2>1. CASE Suppresses(key)
      BY <2>0, <2>1 DEF Admit
    <2>2. CASE ~Suppresses(key)
      <3>1. /\ current' = CurrentGen \cup {key}
            /\ admissions'  = [admissions EXCEPT ![key] = @ + 1]
            /\ admitted_at' = [admitted_at EXCEPT ![key] = now]
        BY <2>2 DEF Admit
      <3>2. key \notin CurrentGen /\ key \notin PreviousGen
        BY <2>2 DEF Suppresses
      <3>3. /\ admissions'[key] > 0 /\ admitted_at'[key] = now
            /\ RotatedAt <= now
        BY <3>1 DEF RotatedAt
      <3>4. \A k \in Keys \ {key} : /\ admissions'[k] = admissions[k]
                                    /\ admitted_at'[k] = admitted_at[k]
        BY <3>1
      <3>5. CurrentGen \subseteq Keys /\ PreviousGen \subseteq Keys
        BY DEF CurrentGen, PreviousGen
      <3>6. current' \cap previous' = {} /\ called_at' - rotated_at' < Window'
        BY <2>0, <3>1, <3>2 DEF Window, Clamp, AtLeast, AtMost
      <3>7. \A k \in current' :
              admissions'[k] > 0 /\ admitted_at'[k] >= rotated_at'
        BY <2>0, <3>1, <3>3, <3>4, <3>5
      <3>8. \A k \in previous' :
              /\ admissions'[k] > 0
              /\ admitted_at'[k] < rotated_at'
              /\ rotated_at' - admitted_at'[k] < Window + MaxGap
        BY <2>0, <3>2, <3>4, <3>5
      <3>9. \A k \in Keys \ (current' \cup previous') :
              admissions'[k] > 0 => rotated_at' - admitted_at'[k] > Window
        BY <2>0, <3>1, <3>4
      <3> QED
        BY <3>6, <3>7, <3>8, <3>9
    <2> QED
      BY <2>1, <2>2
  <1>3. GapOK'
    BY TrafficAssumption DEF GapOK, Admit, IInv, TypeOK
  <1> QED
    BY <1>1, <1>2, <1>3 DEF IInv

(* dedup.rs:11-16, 36-52: the inductive invariant.                         *)
THEOREM Inductive == Spec => []IInv
  <1>1. IInv /\ [Next]_vars => IInv'
    <2> SUFFICES ASSUME IInv, [Next]_vars PROVE IInv'
      OBVIOUS
    <2>1. CASE Tick
      BY <2>1, TickIInv
    <2>2. ASSUME NEW key \in Keys, Admit(key) PROVE IInv'
      BY <2>2, AdmitIInv
    <2>3. CASE UNCHANGED vars
      BY <2>3 DEF vars, IInv, TypeOK, GenerationsOK, GapOK, Promise!NoReply
    <2> QED
      BY <2>1, <2>2, <2>3 DEF Next
  <1> QED
    BY <1>1, InitIInv, PTL DEF Spec

(* dedup.rs:17-22: types, and clock readings in the order they were taken. *)
THEOREM TypeCorrect == Spec => []TypeOK
  <1>1. IInv => TypeOK
    BY DEF IInv
  <1> QED
    BY <1>1, Inductive, PTL

(* dedup.rs:11-16: each generation holds exactly the age it stands for.    *)
THEOREM GenerationsCorrect == Spec => []GenerationsOK
  <1>1. IInv => GenerationsOK
    BY DEF IInv
  <1> QED
    BY <1>1, Inductive, PTL

(* dedup.rs:13-15: no hash is suppressed for longer than two windows and   *)
(* the longest gap between two calls.                                      *)
THEOREM SuppressionIsBounded == Spec => []SuppressionBounded
  <1>1. IInv => SuppressionBounded
    <2> SUFFICES ASSUME IInv, NEW k \in Keys, Suppresses(k)
                 PROVE  now - admitted_at[k] <= 2 * Window + MaxGap - 2
      BY DEF SuppressionBounded
    <2> USE WindowPositive, TrafficAssumption DEF IInv, TypeOK
    <2>1. RotatedAt \in Nat /\ RotatedAt <= now /\ admitted_at[k] \in Nat
      BY DEF RotatedAt
    <2>2. CASE k \in CurrentGen
      <3>1. admitted_at[k] >= RotatedAt /\ now - RotatedAt < Window
        BY <2>2, GenerationsAtCall
      <3> QED
        BY <2>1, <3>1
    <2>3. CASE k \in PreviousGen
      <3>1. CASE RotationDue
        <4>1. admitted_at[k] >= rotated_at /\ called_at - rotated_at < Window
          BY <2>3, <3>1 DEF PreviousGen, GenerationsOK
        <4>2. now - called_at <= MaxGap
          BY DEF GapOK
        <4> QED
          BY <2>1, <4>1, <4>2
      <3>2. CASE ~RotationDue
        <4>1. /\ RotatedAt - admitted_at[k] < Window + MaxGap
              /\ now - RotatedAt < Window
          BY <2>3, GenerationsAtCall
        <4> QED
          BY <2>1, <4>1
      <3> QED
        BY <3>1, <3>2
    <2> QED
      BY <2>2, <2>3 DEF Suppresses
  <1> QED
    BY <1>1, Inductive, PTL

(* handlers.rs:101-103 and dedup.rs:34-35: the two-generation set          *)
(* implements the sliding window it approximates: nothing let through less *)
(* than a window ago is let through again, and nothing new is dropped.     *)
THEOREM PromiseKept == Spec => KeepsPromise
  <1>1. Init => Promise!Init
    BY DEF Init, Promise!Init
  <1>2. IInv /\ [Next]_vars => [Promise!Next]_(Promise!vars)
    <2> SUFFICES ASSUME IInv, [Next]_vars
                 PROVE  [Promise!Next]_(Promise!vars)
      OBVIOUS
    <2>1. CASE Tick
      BY <2>1 DEF Tick, Promise!Next, Promise!Tick
    <2>2. ASSUME NEW key \in Keys, Admit(key)
          PROVE  Promise!Pass(key) \/ Promise!Suppress(key)
      <3> USE WindowPositive DEF IInv, TypeOK
      <3>1. CASE Suppresses(key)
        <4>1. admissions[key] > 0
          BY <3>1, GenerationsAtCall DEF Suppresses
        <4>2. (~Suppresses(key)) = FALSE
          BY <3>1, Zenon
        <4>3. /\ reply' = [key |-> key, admitted |-> FALSE]
              /\ UNCHANGED <<now, admissions, admitted_at>>
          BY <2>2, <3>1, <4>2 DEF Admit
        <4> QED
          BY <4>1, <4>3 DEF Promise!Suppress, Promise!Never
      <3>2. CASE ~Suppresses(key)
        <4>1. admissions[key] > 0 => RotatedAt - admitted_at[key] > Window
          BY <3>2, GenerationsAtCall DEF Suppresses
        <4>2. RotatedAt <= now /\ RotatedAt \in Nat
          BY DEF RotatedAt
        <4>3. ~Promise!Recent(key)
          BY <4>1, <4>2 DEF Promise!Recent, Promise!Never
        <4>4. (~Suppresses(key)) = TRUE
          BY <3>2, Zenon
        <4> QED
          BY <2>2, <3>2, <4>3, <4>4 DEF Admit, Promise!Pass
      <3> QED
        BY <3>1, <3>2
    <2>3. CASE UNCHANGED vars
      BY <2>3 DEF vars, Promise!vars
    <2> QED
      BY <2>1, <2>2, <2>3 DEF Next, Promise!Next
  <1> QED
    BY <1>1, <1>2, Inductive, PTL DEF Spec, KeepsPromise, Promise!Spec
=============================================================================
