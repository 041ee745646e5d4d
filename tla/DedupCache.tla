----------------------------- MODULE DedupCache -----------------------------
(***************************************************************************)
(* The two-generation set behind `?dedupByContent` (src/dedup.rs), one per *)
(* client and used by that client's task only, with the clock it reads.    *)
(* `admissions', `admitted_at' and `reply' are history: the cache never    *)
(* reads them.                                                             *)
(***************************************************************************)
EXTENDS Integers

CONSTANTS
  Keys,           \* content hashes
  DefaultWindow,  \* dedup_window_secs of the policy in force
  MaxWindow,      \* dedup_max_window_secs of the policy in force
  Requested,      \* ?dedupWindowSecs, or NoRequest
  NoRequest,
  MaxGap,         \* traffic: no two calls are further apart than this
  MaxTime         \* bound on the clock

(***************************************************************************)
(* Any lengths at all: a reload that validate_config refuses has already   *)
(* replaced the policy, so not even zero can be excluded.                  *)
(***************************************************************************)
ASSUME WindowsAssumption ==
  /\ NoRequest \notin Nat
  /\ DefaultWindow \in Nat
  /\ MaxWindow \in Nat
  /\ Requested \in Nat \cup {NoRequest}

ASSUME TrafficAssumption ==
  /\ MaxGap \in Nat \ {0}
  /\ MaxTime \in Nat

(* MultiplexQuery::dedup_cache: the length a client's cache is built with. *)
AtLeast(x, low) == IF x < low THEN low ELSE x
AtMost(x, high) == IF x > high THEN high ELSE x
Clamp(x, low, high) == AtMost(AtLeast(x, low), high)

Window ==
  Clamp(IF Requested = NoRequest THEN DefaultWindow ELSE Requested,
        1, AtLeast(MaxWindow, 1))

VARIABLES
  now,         \* Instant::now()
  rotated_at,  \* when the generations were swapped last
  current,     \* the generation that collects new hashes
  previous,    \* the one before it
  called_at,   \* when `admit' was called last
  admissions,  \* history: how often each key was let through
  admitted_at, \* history: when it was let through last
  reply        \* history: the answer to the latest call

vars == <<now, rotated_at, current, previous, called_at,
          admissions, admitted_at, reply>>

Promise == INSTANCE SlidingWindow WITH
  Keys <- Keys, Window <- Window, now <- now, admissions <- admissions,
  admitted_at <- admitted_at, reply <- reply

(* DedupCache::new *)
Init ==
  /\ now = 0
  /\ rotated_at = 0
  /\ current = {}
  /\ previous = {}
  /\ called_at = 0
  /\ admissions  = [k \in Keys |-> 0]
  /\ admitted_at = [k \in Keys |-> 0]
  /\ reply = Promise!NoReply

(* The generations as `admit' sees them, after the rotation it starts with. *)
RotationDue == now - rotated_at >= Window

MutKeepCurrent == IF RotationDue THEN previous ELSE current  \* swap, no clear
CurrentGen  == IF RotationDue THEN {} ELSE current

MutNoSwap == IF RotationDue THEN {} ELSE previous  \* clear, no swap
PreviousGen == IF RotationDue THEN current ELSE previous

MutNextRotation == IF RotationDue THEN now + Window ELSE rotated_at
RotatedAt   == IF RotationDue THEN now ELSE rotated_at

MutCurrentOnly(key) == key \in CurrentGen
Suppresses(key) == key \in CurrentGen \/ key \in PreviousGen

Admit(key) ==
  /\ rotated_at' = RotatedAt
  /\ previous' = PreviousGen
  /\ called_at' = now
  /\ reply' = [key |-> key, admitted |-> ~Suppresses(key)]
  /\ \/ /\ Suppresses(key)
        /\ current' = CurrentGen
        /\ UNCHANGED <<admissions, admitted_at>>
     \/ /\ ~Suppresses(key)
        /\ current' = CurrentGen \cup {key}
        /\ admissions'  = [admissions EXCEPT ![key] = @ + 1]
        /\ admitted_at' = [admitted_at EXCEPT ![key] = now]
  /\ UNCHANGED now

(* Time passes, while the next call is at most MaxGap after the last one. *)
Tick ==
  /\ now < MaxTime
  /\ now - called_at < MaxGap
  /\ now' = now + 1
  /\ UNCHANGED <<rotated_at, current, previous, called_at,
                 admissions, admitted_at, reply>>

Next == Tick \/ \E key \in Keys : Admit(key)

Spec == Init /\ [][Next]_vars
-----------------------------------------------------------------------------
(* Types; the clock readings are of the past, in the order they were taken. *)
TypeOK ==
  /\ now \in Nat
  /\ rotated_at \in 0..now
  /\ called_at \in rotated_at..now
  /\ current \subseteq Keys
  /\ previous \subseteq Keys
  /\ admissions  \in [Keys -> Nat]
  /\ admitted_at \in [Keys -> 0..called_at]
  /\ reply \in [key : Keys, admitted : BOOLEAN] \cup {Promise!NoReply}

(* dedup.rs:11-16.  The generations partition what is remembered, and each *)
(* holds exactly the age it stands for: `current' what was let through     *)
(* since the last rotation, `previous' what was let through before it, and *)
(* a key in neither was let through more than a window before it.          *)
GenerationsOK ==
  /\ current \cap previous = {}
  /\ called_at - rotated_at < Window
  /\ \A k \in current : admissions[k] > 0 /\ admitted_at[k] >= rotated_at
  /\ \A k \in previous :
       /\ admissions[k] > 0
       /\ admitted_at[k] < rotated_at
       /\ rotated_at - admitted_at[k] < Window + MaxGap
  /\ \A k \in Keys \ (current \cup previous) :
       admissions[k] > 0 => rotated_at - admitted_at[k] > Window

(* handlers.rs:101-103: dedup_cache keeps its promise to the client.  A    *)
(* hash sent less than a window ago is never sent again, whatever the      *)
(* rotations did in between, and a hash never sent is never dropped.       *)
KeepsPromise == Promise!Spec

(* dedup.rs:13-15: how long a hash can stay suppressed.  Two windows, and  *)
(* what the traffic adds: the rotation waits for the next call, so a gap   *)
(* between calls is added to the bound.                                    *)
SuppressionBounded ==
  \A k \in Keys :
    Suppresses(k) => now - admitted_at[k] <= 2 * Window + MaxGap - 2

(* dedup.rs:14-15: "an entry survives for at least `window` and at most    *)
(* `2 * window` before it can be admitted again".                          *)
AtMostTwoWindows ==
  \A k \in Keys : Suppresses(k) => now - admitted_at[k] <= 2 * Window
=============================================================================
