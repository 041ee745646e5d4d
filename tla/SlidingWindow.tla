--------------------------- MODULE SlidingWindow ---------------------------
(***************************************************************************)
(* What a `?dedupByContent` client is promised, said without the cache:    *)
(* a packet whose hash was let through less than a window ago is dropped,  *)
(* and a packet whose hash was never let through is not.  Between the two, *)
(* once a full window has passed, either answer is allowed.                *)
(***************************************************************************)
EXTENDS Integers

CONSTANTS
  Keys,      \* content hashes
  Window     \* length of the window, in ticks

VARIABLES
  now,         \* the clock
  admissions,  \* how often each key was let through
  admitted_at, \* when it was let through last (meaningless while never)
  reply        \* the answer to the latest call

vars == <<now, admissions, admitted_at, reply>>

NoReply == [key |-> Keys, admitted |-> FALSE]  \* no call has been made yet

Never(k)  == admissions[k] = 0
Recent(k) == ~Never(k) /\ now - admitted_at[k] < Window

Init ==
  /\ now = 0
  /\ admissions  = [k \in Keys |-> 0]
  /\ admitted_at = [k \in Keys |-> 0]
  /\ reply = NoReply

Pass(k) ==
  /\ ~Recent(k)
  /\ admissions'  = [admissions EXCEPT ![k] = @ + 1]
  /\ admitted_at' = [admitted_at EXCEPT ![k] = now]
  /\ reply' = [key |-> k, admitted |-> TRUE]
  /\ UNCHANGED now

Suppress(k) ==
  /\ ~Never(k)
  /\ reply' = [key |-> k, admitted |-> FALSE]
  /\ UNCHANGED <<now, admissions, admitted_at>>

Tick ==
  /\ now' = now + 1
  /\ UNCHANGED <<admissions, admitted_at, reply>>

Next == Tick \/ \E k \in Keys : Pass(k) \/ Suppress(k)

Spec == Init /\ [][Next]_vars
=============================================================================
