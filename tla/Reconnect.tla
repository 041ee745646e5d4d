------------------------------ MODULE Reconnect ------------------------------
(***************************************************************************)
(* How long an upstream task waits between two connections:                *)
(* reconnect_delay, offline_since and the policy in run_source_forever     *)
(* (src/upstream.rs), while reloads replace the policy (apply,             *)
(* src/sources.rs) at any time.  What the task shows and what goes through *)
(* its connection is left to Supervisor and Fanout.                        *)
(*                                                                         *)
(* Durations are in seconds.  offline is the age of offline_since, which   *)
(* is only compared with thresholds, so it need not grow beyond Horizon.   *)
(***************************************************************************)
EXTENDS Integers

CONSTANTS
  Policies,  \* [reconnect] settings that validate_config lets through
  Horizon,   \* no threshold is longer
  Limit,     \* the greatest length config.toml can say
  Never      \* offline_since: None

(* A u64 is read from an integer of the file, that has 63 bits, so that    *)
(* twice a length is still a Duration.                                     *)
Seconds == 1..Limit

ASSUME PoliciesAssumption ==
  /\ Horizon \in Nat /\ Limit \in Nat
  /\ Never \notin Nat
  /\ \A p \in Policies :
       /\ p.initial_delay \in Seconds /\ p.max_delay \in Seconds
       /\ p.max_delay >= p.initial_delay
       /\ p.offline_threshold \in 1..Horizon
       /\ p.offline_delay \in Seconds

VARIABLES
  policy,   \* AppState.reconnect
  pc,       \* where the task is
  delay,    \* reconnect_delay
  offline,  \* offline_since.elapsed()
  degraded, \* the latest wait was shown as ReconnectWaitDegraded
  wait,     \* the latest wait
  left,     \* what is left of it, or of a pause
  plain,    \* history: an ordinary wait since the latest connection
  waits,    \* history: waits begun under this policy, as far as 2
  stopped   \* stop_task was called: the token fired, an abort is on its way

vars == <<policy, pc, delay, offline, degraded, wait, left, plain, waits, stopped>>

Init ==
  /\ policy \in Policies
  /\ pc = "top"
  /\ delay = policy.initial_delay
  /\ offline = Never
  /\ degraded = FALSE
  /\ wait = 0 /\ left = 0
  /\ plain = FALSE /\ waits = 0
  /\ stopped = FALSE
-----------------------------------------------------------------------------
Dial ==
  /\ pc = "top"
  /\ ~stopped
  /\ pc' = "dialing"
  /\ UNCHANGED <<policy, delay, offline, degraded, wait, left, plain, waits, stopped>>

(* A source found disabled: wait_for_cancel_or_config. *)
Pause ==
  /\ pc = "top"
  /\ ~stopped
  /\ pc' = "paused"
  /\ left' = 1
  /\ UNCHANGED <<policy, delay, offline, degraded, wait, plain, waits, stopped>>

PauseEnds ==
  /\ pc = "paused"
  /\ left = 0 \/ stopped
  /\ pc' = "top"
  /\ UNCHANGED <<policy, delay, offline, degraded, wait, left, plain, waits, stopped>>

MutConnectKeepsDelay ==
  /\ pc = "dialing"
  /\ pc' = "connected"
  /\ degraded' = FALSE
  /\ plain' = FALSE
  /\ UNCHANGED <<policy, delay, offline, wait, left, waits, stopped>>

Connect ==
  /\ pc = "dialing"
  /\ pc' = "connected"
  /\ delay' = policy.initial_delay
  /\ degraded' = FALSE
  /\ plain' = FALSE
  /\ UNCHANGED <<policy, offline, wait, left, waits, stopped>>

MutFailRestartsClock ==
  /\ pc = "dialing"
  /\ pc' = "down"
  /\ offline' = 0
  /\ UNCHANGED <<policy, delay, degraded, wait, left, plain, waits, stopped>>

DialFails ==
  /\ pc = "dialing"
  /\ pc' = "down"
  /\ offline' = IF offline = Never THEN 0 ELSE offline
  /\ UNCHANGED <<policy, delay, degraded, wait, left, plain, waits, stopped>>

ForwardEnds ==
  /\ pc = "connected"
  /\ pc' = "down"
  /\ offline' = 0
  /\ UNCHANGED <<policy, delay, degraded, wait, left, plain, waits, stopped>>

Wait ==
  /\ pc = "down"
  /\ ~stopped
  /\ pc' = "waiting"
  /\ degraded' = (offline # Never /\ offline >= policy.offline_threshold)
  /\ wait' = IF degraded' THEN policy.offline_delay ELSE delay
  /\ left' = wait'
  /\ plain' = (plain \/ ~degraded')
  /\ waits' = IF waits < 2 THEN waits + 1 ELSE 2
  /\ UNCHANGED <<policy, delay, offline, stopped>>

AtMost(x, high) == IF x > high THEN high ELSE x

MutDoubled == IF wait = delay THEN delay * 2 ELSE delay
MutDoubledFirst == IF wait = delay /\ delay * 2 <= policy.max_delay THEN delay * 2 ELSE delay
Doubled == IF wait = delay THEN AtMost(delay * 2, policy.max_delay) ELSE delay

WaitEnds ==
  /\ pc = "waiting"
  /\ left = 0
  /\ pc' = "top"
  /\ delay' = Doubled
  /\ UNCHANGED <<policy, offline, degraded, wait, left, plain, waits, stopped>>

(* The supervisor stops the task and does not wait: the token is looked at *)
(* before a dial, a pause and a wait, and an abort drops the future at an  *)
(* `.await', whatever it waits for.                                        *)
Stop ==
  /\ pc # "ended"
  /\ ~stopped
  /\ stopped' = TRUE
  /\ UNCHANGED <<policy, pc, delay, offline, degraded, wait, left, plain, waits>>

Ends(places) ==
  /\ stopped
  /\ pc \in places
  /\ pc' = "ended"
  /\ UNCHANGED <<policy, delay, offline, degraded, wait, left, plain, waits, stopped>>

Return == Ends({"top", "down"})
MutCancelOnly == Ends({"paused", "connected", "waiting"})
Drop == Ends({"paused", "dialing", "connected", "waiting"})

Tick ==
  /\ offline' = IF offline \in 0..(Horizon - 1) THEN offline + 1 ELSE offline
  /\ left' = IF left > 0 THEN left - 1 ELSE 0
  /\ UNCHANGED <<policy, pc, delay, degraded, wait, plain, waits, stopped>>

(* A reload; the policy may also be stored anew as it is. *)
Reload(p) ==
  /\ p # policy
  /\ policy' = p
  /\ waits' = 0
  /\ UNCHANGED <<pc, delay, offline, degraded, wait, left, plain, stopped>>
-----------------------------------------------------------------------------
Step == Dial \/ PauseEnds \/ Wait \/ WaitEnds

Next ==
  \/ Step
  \/ Pause \/ Connect \/ DialFails \/ ForwardEnds
  \/ Stop \/ Return \/ Drop \/ Tick
  \/ \E p \in Policies : Reload(p)

Spec == Init /\ [][Next]_vars
-----------------------------------------------------------------------------
(* Types, and that doubling a delay cannot overflow: it stays a length     *)
(* that some config.toml said.                                             *)
TypeOK ==
  /\ policy \in Policies
  /\ pc \in {"top", "paused", "dialing", "connected", "down", "waiting", "ended"}
  /\ delay \in Seconds
  /\ offline \in 0..Horizon \cup {Never}
  /\ pc \in {"down", "waiting"} => offline # Never
  /\ degraded \in BOOLEAN /\ plain \in BOOLEAN
  /\ wait \in 0..Limit
  /\ left \in 0..Limit
  /\ waits \in 0..2
  /\ stopped \in BOOLEAN

(* README.md:75, upstream.rs:103-137: a reload of the policy takes hold    *)
(* with the second wait after it at the latest: whatever was going on when *)
(* it came, that wait is the offline delay or no longer than the maximum.  *)
TakesHold ==
  pc = "waiting" /\ waits = 2 =>
    IF degraded THEN wait = policy.offline_delay ELSE wait <= policy.max_delay

(* config.toml, "Reconnect backoff for upstream analyzers": while the      *)
(* policy stays as it is and no connection is made, each ordinary wait is  *)
(* twice the one before, up to the maximum.                                *)
Backoff ==
  [][(Wait /\ ~degraded' /\ plain /\ waits > 0) =>
       wait' = AtMost(wait * 2, policy.max_delay)]_vars

(* config.toml: "After an analyzer has been offline continuously for this  *)
(* long, use the longer delay below": one that is down for good comes to   *)
(* that, provided its dials end, however often the policy changes.         *)
Degraded == pc = "waiting" /\ degraded
DownForGood ==
  []<>(pc # "dialing") =>
    (pc = "down" ~> Degraded \/ pc \in {"connected", "paused", "ended"})

(* sources.rs:163-168: a stopped task ends, in the middle of a dial that   *)
(* never answers included, and whatever is reloaded meanwhile.             *)
StoppedEnds == stopped ~> pc = "ended"
=============================================================================
