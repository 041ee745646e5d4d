------------------------------ MODULE Lifecycle ------------------------------
(***************************************************************************)
(* What those who publish and those who serve clients rely on in the       *)
(* supervisor, said without configurations or reloads: how runtimes come   *)
(* and go, and tasks with them.  Supervisor keeps to it, and the sources   *)
(* that come and go in Fanout do nothing else.                             *)
(***************************************************************************)
CONSTANTS
  Ids,
  Runtimes,
  Tasks,
  None       \* no id, no runtime

VARIABLES
  phase,    \* of a runtime: "new", "listed" or "removed"
  owner,    \* the id it was made for
  serves,   \* the runtime of a task
  stopped,  \* tasks told to end
  ended     \* tasks that did

vars == <<phase, owner, serves, stopped, ended>>

Crew(runtimes) == {t \in Tasks : serves[t] \in runtimes}

Init ==
  /\ phase = [r \in Runtimes |-> "new"]
  /\ owner = [r \in Runtimes |-> None]
  /\ serves = [t \in Tasks |-> None]
  /\ stopped = {} /\ ended = {}

(* An id has one listed runtime at a time, and a removed one never returns. *)
Lists(r, id) ==
  /\ phase[r] = "new"
  /\ \A q \in Runtimes : phase[q] = "listed" => owner[q] # id
  /\ phase' = [phase EXCEPT ![r] = "listed"]
  /\ owner' = [owner EXCEPT ![r] = id]

Add(r, id) == Lists(r, id) /\ UNCHANGED <<serves, stopped, ended>>

(* A new task of r: those it had are told to end, and not waited for. *)
Begins(t, r) ==
  /\ serves[t] = None
  /\ serves' = [serves EXCEPT ![t] = r]
  /\ stopped' = stopped \cup Crew({r})
  /\ UNCHANGED ended

Open(r, id, t) == Lists(r, id) /\ Begins(t, r)

Start(t, r) == phase[r] = "listed" /\ Begins(t, r) /\ UNCHANGED <<phase, owner>>

Stop(t) ==
  /\ serves[t] # None
  /\ stopped' = stopped \cup {t}
  /\ UNCHANGED <<phase, owner, serves, ended>>

Remove(runtimes) ==
  /\ \A r \in runtimes : phase[r] = "listed"
  /\ phase' = [r \in Runtimes |-> IF r \in runtimes THEN "removed" ELSE phase[r]]
  /\ stopped' = stopped \cup Crew(runtimes)
  /\ UNCHANGED <<owner, serves, ended>>

End(t) ==
  /\ t \in stopped
  /\ ended' = ended \cup {t}
  /\ UNCHANGED <<phase, owner, serves, stopped>>

Next ==
  \/ \E r \in Runtimes, id \in Ids :
       Add(r, id) \/ \E t \in Tasks : Open(r, id, t)
  \/ \E runtimes \in (SUBSET Runtimes) \ {{}} : Remove(runtimes)
  \/ \E t \in Tasks :
       \/ \E r \in Runtimes : Start(t, r)
       \/ Stop(t) \/ End(t)

Spec == Init /\ [][Next]_vars
-----------------------------------------------------------------------------
(* What it is for.  An id is found under one runtime; of the tasks of a    *)
(* runtime all but one were told to end, and all of them once it left the  *)
(* list; and no task ends of itself.                                       *)
Orderly ==
  /\ \A q, r \in Runtimes :
       phase[q] = "listed" /\ phase[r] = "listed" /\ owner[q] = owner[r] => q = r
  /\ \A t \in Tasks :
       serves[t] # None /\ phase[serves[t]] = "removed" => t \in stopped
  /\ \A t, u \in Tasks \ stopped :
       serves[t] # None /\ serves[t] = serves[u] => t = u
  /\ ended \subseteq stopped
=============================================================================
