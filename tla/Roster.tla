------------------------------- MODULE Roster -------------------------------
(***************************************************************************)
(* What a reload promises about the connections to the analyzers, said     *)
(* without runtimes, tasks, cancellation or the loop over the sources: a   *)
(* source whose settings change is switched to them once, directly from    *)
(* what served it before to what serves it now, and a source whose         *)
(* settings do not change is left alone.  Nothing else is ever done to a   *)
(* connection, and the next reload finds all of it done.                   *)
(***************************************************************************)
EXTENDS Integers

CONSTANTS
  Ids,
  Settings,  \* records with fields connection, disabled and insecure
  Absent,
  Nobody

VARIABLES
  wanted,   \* the settings each source is to have
  inForce,  \* the settings it has
  serving,  \* who serves it
  begun     \* how many ever began to serve

vars == <<wanted, inForce, serving, begun>>

Runs(setting) == setting # Absent /\ ~setting.disabled

Init ==
  /\ wanted  = [id \in Ids |-> Absent]
  /\ inForce = [id \in Ids |-> Absent]
  /\ serving = [id \in Ids |-> Nobody]
  /\ begun = 0

Want ==
  /\ wanted = inForce
  /\ wanted' \in [Ids -> Settings \cup {Absent}]
  /\ UNCHANGED <<inForce, serving, begun>>

(* What is wanted of id cannot be had with the connection it has. *)
Anew(id) ==
  \/ ~Runs(inForce[id])
  \/ inForce[id].connection # wanted[id].connection
  \/ inForce[id].insecure # wanted[id].insecure

Changes(id) ==
  /\ wanted[id] # inForce[id]
  /\ inForce' = [inForce EXCEPT ![id] = wanted[id]]
  /\ UNCHANGED wanted

Switch(id) ==
  /\ Changes(id)
  /\ Runs(wanted[id])
  /\ Anew(id)
  /\ begun' = begun + 1
  /\ serving' = [serving EXCEPT ![id] = begun']

Disable(id) ==
  /\ Changes(id)
  /\ wanted[id] # Absent /\ wanted[id].disabled
  /\ serving' = [serving EXCEPT ![id] = Nobody]
  /\ UNCHANGED begun

(* Sources that are gone, one at a time or several at once. *)
Retire(ids) ==
  /\ \A id \in ids : wanted[id] = Absent
  /\ inForce' = [id \in Ids |-> IF id \in ids THEN Absent ELSE inForce[id]]
  /\ serving' = [id \in Ids |-> IF id \in ids THEN Nobody ELSE serving[id]]
  /\ UNCHANGED <<wanted, begun>>

Next ==
  \/ Want
  \/ \E id \in Ids : Switch(id) \/ Disable(id)
  \/ \E ids \in (SUBSET Ids) \ {{}} : Retire(ids)

Spec == Init /\ [][Next]_vars
=============================================================================
