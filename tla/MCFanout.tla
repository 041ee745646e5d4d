------------------------------ MODULE MCFanout ------------------------------
(***************************************************************************)
(* Fanout on small instances.                                              *)
(***************************************************************************)
EXTENDS Fanout, TLC

CONSTANTS s1, s2, ra, rb, t1, t2, t3, raw, mux, jaq

(* One source with one task, and a client with transforming options. *)
OneSource    == [r \in Runtimes |-> s1]
TwoFrames    == [r \in Runtimes |-> 2]
OneRuntime   == [t \in Tasks |-> ra]
NoFilter     == [c \in MuxClients |-> {}]

(* The task of s1 is respawned, so two of its tasks publish at once; s2    *)
(* has one message, and the client asks for s1 only.                       *)
TwoSources   == [r \in Runtimes |-> IF r = rb THEN s2 ELSE s1]
OneRespawned == [t \in Tasks |-> IF t = t3 THEN rb ELSE ra]
TwoAndOne    == [r \in Runtimes |-> IF r = rb THEN 1 ELSE 2]
OnlyFirst    == [c \in MuxClients |-> {s1}]

(* The two tasks of source s1 are alike.  (For safety only.) *)
Respawns == Permutations({t1, t2})
=============================================================================
