---------------------------- MODULE MCTelemetry ----------------------------
(* Telemetry with one source, added up to three times, and one client. *)
EXTENDS Telemetry
=============================================================================
