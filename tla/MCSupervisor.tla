---------------------------- MODULE MCSupervisor ----------------------------
(***************************************************************************)
(* Supervisor on small instances: source a comes and goes, is disabled and *)
(* changes its url; source b has no task, and may be listed or not.        *)
(***************************************************************************)
EXTENDS Supervisor

CONSTANTS a, b, x, y

On(conn)  == [connection |-> conn, disabled |-> FALSE]
Off(conn) == [connection |-> conn, disabled |-> TRUE]

Pair(of_a, of_b) == [id \in Ids |-> IF id = a THEN of_a ELSE of_b]

AnyMove == {Pair(Absent, Off(x)), Pair(On(x), Off(x)),
            Pair(On(y), Absent), Pair(Off(x), Absent)}

OnOff   == {Pair(On(x), Off(x)), Pair(Off(x), Off(x))}
OnGone  == {Pair(On(x), Off(x)), Pair(Absent, Off(x))}
=============================================================================
