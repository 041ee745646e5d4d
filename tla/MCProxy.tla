------------------------------- MODULE MCProxy -------------------------------
(***************************************************************************)
(* Proxy and Reconnect with a slow and a fast policy, one whose offline    *)
(* delay is one of the delays of its backoff, and answers around a limit   *)
(* of four pieces.                                                         *)
(***************************************************************************)
EXTENDS Proxy

Policy(initial, max, threshold, off) ==
  [initial_delay |-> initial, max_delay |-> max,
   offline_threshold |-> threshold, offline_delay |-> off]

SlowFast == {Policy(1, 3, 8, 5), Policy(2, 3, 2, 6), Policy(1, 8, 9, 4)}

SomeAnswers ==
  {<<"200", "eol", "eol", "early">>, <<"200", "via", "eol", "eol">>,
   <<"200", "via", "via", "eol", "eol">>, <<"407", "eol", "eol">>,
   <<"200", "eol">>, <<"200", "latin1", "eol", "eol">>}
=============================================================================
