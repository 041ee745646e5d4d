------------------------------ MODULE MCReload ------------------------------
(***************************************************************************)
(* Reload on a small instance: config.toml has two versions with different *)
(* tokens, each with a sources file of its own, and the second is refused  *)
(* with one content of it.                                                 *)
(***************************************************************************)
EXTENDS Reload, TLC

CONSTANTS c1, c2, s1, s2, p1, p2, t1, t2, q1, q2, h1

OwnPath  == c1 :> p1 @@ c2 :> p2
SamePath == c1 :> p1 @@ c2 :> p1
OwnToken == c1 :> t1 @@ c2 :> t2
OneOff   == c1 :> t1 @@ c2 :> Off
Refusals == {<<c2, s2>>}
=============================================================================
