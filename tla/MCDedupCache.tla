---------------------------- MODULE MCDedupCache ----------------------------
(***************************************************************************)
(* DedupCache on small instances: two hashes, windows of two or three      *)
(* ticks, traffic gaps below and above the window.                         *)
(***************************************************************************)
EXTENDS DedupCache
=============================================================================
