------------------------------- MODULE MCBind -------------------------------
(***************************************************************************)
(* Two starts of one service that overlap.                                 *)
(***************************************************************************)
EXTENDS EndpointBind

FreshPids == [a |-> "p1", b |-> "p2"]
=============================================================================
