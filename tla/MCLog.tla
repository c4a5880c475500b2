------------------------------- MODULE MCLog -------------------------------
(***************************************************************************)
(* A small instance of SecureLog for TLC: two events of one process.       *)
(***************************************************************************)
EXTENDS SecureLog

OneProcess == [e \in Events |-> "service"]
=============================================================================
