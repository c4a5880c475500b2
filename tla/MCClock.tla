------------------------------ MODULE MCClock ------------------------------
(***************************************************************************)
(* Small instances of DurableClock for TLC.                                *)
(***************************************************************************)
EXTENDS DurableClock, TLC

CONSTANTS r1, r2

TwoRequests == {r1, r2}
MCBoots == 1..2

Symmetry == Permutations(TwoRequests)
=============================================================================
