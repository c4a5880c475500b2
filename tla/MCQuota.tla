------------------------------ MODULE MCQuota ------------------------------
(***************************************************************************)
(* Small instances of EndpointQuota for TLC.                               *)
(***************************************************************************)
EXTENDS EndpointQuota, TLC

CONSTANTS r1, r2, r3, r4

MCRequests == {r1, r2, r3, r4}
MCReadOnly == {r4}
MCLimit == [g \in Gates |-> IF g = "request" THEN 2 ELSE 1]
MCWindow == [g \in Gates |-> IF g = "request" THEN 4 ELSE 3]

Symmetry == Permutations({r1, r2, r3})
=============================================================================
