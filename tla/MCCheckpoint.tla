---------------------------- MODULE MCCheckpoint ----------------------------
(***************************************************************************)
(* Small instances of CheckpointStore for TLC.                             *)
(***************************************************************************)
EXTENDS CheckpointRefinement, TLC

CONSTANTS p1, p2

MCStores == {p1, p2}
OneStore == {p1}
Signer == "signer"
OnlySigner == {Signer}

Head(svc, seq, hash, key) ==
  [svc |-> svc, seq |-> seq, hash |-> hash, key |-> key, sig |-> TRUE]

S(seq, hash, key) == Head(Signer, seq, hash, key)

Handover(old, new, seq, hash) ==
  [svc |-> Signer, old |-> old, new |-> new, seq |-> seq, hash |-> hash]

PinSet(currentKey, oldKeys, handovers) ==
  [current |-> {[svc |-> Signer, key |-> currentKey]},
   historical |-> {[svc |-> Signer, key |-> k] : k \in oldKeys},
   handovers |-> handovers]

\* Key 2 hands over to key 1 at sequence 1, against the order of the names.
Rotation == <<PinSet(2, {}, {}), PinSet(1, {2}, {Handover(2, 1, 1, "x")})>>

\* Heads on both sides of that handover, and a fork at sequence 1.
SharingHeads == {S(1, "x", 2), S(2, "y", 2), S(1, "x", 1), S(1, "f", 1), S(2, "z", 1)}

NoMishap == [m \in Mishaps |-> 0]
Allow(n, kinds) == [m \in Mishaps |-> IF m \in kinds THEN n ELSE 0]

\* A process dies inside a call, or an fsync fails; power need not even fail.
TornBudget == Allow(1, {"crash", "io"})
TornHeads == {S(1, "x", 1), S(2, "y", 1)}

\* Two handovers at one journal position; key 1 sorts before keys 2 and 3, so
\* the names disagree with the order of the handovers 2 -> 3 -> 1.
TwiceRotated ==
  <<PinSet(2, {}, {}),
    PinSet(3, {2}, {Handover(2, 3, 1, "x")}),
    PinSet(1, {2, 3}, {Handover(2, 3, 1, "x"), Handover(3, 1, 1, "x")})>>
TwiceHeads == {S(1, "x", 1), S(1, "x", 2), S(1, "x", 3), S(2, "y", 1)}

\* The directory stamp is too coarse to tell two links apart.
CoarseHeads == {S(1, "x", 1), S(2, "y", 1), S(2, "f", 1)}
CoarseConfigs == <<PinSet(1, {}, {})>>

SharingBudget == Allow(1, {"crash", "io"})
CoarseBudget == Allow(1, {"crash", "damage"})

Symmetry == Permutations(MCStores)
=============================================================================
