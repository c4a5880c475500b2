------------------------------ MODULE MCOutage ------------------------------
(***************************************************************************)
(* An instance of CheckpointStore for TLC; two views of it are explored.   *)
(***************************************************************************)
EXTENDS MCCheckpoint

Broker == "broker"
Stranger == "stranger"
AnyService == {Signer, Broker, Stranger}

\* Two pinned peers.  Before the handover is installed whole comes a pin set that
\* contradicts itself: its handover names a key that it does not pin.
PeerPins(currentKey, oldKeys, handovers) ==
  [PinSet(currentKey, oldKeys, handovers) EXCEPT
     !.current = @ \cup {[svc |-> Broker, key |-> 1]}]
PeerConfigs ==
  <<PeerPins(2, {}, {}),
    PeerPins(1, {}, {Handover(2, 1, 1, "x")}),
    PeerPins(1, {2}, {Handover(2, 1, 1, "x")})>>

\* Heads on both sides of the handover with a fork, and those of another peer, of a
\* stranger, and with a signature that is not the signer's.
SignerHeads == {S(1, "x", 2), S(1, "f", 2), S(2, "y", 2), S(1, "x", 1), S(2, "z", 1)}
PeerHeads ==
  SignerHeads \cup {Head(Broker, 1, "b", 1), Head(Stranger, 1, "s", 1),
                    [S(1, "x", 2) EXCEPT !.sig = FALSE]}

\* Power fails twice, or a record is damaged, but no process dies inside a call and no
\* call fails.
PeerBudget == [NoMishap EXCEPT !["power"] = 2, !["damage"] = 1]

\* Two stores and one peer, while power fails.
Outage ==
  /\ left["damage"] = Budget["damage"]
  /\ dir \subseteq SignerHeads /\ \A p \in Stores : arg[p] \in SignerHeads \cup {NoHead}

\* One store at a time and every peer, while a record is damaged.
Peers ==
  /\ left["power"] = Budget["power"]
  /\ \A p, q \in Stores : pc[p] # "closed" /\ pc[q] # "closed" => p = q

\* The states to go on from; whatever either view reaches may go on in the other.
InView == Outage \/ Peers
=============================================================================
