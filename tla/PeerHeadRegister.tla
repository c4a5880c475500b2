-------------------------- MODULE PeerHeadRegister --------------------------
(***************************************************************************)
(* What the checkpoint sink promises its callers, whatever the number of   *)
(* stores, their caches, keys and locks: per peer service one journal      *)
(* position that only ever moves forward, never to another hash at the     *)
(* same sequence, and every position reported to a caller is the one       *)
(* retained at that moment.                                                *)
(***************************************************************************)
EXTENDS Naturals

CONSTANTS
  Services,   \* peer services
  Positions,  \* journal positions [seq, hash]
  None        \* no position: nothing retained, nothing reported

VARIABLES
  position,   \* the retained position of each service
  report      \* the position the last step reported, [svc, at], or None

vars == <<position, report>>

Init ==
  /\ position = [svc \in Services |-> None]
  /\ report = None

\* Retain a newer position of the service.
Retain(svc, pos) ==
  /\ position[svc] # None => position[svc].seq < pos.seq
  /\ position' = [position EXCEPT ![svc] = pos]
  /\ report' = None

\* Report the retained position of the service.
Report(svc) ==
  /\ position[svc] # None
  /\ report' = [svc |-> svc, at |-> position[svc]]
  /\ UNCHANGED position

\* A call that reports nothing.
Silent == report' = None /\ UNCHANGED position

Next ==
  \/ \E svc \in Services : Report(svc) \/ \E pos \in Positions : Retain(svc, pos)
  \/ Silent

Spec == Init /\ [][Next]_vars
=============================================================================
