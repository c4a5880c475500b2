------------------------ MODULE CheckpointRefinement ------------------------
(***************************************************************************)
(* CheckpointStore implements PeerHeadRegister while power does not fail.  *)
(* The retained position is the greatest sequence in the directory; an     *)
(* equal-sequence handover changes the key and not the position, so it is  *)
(* a stuttering step of the register.                                      *)
(***************************************************************************)
EXTENDS CheckpointStore

PositionOf(h) == [seq |-> h.seq, hash |-> h.hash]

ASSUME PositionsAssumption == \A h \in Heads : PositionOf(h) # NoHead

\* A head of the service that no record D holds of it exceeds.
IsNewest(D, svc, h) ==
  /\ h \in OfService(D, svc)
  /\ \A g \in OfService(D, svc) : g.seq <= h.seq

NewestOf(R) == CHOOSE h \in R : \A g \in R : g.seq <= h.seq

Position(D, svc) ==
  IF OfService(D, svc) = {} THEN NoHead ELSE PositionOf(NewestOf(OfService(D, svc)))

Reported ==
  IF answer = NoAnswer \/ answer.retained = NoHead THEN NoHead
  ELSE [svc |-> answer.retained.svc, at |-> PositionOf(answer.retained)]

Register == INSTANCE PeerHeadRegister WITH
  Positions <- {PositionOf(h) : h \in Heads},
  None <- NoHead,
  position <- [svc \in Services |-> Position(dir, svc)],
  report <- Reported

\* The store keeps the sink contract ("preserve the monotonic, independently
\* retained peer head contract or return an error"): whatever its processes do,
\* callers see one register per peer that only moves forward.
ImplementsRegister == Register!Spec
=============================================================================
