-------------------- MODULE CheckpointRefinementProofs --------------------
(***************************************************************************)
(* CheckpointStore implements PeerHeadRegister in every instance in which  *)
(* each link changes the directory stamp and power does not fail.          *)
(***************************************************************************)
EXTENDS CheckpointRefinement, CheckpointStoreProofs

NoOutage == left["power"] = 0

LEMMA NoOutageInv ==
  ASSUME Budget["power"] = 0
  PROVE  /\ Init => NoOutage
         /\ TypeOK /\ NoOutage /\ [Next]_vars => NoOutage'
<1>1. Init => NoOutage
  BY DEF Init, NoOutage
<1>2. ASSUME TypeOK, NoOutage, [Next]_vars PROVE NoOutage'
  <2>1. ASSUME NEW m \in {"crash", "power", "io", "damage"}, Spend(m) PROVE NoOutage'
    BY <1>2, <2>1 DEF Spend, NoOutage, TypeOK, Mishaps
  <2>2. ASSUME UNCHANGED left PROVE NoOutage'
    BY <1>2, <2>2 DEF NoOutage
  <2>3. UNCHANGED left \/ \E m \in {"crash", "power", "io", "damage"} : Spend(m)
    BY <1>2 DEF Next, vars, StoreStep, OpenBegin, OpenMalformed, OpenScan, AppendBegin,
       RescanRefused, DecideRefuse, DecideAlreadyPresent, Prepare, Link, LinkExists, Sync,
       PublishFails, Settle, Finalize, Latest, Exit, Crash, Rotate, PowerFail, Damage
  <2>. QED  BY <2>1, <2>2, <2>3
<1>. QED  BY <1>1, <1>2

(***************************************************************************)
(* Positions.                                                              *)
(***************************************************************************)
\* In a directory without forks every newest head has the same position.
LEMMA PositionIs ==
  ASSUME NEW D \in SUBSET Heads, NEW svc, NEW h, IsNewest(D, svc, h),
         \A a, b \in D : a.svc = b.svc /\ a.seq = b.seq => a.hash = b.hash
  PROVE  Position(D, svc) = PositionOf(h) /\ Position(D, svc) # NoHead
<1> DEFINE m == NewestOf(OfService(D, svc))
<1>1. h \in D /\ h \in OfService(D, svc)
  BY DEF IsNewest, OfService
<1>2. m \in D /\ IsNewest(D, svc, m)
  <2>1. m \in OfService(D, svc) /\ \A g \in OfService(D, svc) : g.seq <= m.seq
    BY <1>1 DEF NewestOf, IsNewest
  <2>. QED  BY <2>1 DEF IsNewest, OfService
<1>3. /\ m.svc = svc /\ h.svc = svc /\ m.seq \in Nat /\ h.seq \in Nat
      /\ m.seq <= h.seq /\ h.seq <= m.seq
  BY <1>1, <1>2, HeadsAssumption DEF IsNewest, OfService
<1>4. m.seq = h.seq /\ m.hash = h.hash
  BY <1>1, <1>2, <1>3
<1>5. Position(D, svc) = PositionOf(m)
  BY <1>1 DEF Position
<1>. QED  BY <1>1, <1>4, <1>5, PositionsAssumption DEF PositionOf

LEMMA PositionNone ==
  ASSUME NEW D, NEW svc, OfService(D, svc) = {}
  PROVE  Position(D, svc) = NoHead
BY DEF Position

\* A true cache names newest heads.
LEMMA CachedNewest ==
  ASSUME NEW D \in SUBSET Heads, NEW svc \in Services, NEW latest, Newest(D, latest),
         latest[svc] # NoHead
  PROVE  IsNewest(D, svc, latest[svc])
BY DEF Newest, IsNewest

\* Whatever a step reports is a newest head of the directory it leaves behind.
ReportsNewest ==
  \/ Reported' = NoHead
  \/ \E svc \in Services, h \in Heads :
       IsNewest(dir', svc, h) /\ Reported' = [svc |-> svc, at |-> PositionOf(h)]

LEMMA ReportNone ==
  ASSUME NEW p, NEW h, NEW o, answer' = NoAnswer \/ Answer(p, h, o, NoHead)
  PROVE  ReportsNewest
BY DEF ReportsNewest, Reported, Answer

LEMMA ReportHead ==
  ASSUME NEW p, NEW h, NEW o, NEW r, Answer(p, h, o, r), NEW svc \in Services,
         dir' \in SUBSET Heads, r = NoHead \/ IsNewest(dir', svc, r)
  PROVE  ReportsNewest
<1>1. CASE r = NoHead
  BY <1>1, ReportNone
<1>2. CASE IsNewest(dir', svc, r)
  <2>1. r \in Heads /\ r.svc = svc
    BY <1>2 DEF IsNewest, OfService
  <2>2. Reported' = NoHead \/ Reported' = [svc |-> svc, at |-> PositionOf(r)]
    BY <2>1 DEF Reported, Answer
  <2>. QED  BY <1>2, <2>1, <2>2 DEF ReportsNewest
<1>. QED  BY <1>1, <1>2

LEMMA AppendingFacts ==
  ASSUME IInv, NEW p \in Stores, pc[p] \in Appending
  PROVE  /\ arg[p] \in Heads /\ arg[p].svc \in Services /\ arg[p] # NoHead
         /\ dir \in SUBSET Heads
         /\ pc[p] = "decide" => Tail(p) = NoHead \/ IsNewest(dir, arg[p].svc, Tail(p))
         /\ pc[p] = "publish" => Tail(p) = NoHead \/ IsNewest(dir, arg[p].svc, Tail(p))
         /\ pc[p] = "settle" => IsNewest(dir, arg[p].svc, arg[p])
         /\ pc[p] = "finalize" => IsNewest(dir, arg[p].svc, arg[p])
<1>1. arg[p] \in Heads /\ arg[p].svc \in Services /\ arg[p] # NoHead /\ dir \in SUBSET Heads
  BY HeadsAssumption DEF IInv, TypeOK
<1>2. ASSUME pc[p] \in {"decide", "publish"}
      PROVE  Tail(p) = NoHead \/ IsNewest(dir, arg[p].svc, Tail(p))
  <2>1. Newest(dir, cache[p].latest)
    BY <1>2 DEF IInv, StoreInv, DecidesFresh, CacheTrue
  <2>. QED  BY <1>1, <2>1, CachedNewest DEF Tail
<1>3. ASSUME pc[p] = "settle" PROVE IsNewest(dir, arg[p].svc, arg[p])
  <2>1. arg[p] \in dir /\ \A g \in dir : Continues(g, arg[p])
    BY <1>3 DEF IInv, StoreInv, SettlesNewest
  <2>2. \A g \in Heads : g.seq \in Nat
    BY HeadsAssumption
  <2>. QED  BY <1>1, <2>1, <2>2 DEF Continues, IsNewest, OfService
<1>4. ASSUME pc[p] = "finalize" PROVE IsNewest(dir, arg[p].svc, arg[p])
  <2>1. Newest(dir, [cache[p].latest EXCEPT ![arg[p].svc] = arg[p]])
    BY <1>4 DEF IInv, StoreInv, LinkedNewest
  <2>2. [cache[p].latest EXCEPT ![arg[p].svc] = arg[p]][arg[p].svc] = arg[p]
    BY <1>1 DEF IInv, TypeOK
  <2>. QED  BY <1>1, <2>1, <2>2, CachedNewest
<1>. QED  BY <1>1, <1>2, <1>3, <1>4

LEMMA StepReports ==
  ASSUME IInv, TypeOK', NEW p \in Stores, StoreStep(p)
  PROVE  ReportsNewest
<1>0. dir \in SUBSET Heads /\ dir' \in SUBSET Heads
  BY DEF IInv, TypeOK
<1>1. CASE OpenBegin(p) \/ OpenMalformed(p) \/ Link(p) \/ Sync(p)
           \/ PublishFails(p) \/ Exit(p) \/ Crash(p)
  BY <1>1, ReportNone DEF OpenBegin, OpenMalformed, Link, Sync, PublishFails, Exit, Crash
<1>2. CASE OpenScan(p)
  BY <1>2, ReportNone DEF OpenScan, OpenAccept, OpenRescan, OpenGiveUp, OpenReject
<1>3. ASSUME NEW h \in Heads, AppendBegin(p, h) PROVE ReportsNewest
  BY <1>3, ReportNone DEF AppendBegin
<1>4. ASSUME NEW h \in Heads \cup {NoHead}, RescanRefused(p, h) PROVE ReportsNewest
  BY <1>4, ReportNone DEF RescanRefused, ReconcileFails
<1>5. CASE DecideRefuse(p) \/ DecideAlreadyPresent(p) \/ Prepare(p)
  <2>1. pc[p] = "decide" /\ dir' = dir
    BY <1>5 DEF DecideRefuse, DecideAlreadyPresent, Prepare, disk
  <2>2. /\ arg[p].svc \in Services
        /\ Tail(p) = NoHead \/ IsNewest(dir', arg[p].svc, Tail(p))
    BY <2>1, AppendingFacts DEF Appending
  <2>3. \/ answer' = NoAnswer
        \/ \E o : Answer(p, arg[p], o, NoHead)
        \/ \E o : Answer(p, arg[p], o, Tail(p))
    BY <1>5 DEF DecideRefuse, RefuseTail, RefuseNotLive, RefuseStale,
       DecideAlreadyPresent, Prepare
  <2>. QED  BY <1>0, <2>2, <2>3, ReportNone, ReportHead
<1>6. CASE LinkExists(p)
  BY <1>6, ReportNone DEF LinkExists
<1>7. CASE Settle(p) \/ Finalize(p)
  <2>1. pc[p] \in {"settle", "finalize"} /\ dir' = dir
    BY <1>7 DEF Settle, Finalize, disk
  <2>2. arg[p].svc \in Services /\ IsNewest(dir', arg[p].svc, arg[p])
    BY <2>1, AppendingFacts DEF Appending
  <2>3. \/ \E o : Answer(p, arg[p], o, NoHead)
        \/ \E o : Answer(p, arg[p], o, arg[p])
    BY <1>7 DEF Settle, Finalize, ReconcileFails
  <2>. QED  BY <1>0, <2>2, <2>3, ReportNone, ReportHead
<1>8. ASSUME NEW svc \in Services, Latest(p, svc) PROVE ReportsNewest
  <2>1. dir' = dir /\ pc[p] = "idle"
    BY <1>8 DEF Latest, disk
  <2>2. CASE CacheFresh(p)
    <3>1. Newest(dir, cache[p].latest)
      BY <2>1, <2>2 DEF CacheFresh, IInv, StoreInv, CacheTrue
    <3>2. cache[p].latest[svc] = NoHead \/ IsNewest(dir', svc, cache[p].latest[svc])
      BY <1>0, <2>1, <3>1, CachedNewest
    <3>3. \/ \E o : Answer(p, NoHead, o, NoHead)
          \/ \E o : Answer(p, NoHead, o, cache[p].latest[svc])
      BY <1>8, <2>2 DEF Latest
    <3>. QED  BY <1>0, <3>2, <3>3, ReportNone, ReportHead
  <2>3. CASE ~ CacheFresh(p)
    <3>1. Reconcile(p) /\ Answer(p, NoHead, "Latest", cache'[p].latest[svc])
      BY <1>8, <2>3 DEF Latest
    <3>2. Newest(dir, cache'[p].latest)
      BY <3>1, ReconcileNewest DEF IInv
    <3>3. cache'[p].latest[svc] = NoHead \/ IsNewest(dir', svc, cache'[p].latest[svc])
      BY <1>0, <2>1, <3>2, CachedNewest
    <3>. QED  BY <1>0, <3>1, <3>3, ReportHead
  <2>. QED  BY <2>2, <2>3
<1>. QED  BY <1>1, <1>2, <1>3, <1>4, <1>5, <1>6, <1>7, <1>8 DEF StoreStep

(***************************************************************************)
(* Steps map to steps.                                                     *)
(***************************************************************************)
PositionsNow == [svc \in Services |-> Position(dir, svc)]

\* A step that leaves the directory alone and reports a newest head, or none.
LEMMA SameDirectory ==
  ASSUME IInv, dir' = dir, ReportsNewest
  PROVE  Register!Next
<1>1. UNCHANGED PositionsNow
  BY DEF PositionsNow
<1>2. CASE Reported' = NoHead
  BY <1>1, <1>2 DEF Register!Next, Register!Silent, PositionsNow
<1>3. ASSUME NEW svc \in Services, NEW h \in Heads, IsNewest(dir', svc, h),
             Reported' = [svc |-> svc, at |-> PositionOf(h)]
      PROVE  Register!Next
  <2>1. Position(dir, svc) = PositionOf(h) /\ Position(dir, svc) # NoHead
    BY <1>3, PositionIs DEF IInv, TypeOK, NoFork
  <2>2. Register!Report(svc)
    BY <1>1, <1>3, <2>1 DEF Register!Report, PositionsNow
  <2>. QED  BY <2>2 DEF Register!Next
<1>. QED  BY <1>2, <1>3 DEF ReportsNewest

LEMMA InitMaps == Init => Register!Init
<1> SUFFICES ASSUME Init PROVE Register!Init
  OBVIOUS
<1>1. \A svc \in Services : Position(dir, svc) = NoHead
  BY DEF Init, Position, OfService
<1>2. Reported = NoHead
  BY DEF Init, Reported
<1>. QED  BY <1>1, <1>2 DEF Register!Init

LEMMA LinkMaps ==
  ASSUME IInv, IInv', NEW p \in Stores, Link(p)
  PROVE  Register!Next
<1> DEFINE h == arg[p]
           svc == h.svc
           pos == PositionOf(h)
<1>1. pc[p] = "publish" /\ dir' = dir \cup {h} /\ answer' = NoAnswer
  BY DEF Link
<1>2. /\ h \in Heads /\ svc \in Services /\ h.seq \in Nat
      /\ dir \in SUBSET Heads /\ dir' \in SUBSET Heads
  BY <1>1, AppendingFacts, HeadsAssumption DEF Appending, IInv, TypeOK
<1>3. Reported' = NoHead
  BY <1>1 DEF Reported
<1>4. \A g \in dir : Continues(g, h)
  BY <1>1, PublishContinues
<1>5. Position(dir', svc) = pos
  <2>1. IsNewest(dir', svc, h)
    <3>1. \A g \in Heads : g.seq \in Nat
      BY HeadsAssumption
    <3>. QED  BY <1>1, <1>2, <1>4, <3>1 DEF IsNewest, OfService, Continues
  <2>. QED  BY <1>2, <2>1, PositionIs DEF IInv, NoFork
<1>6. ASSUME NEW s \in Services, s # svc
      PROVE  Position(dir', s) = Position(dir, s)
  <2>1. OfService(dir', s) = OfService(dir, s)
    BY <1>1, <1>6 DEF OfService
  <2>. QED  BY <2>1 DEF Position
<1>7. PositionsNow' = [PositionsNow EXCEPT ![svc] = pos]
  BY <1>2, <1>5, <1>6 DEF PositionsNow
<1>8. CASE Position(dir, svc) = NoHead
  <2>1. Register!Retain(svc, pos)
    BY <1>2, <1>3, <1>7, <1>8 DEF Register!Retain, PositionsNow
  <2>. QED  BY <1>2, <2>1 DEF Register!Next
<1>9. CASE Position(dir, svc) # NoHead
  <2>1. IsNewest(dir, svc, Tail(p))
    <3>1. OfService(dir, svc) # {}
      BY <1>9 DEF Position
    <3>2. Tail(p) # NoHead
      <4>1. Newest(dir, cache[p].latest)
        BY <1>1 DEF IInv, StoreInv, DecidesFresh, CacheTrue
      <4>2. Tail(p) \in Heads
        BY <1>2, <3>1, <4>1 DEF Newest, Tail, OfService
      <4>. QED  BY <4>2, HeadsAssumption
    <3>. QED  BY <1>1, <3>2, AppendingFacts DEF Appending
  <2>2. Position(dir, svc) = PositionOf(Tail(p)) /\ Tail(p) \in dir /\ Tail(p).svc = svc
    BY <1>2, <2>1, PositionIs DEF IInv, NoFork, IsNewest, OfService
  <2>3. \/ Tail(p).seq < h.seq
        \/ Tail(p).seq = h.seq /\ Tail(p).hash = h.hash
    BY <1>4, <2>2 DEF Continues
  <2>4. CASE Tail(p).seq < h.seq
    <3>1. Position(dir, svc).seq < pos.seq
      BY <2>2, <2>4 DEF PositionOf
    <3>2. Register!Retain(svc, pos)
      BY <1>2, <1>3, <1>7, <3>1 DEF Register!Retain, PositionsNow
    <3>. QED  BY <1>2, <3>2 DEF Register!Next
  <2>5. CASE Tail(p).seq = h.seq /\ Tail(p).hash = h.hash
    <3>1. Position(dir, svc) = pos
      BY <2>2, <2>5 DEF PositionOf
    <3>2. PositionsNow' = PositionsNow
      BY <1>2, <1>7, <3>1 DEF PositionsNow
    <3>. QED  BY <1>3, <3>2 DEF Register!Next, Register!Silent, PositionsNow
  <2>. QED  BY <2>3, <2>4, <2>5
<1>. QED  BY <1>8, <1>9

LEMMA StepMaps ==
  ASSUME CoarseStamps = FALSE, Budget["power"] = 0,
         IInv, NoOutage, [Next]_vars
  PROVE  [Register!Next]_<<PositionsNow, Reported>>
<1>0. IInv' /\ TypeOK'
  BY NextInv DEF IInv
<1>1. ASSUME NEW p \in Stores, StoreStep(p) PROVE Register!Next
  <2>1. CASE Link(p)
    BY <1>0, <2>1, LinkMaps
  <2>2. CASE dir' = dir
    BY <1>0, <1>1, <2>2, StepReports, SameDirectory
  <2>3. Link(p) \/ dir' = dir
    BY <1>1 DEF StoreStep, OpenBegin, OpenMalformed, OpenScan, AppendBegin, RescanRefused,
       DecideRefuse, DecideAlreadyPresent, Prepare, LinkExists, Sync, PublishFails, Settle,
       Finalize, Latest, Exit, Crash, disk
  <2>. QED  BY <2>1, <2>2, <2>3
<1>2. CASE Rotate \/ Damage
  <2>1. dir' = dir /\ answer' = NoAnswer
    BY <1>2 DEF Rotate, Damage, disk
  <2>2. ReportsNewest
    BY <2>1 DEF ReportsNewest, Reported
  <2>. QED  BY <2>1, <2>2, SameDirectory
<1>3. CASE PowerFail
  BY <1>3 DEF PowerFail, Spend, NoOutage
<1>4. CASE UNCHANGED vars
  BY <1>4 DEF vars, disk, PositionsNow, Reported
<1>. QED  BY <1>1, <1>2, <1>3, <1>4 DEF Next

\* The store, with all its caches, processes, locks and key generations,
\* implements one register per peer that only moves forward and that reports
\* only what it retains, when every link changes the stamp and power holds.
THEOREM StoreImplementsRegister ==
  ASSUME CoarseStamps = FALSE, Budget["power"] = 0
  PROVE  Spec => ImplementsRegister
<1>1. Init => IInv /\ NoOutage /\ Register!Init
  BY InitInv, InitMaps, NoOutageInv
<1>2. IInv /\ NoOutage /\ [Next]_vars => IInv' /\ NoOutage'
  BY NextInv, NoOutageInv DEF IInv
<1>3. IInv /\ NoOutage /\ [Next]_vars => [Register!Next]_(Register!vars)
  BY StepMaps DEF Register!vars, PositionsNow
<1>. QED  BY <1>1, <1>2, <1>3, PTL DEF Spec, ImplementsRegister, Register!Spec
=============================================================================
