----------------------- MODULE CheckpointStoreProofs -----------------------
(***************************************************************************)
(* Theorems about CheckpointStore for every set of stores, heads and pin   *)
(* generations and every budget of mishaps.                                *)
(***************************************************************************)
EXTENDS CheckpointStore, FiniteSetTheorems, TLAPS

(***************************************************************************)
(* Facts about the scan.                                                   *)
(***************************************************************************)
\* latest names, for every service, a head of S that no other exceeds.
Newest(S, latest) ==
  \A svc \in Services :
    IF OfService(S, svc) = {} THEN latest[svc] = NoHead
    ELSE /\ latest[svc] \in OfService(S, svc)
         /\ \A g \in OfService(S, svc) : g.seq <= latest[svc].seq

\* A successful scan caches the newest head of every service, because whatever
\* ties the comparator leaves open it sorts by sequence.
LEMMA ScanNewest ==
  ASSUME NEW c, NEW S \in SUBSET Heads, NEW bad,
         NEW latest \in [Services -> S \cup {NoHead}],
         ScanOk(c, S, bad, latest)
  PROVE  Newest(S, latest)
<1> SUFFICES ASSUME NEW svc \in Services
             PROVE  IF OfService(S, svc) = {} THEN latest[svc] = NoHead
                    ELSE /\ latest[svc] \in OfService(S, svc)
                         /\ \A g \in OfService(S, svc) : g.seq <= latest[svc].seq
  BY DEF Newest
<1> DEFINE R == OfService(S, svc)
           n == Cardinality(R)
<1>1. ScanTail(c, S, svc, latest[svc])
  BY DEF ScanOk
<1>2. CASE R = {}
  BY <1>1, <1>2 DEF ScanTail
<1>3. CASE R # {}
  <2>1. PICK s \in Orders(c, R) : latest[svc] = s[n]
    BY <1>1, <1>3 DEF ScanTail
  <2>2. n \in Nat
    <3>1. R \subseteq Heads
      BY DEF OfService
    <3>2. IsFiniteSet(R)
      BY <3>1, FS_Subset, HeadsAssumption
    <3>. QED  BY <3>2, FS_CardinalityType
  <2>3. /\ s \in [1..n -> R]
        /\ \A h \in R : \E i \in 1..n : s[i] = h
        /\ \A i, j \in 1..n : i < j => s[i].seq <= s[j].seq
    BY <2>1 DEF Orders
  <2>4. n \in 1..n
    BY <1>3, <2>2, <2>3
  <2>5. s[n] \in R
    BY <2>3, <2>4
  <2>6. ASSUME NEW g \in R PROVE g.seq <= s[n].seq
    <3>1. PICK i \in 1..n : s[i] = g
      BY <2>3
    <3>2. CASE i < n
      BY <3>1, <3>2, <2>3, <2>4
    <3>3. CASE i = n
      <4>1. g.seq \in Nat
        BY HeadsAssumption DEF OfService
      <4>. QED  BY <3>1, <3>3, <4>1
    <3>. QED  BY <3>2, <3>3, <2>2
  <2>. QED  BY <1>3, <2>1, <2>5, <2>6
<1>. QED  BY <1>2, <1>3

LEMMA ErrorsAreOutcomes ==
  ASSUME NEW c, NEW S, NEW bad
  PROVE  ScanErrors(c, S, bad) \subseteq Outcomes
BY DEF ScanErrors, RetainedError, Outcomes

(***************************************************************************)
(* Type correctness.                                                       *)
(***************************************************************************)
LEMMA InitType == Init => TypeOK
<1> SUFFICES ASSUME Init PROVE TypeOK
  OBVIOUS
<1> USE ConfigsAssumption DEF Init
<1>1. cache \in [Stores -> [stamp : Nat, latest : [Services -> HeadOrNone]]]
  BY DEF EmptyCache, HeadOrNone
<1>2. snap \in [Stores -> [stamp : Nat, recs : SUBSET Heads, bad : SUBSET Heads]]
  BY DEF EmptySnap
<1>3. tries \in [Stores -> 0..ScanAttempts]
  BY DEF ScanAttempts
<1>4. arg \in [Stores -> HeadOrNone]
  BY DEF HeadOrNone
<1>. QED  BY <1>1, <1>2, <1>3, <1>4 DEF TypeOK, Appending

LEMMA TailType ==
  ASSUME TypeOK, NEW p \in Stores, pc[p] \in Appending
  PROVE  arg[p] \in Heads /\ Tail(p) \in HeadOrNone
BY HeadsAssumption DEF TypeOK, Tail

\* A cache filled from a scan of records is well typed.
LEMMA CacheType ==
  ASSUME TypeOK, NEW p \in Stores, NEW S \in SUBSET Heads,
         NEW latest \in [Services -> S \cup {NoHead}], Cache(p, stamp, latest)
  PROVE  cache' \in [Stores -> [stamp : Nat, latest : [Services -> HeadOrNone]]]
<1>1. latest \in [Services -> HeadOrNone]
  BY DEF HeadOrNone
<1>. QED  BY <1>1 DEF TypeOK, Cache

LEMMA ClosedType ==
  ASSUME TypeOK, NEW p \in Stores, Closed(p)
  PROVE  /\ pc' \in [Stores -> {"closed", "opening", "idle"} \cup Appending]
         /\ \A q \in Stores : pc'[q] \in Appending => arg'[q] \in Heads
         /\ cfg' \in [Stores -> DOMAIN Configs]
         /\ snap' \in [Stores -> [stamp : Nat, recs : SUBSET Heads, bad : SUBSET Heads]]
         /\ tries' \in [Stores -> 0..ScanAttempts]
         /\ cache' \in [Stores -> [stamp : Nat, latest : [Services -> HeadOrNone]]]
         /\ arg' \in [Stores -> HeadOrNone]
<1> USE ConfigsAssumption DEF Closed, Goto, TypeOK
<1>1. EmptyCache \in [stamp : Nat, latest : [Services -> HeadOrNone]]
  BY DEF EmptyCache, HeadOrNone
<1>2. EmptySnap \in [stamp : Nat, recs : SUBSET Heads, bad : SUBSET Heads]
  BY DEF EmptySnap
<1>3. NoHead \in HeadOrNone
  BY DEF HeadOrNone
<1>4. 0 \in 0..ScanAttempts
  BY DEF ScanAttempts
<1>5. "closed" \notin Appending
  BY DEF Appending
<1>. QED  BY <1>1, <1>2, <1>3, <1>4, <1>5

LEMMA DoneType ==
  ASSUME TypeOK, NEW p \in Stores, Done(p)
  PROVE  /\ pc' \in [Stores -> {"closed", "opening", "idle"} \cup Appending]
         /\ arg' \in [Stores -> HeadOrNone]
         /\ \A q \in Stores : pc'[q] \in Appending => arg'[q] \in Heads
<1>1. NoHead \in HeadOrNone /\ "idle" \notin Appending
  BY DEF HeadOrNone, Appending
<1>. QED  BY <1>1 DEF Done, Goto, TypeOK

\* Moving to another step of an append keeps the head being appended.
LEMMA GotoType ==
  ASSUME TypeOK, NEW p \in Stores, NEW to, Goto(p, to), UNCHANGED arg,
         to \in Appending => pc[p] \in Appending,
         to \in {"closed", "opening", "idle"} \cup Appending
  PROVE  /\ pc' \in [Stores -> {"closed", "opening", "idle"} \cup Appending]
         /\ \A q \in Stores : pc'[q] \in Appending => arg'[q] \in Heads
BY DEF Goto, TypeOK

LEMMA AnswerType ==
  ASSUME NEW p \in Stores, NEW h \in HeadOrNone, NEW r \in HeadOrNone,
         NEW o \in Outcomes, Answer(p, h, o, r)
  PROVE  answer' \in Answers \cup {NoAnswer}
BY DEF Answer, Answers

LEMMA SpendType ==
  ASSUME TypeOK, NEW m \in Mishaps, Spend(m)
  PROVE  left' \in [Mishaps -> Nat]
BY DEF Spend, TypeOK

LEMMA StepType ==
  ASSUME TypeOK, NEW p \in Stores, StoreStep(p)
  PROVE  TypeOK'
<1> USE DEF TypeOK
<1>0. NoHead \in HeadOrNone /\ Heads \subseteq HeadOrNone
  BY DEF HeadOrNone
<1>a. /\ "StorageOrConfigurationFailure" \in Outcomes /\ "SequenceConflict" \in Outcomes
      /\ "AlreadyPresent" \in Outcomes /\ "Appended" \in Outcomes /\ "Latest" \in Outcomes
      /\ "SequenceRollback" \in Outcomes /\ "InvalidSignature" \in Outcomes
      /\ "UnpinnedPeer" \in Outcomes
  BY DEF Outcomes
<1>b. /\ "decide" \in Appending /\ "publish" \in Appending /\ "sync" \in Appending
      /\ "settle" \in Appending /\ "finalize" \in Appending
      /\ "idle" \notin Appending /\ "opening" \notin Appending /\ "closed" \notin Appending
  BY DEF Appending
<1>1. CASE OpenBegin(p)
  <2>1. tries' \in [Stores -> 0..ScanAttempts]
    BY <1>1 DEF OpenBegin, StartScan, ScanAttempts
  <2>2. /\ snap' \in [Stores -> [stamp : Nat, recs : SUBSET Heads, bad : SUBSET Heads]]
        /\ cfg' \in [Stores -> DOMAIN Configs]
    BY <1>1 DEF OpenBegin, StartScan
  <2>. QED  BY <1>1, <1>b, <2>1, <2>2, GotoType DEF OpenBegin, disk
<1>2. CASE OpenMalformed(p)
  BY <1>2, <1>0, <1>a, AnswerType DEF OpenMalformed, disk, local
<1>3. CASE OpenScan(p)
  <2>1. PICK R \in Listings(p), bad \in Garbled(p) :
          \/ OpenAccept(p, R, bad) \/ OpenRescan(p, R, bad)
          \/ OpenGiveUp(p, R, bad) \/ OpenReject(p, R, bad)
    BY <1>3 DEF OpenScan
  <2>2. R \in SUBSET Heads
    BY DEF Listings
  <2>3. UNCHANGED <<disk, gen, acked, left>>
    BY <1>3 DEF OpenScan
  <2>4. CASE OpenAccept(p, R, bad)
    <3>1. cache' \in [Stores -> [stamp : Nat, latest : [Services -> HeadOrNone]]]
      BY <2>2, <2>4, CacheType DEF OpenAccept
    <3>2. /\ snap' \in [Stores -> [stamp : Nat, recs : SUBSET Heads, bad : SUBSET Heads]]
          /\ tries' \in [Stores -> 0..ScanAttempts]
      BY <2>4 DEF OpenAccept, EmptySnap, ScanAttempts
    <3>3. /\ pc' \in [Stores -> {"closed", "opening", "idle"} \cup Appending]
          /\ \A q \in Stores : pc'[q] \in Appending => arg'[q] \in Heads
      BY <2>4, <1>b, GotoType DEF OpenAccept
    <3>4. answer' = NoAnswer /\ UNCHANGED <<cfg, arg>>
      BY <2>4 DEF OpenAccept
    <3>. QED  BY <2>3, <3>1, <3>2, <3>3, <3>4 DEF disk
  <2>5. CASE OpenRescan(p, R, bad)
    <3>1. tries' \in [Stores -> 0..ScanAttempts]
      <4>1. tries[p] \in 0..3 /\ tries[p] < 3
        BY <2>5 DEF OpenRescan, MayRetry, ScanAttempts
      <4>2. tries[p] + 1 \in 0..3
        BY <4>1
      <4>. QED  BY <2>5, <4>2 DEF OpenRescan, StartScan, ScanAttempts
    <3>2. snap' \in [Stores -> [stamp : Nat, recs : SUBSET Heads, bad : SUBSET Heads]]
      BY <2>5 DEF OpenRescan, StartScan
    <3>. QED  BY <2>3, <2>5, <3>1, <3>2 DEF OpenRescan, disk
  <2>6. CASE OpenGiveUp(p, R, bad)
    <3>1. answer' \in Answers \cup {NoAnswer}
      BY <2>6, <1>0, <1>a, AnswerType DEF OpenGiveUp
    <3>. QED  BY <2>3, <2>6, <3>1, ClosedType DEF OpenGiveUp, disk
  <2>7. CASE OpenReject(p, R, bad)
    <3>1. PICK e \in Outcomes : Answer(p, NoHead, e, NoHead)
      BY <2>7, ErrorsAreOutcomes DEF OpenReject
    <3>2. answer' \in Answers \cup {NoAnswer}
      BY <3>1, <1>0, AnswerType
    <3>. QED  BY <2>3, <2>7, <3>2, ClosedType DEF OpenReject, disk
  <2>. QED  BY <2>1, <2>4, <2>5, <2>6, <2>7
<1>4. ASSUME NEW h \in Heads, AppendBegin(p, h) PROVE TypeOK'
  <2>1. cache' \in [Stores -> [stamp : Nat, latest : [Services -> HeadOrNone]]]
    <3>1. CASE UNCHANGED cache
      BY <3>1
    <3>2. CASE Reconcile(p)
      BY <3>2, CacheType DEF Reconcile
    <3>. QED  BY <1>4, <3>1, <3>2 DEF AppendBegin
  <2>2. /\ arg' \in [Stores -> HeadOrNone]
        /\ \A q \in Stores : pc'[q] \in Appending => arg'[q] \in Heads
        /\ pc' \in [Stores -> {"closed", "opening", "idle"} \cup Appending]
    BY <1>4, <1>0, <1>b DEF AppendBegin, Goto
  <2>. QED  BY <1>4, <2>1, <2>2 DEF AppendBegin, disk
<1>5. ASSUME NEW h \in Heads \cup {NoHead}, RescanRefused(p, h) PROVE TypeOK'
  <2>1. PICK e \in Outcomes : Answer(p, h, e, NoHead)
    BY <1>5, ErrorsAreOutcomes DEF RescanRefused, ReconcileFails
  <2>2. answer' \in Answers \cup {NoAnswer}
    BY <2>1, <1>0, AnswerType
  <2>. QED  BY <1>5, <2>2 DEF RescanRefused, disk, local
<1>6. CASE DecideRefuse(p)
  <2>1. arg[p] \in Heads /\ Tail(p) \in HeadOrNone
    BY <1>6, <1>b, TailType DEF DecideRefuse
  <2>2. PICK e \in Outcomes, r \in HeadOrNone : Answer(p, arg[p], e, r)
    BY <1>6, <2>1, <1>0, <1>a
       DEF DecideRefuse, RefuseTail, RefuseNotLive, RefuseStale, LiveError, StaleError
  <2>3. answer' \in Answers \cup {NoAnswer}
    BY <2>1, <2>2, <1>0, AnswerType
  <2>. QED  BY <1>6, <2>3, DoneType DEF DecideRefuse, disk
<1>7. CASE DecideAlreadyPresent(p)
  <2>1. arg[p] \in Heads /\ Tail(p) \in HeadOrNone
    BY <1>7, <1>b, TailType DEF DecideAlreadyPresent
  <2>2. answer' \in Answers \cup {NoAnswer}
    BY <1>7, <2>1, <1>0, <1>a, AnswerType DEF DecideAlreadyPresent
  <2>. QED  BY <1>7, <2>1, <2>2, DoneType DEF DecideAlreadyPresent, disk
<1>8. CASE Prepare(p)
  <2>1. arg[p] \in Heads /\ Tail(p) \in HeadOrNone
    BY <1>8, <1>b, TailType DEF Prepare
  <2>2. CASE Goto(p, "publish") /\ answer' = NoAnswer /\ UNCHANGED <<arg, left>>
    BY <1>8, <2>2, <1>b, GotoType DEF Prepare, disk
  <2>3. CASE /\ Spend("io") /\ Done(p)
             /\ Answer(p, arg[p], "StorageOrConfigurationFailure", Tail(p))
    <3>1. answer' \in Answers \cup {NoAnswer}
      BY <2>1, <2>3, <1>0, <1>a, AnswerType
    <3>2. left' \in [Mishaps -> Nat]
      BY <2>3, SpendType DEF Mishaps
    <3>. QED  BY <1>8, <2>3, <3>1, <3>2, DoneType DEF Prepare, disk
  <2>. QED  BY <1>8, <2>2, <2>3 DEF Prepare
<1>9. CASE Link(p)
  <2>1. arg[p] \in Heads
    BY <1>9, <1>b, TailType DEF Link
  <2>2. stamp' \in Nat
    BY <1>9 DEF Link
  <2>. QED  BY <1>9, <1>b, <2>1, <2>2, GotoType DEF Link
<1>10. CASE LinkExists(p)
  <2>1. arg[p] \in Heads
    BY <1>10, <1>b, TailType DEF LinkExists
  <2>2. CASE durable' = dir /\ Goto(p, "settle") /\ answer' = NoAnswer /\ UNCHANGED arg
    BY <1>10, <2>2, <1>b, GotoType DEF LinkExists
  <2>3. CASE /\ Answer(p, arg[p], "SequenceConflict", NoHead)
             /\ Done(p) /\ UNCHANGED durable
    <3>1. answer' \in Answers \cup {NoAnswer}
      BY <2>1, <2>3, <1>0, <1>a, AnswerType
    <3>. QED  BY <1>10, <2>3, <3>1, DoneType DEF LinkExists
  <2>. QED  BY <1>10, <2>2, <2>3 DEF LinkExists
<1>11. CASE Sync(p)
  BY <1>11, <1>b, GotoType DEF Sync
<1>12. CASE PublishFails(p)
  <2>1. arg[p] \in Heads
    BY <1>12, <1>b, TailType DEF PublishFails
  <2>2. answer' \in Answers \cup {NoAnswer}
    BY <1>12, <2>1, <1>0, <1>a, AnswerType DEF PublishFails
  <2>3. left' \in [Mishaps -> Nat]
    BY <1>12, SpendType DEF PublishFails, Mishaps
  <2>. QED  BY <1>12, <2>2, <2>3, DoneType DEF PublishFails, disk
<1>13. CASE Settle(p)
  <2>1. arg[p] \in Heads
    BY <1>13, <1>b, TailType DEF Settle
  <2>2. CASE /\ Reconcile(p)
             /\ Answer(p, arg[p], "AlreadyPresent", arg[p])
             /\ acked' = acked \cup {arg[p]}
    <3>1. cache' \in [Stores -> [stamp : Nat, latest : [Services -> HeadOrNone]]]
      BY <2>2, CacheType DEF Reconcile
    <3>2. answer' \in Answers \cup {NoAnswer}
      BY <2>1, <2>2, <1>0, <1>a, AnswerType
    <3>. QED  BY <1>13, <2>1, <2>2, <3>1, <3>2, DoneType DEF Settle, disk
  <2>3. CASE ReconcileFails(p, arg[p]) /\ UNCHANGED <<cache, acked>>
    <3>1. PICK e \in Outcomes : Answer(p, arg[p], e, NoHead)
      BY <2>3, ErrorsAreOutcomes DEF ReconcileFails
    <3>2. answer' \in Answers \cup {NoAnswer}
      BY <3>1, <2>1, <1>0, AnswerType
    <3>. QED  BY <1>13, <2>3, <3>2, DoneType DEF Settle, disk
  <2>. QED  BY <1>13, <2>2, <2>3 DEF Settle
<1>14. CASE Finalize(p)
  <2>1. arg[p] \in Heads /\ arg[p].svc \in Services
    BY <1>14, <1>b, TailType, HeadsAssumption DEF Finalize
  <2>2. CASE /\ Cache(p, stamp, [cache[p].latest EXCEPT ![arg[p].svc] = arg[p]])
             /\ Answer(p, arg[p], "Appended", arg[p])
             /\ acked' = acked \cup {arg[p]}
    <3>1. [cache[p].latest EXCEPT ![arg[p].svc] = arg[p]] \in [Services -> HeadOrNone]
      BY <2>1, <1>0
    <3>2. cache' \in [Stores -> [stamp : Nat, latest : [Services -> HeadOrNone]]]
      BY <2>2, <3>1 DEF Cache
    <3>3. answer' \in Answers \cup {NoAnswer}
      BY <2>1, <2>2, <1>0, <1>a, AnswerType
    <3>. QED  BY <1>14, <2>1, <2>2, <3>2, <3>3, DoneType DEF Finalize, disk
  <2>3. CASE /\ Answer(p, arg[p], "SequenceConflict", NoHead)
             /\ UNCHANGED <<cache, acked>>
    <3>1. answer' \in Answers \cup {NoAnswer}
      BY <2>1, <2>3, <1>0, <1>a, AnswerType
    <3>. QED  BY <1>14, <2>3, <3>1, DoneType DEF Finalize, disk
  <2>. QED  BY <1>14, <2>2, <2>3 DEF Finalize
<1>15. ASSUME NEW svc \in Services, Latest(p, svc) PROVE TypeOK'
  <2>1. cache' \in [Stores -> [stamp : Nat, latest : [Services -> HeadOrNone]]]
    <3>1. CASE Reconcile(p)
      BY <3>1, CacheType DEF Reconcile
    <3>. QED  BY <1>15, <3>1 DEF Latest
  <2>2. /\ cache[p].latest[svc] \in HeadOrNone
        /\ cache'[p].latest[svc] \in HeadOrNone
    BY <2>1
  <2>3. PICK e \in Outcomes, r \in HeadOrNone : Answer(p, NoHead, e, r)
    BY <1>15, <2>2, <1>0, <1>a DEF Latest
  <2>4. answer' \in Answers \cup {NoAnswer}
    BY <2>3, <1>0, AnswerType
  <2>. QED  BY <1>15, <2>1, <2>4 DEF Latest, disk
<1>16. CASE Exit(p)
  BY <1>16, ClosedType DEF Exit, disk
<1>17. CASE Crash(p)
  <2>1. left' \in [Mishaps -> Nat]
    BY <1>17, SpendType DEF Crash, Mishaps
  <2>. QED  BY <1>17, <2>1, ClosedType DEF Crash, disk
<1>. QED  BY <1>1, <1>2, <1>3, <1>4, <1>5, <1>6, <1>7, <1>8, <1>9, <1>10, <1>11, <1>12,
             <1>13, <1>14, <1>15, <1>16, <1>17 DEF StoreStep

LEMMA NextType == TypeOK /\ [Next]_vars => TypeOK'
<1> SUFFICES ASSUME TypeOK, [Next]_vars PROVE TypeOK'
  OBVIOUS
<1>1. ASSUME NEW p \in Stores, StoreStep(p) PROVE TypeOK'
  BY <1>1, StepType
<1>2. CASE Rotate
  BY <1>2 DEF Rotate, disk, local, TypeOK
<1>3. CASE PowerFail
  <2>1. left' \in [Mishaps -> Nat]
    BY <1>3, SpendType DEF PowerFail, Mishaps
  <2>2. /\ cache' \in [Stores -> [stamp : Nat, latest : [Services -> HeadOrNone]]]
        /\ snap' \in [Stores -> [stamp : Nat, recs : SUBSET Heads, bad : SUBSET Heads]]
        /\ arg' \in [Stores -> HeadOrNone]
    BY <1>3 DEF PowerFail, EmptyCache, EmptySnap, HeadOrNone
  <2>3. /\ tries' \in [Stores -> 0..ScanAttempts]
        /\ cfg' \in [Stores -> DOMAIN Configs]
        /\ pc' \in [Stores -> {"closed", "opening", "idle"} \cup Appending]
        /\ \A p \in Stores : pc'[p] \notin Appending
    BY <1>3, ConfigsAssumption DEF PowerFail, ScanAttempts, Appending
  <2>4. dir' \subseteq dir /\ durable' \subseteq dir' /\ damaged' \subseteq dir'
    BY <1>3 DEF PowerFail
  <2>. QED  BY <1>3, <2>1, <2>2, <2>3, <2>4 DEF PowerFail, TypeOK
<1>4. CASE Damage
  <2>1. left' \in [Mishaps -> Nat]
    BY <1>4, SpendType DEF Damage, Mishaps
  <2>. QED  BY <1>4, <2>1 DEF Damage, local, TypeOK
<1>5. CASE UNCHANGED vars
  BY <1>5 DEF vars, disk, local, TypeOK
<1>. QED  BY <1>1, <1>2, <1>3, <1>4, <1>5 DEF Next

\* Type correctness, for every instance.
THEOREM TypeCorrect == Spec => []TypeOK
BY InitType, NextType, PTL DEF Spec

(***************************************************************************)
(* The history never forks, as long as every link changes the stamp.       *)
(*                                                                         *)
(* What makes NoFork inductive is that a store which is about to link a    *)
(* record decided from the newest heads of the directory as it still is:   *)
(* a cache whose stamp is current describes the directory, and nobody else *)
(* links between the decision and the link.                                *)
(***************************************************************************)
StampsPast(p) == cache[p].stamp <= stamp /\ snap[p].stamp <= stamp

CacheTrue(p) ==
  pc[p] \notin {"closed", "opening"} /\ cache[p].stamp = stamp => Newest(dir, cache[p].latest)

SnapTrue(p) ==
  pc[p] = "opening" /\ snap[p].stamp = stamp => snap[p].recs = dir

DecidesFresh(p) == pc[p] \in {"decide", "publish"} => cache[p].stamp = stamp

PublishAdvances(p) == pc[p] = "publish" => Advances(Pins(p), Tail(p), arg[p])

LinkedNewest(p) ==
  pc[p] \in {"sync", "finalize"} =>
    Newest(dir, [cache[p].latest EXCEPT ![arg[p].svc] = arg[p]])

SettlesNewest(p) ==
  pc[p] = "settle" => arg[p] \in dir /\ \A g \in dir : Continues(g, arg[p])

StoreInv(p) ==
  /\ StampsPast(p)
  /\ CacheTrue(p)
  /\ SnapTrue(p)
  /\ DecidesFresh(p)
  /\ PublishAdvances(p)
  /\ LinkedNewest(p)
  /\ SettlesNewest(p)

Exclusive == \A p, q \in Stores : pc[p] \in Appending /\ pc[q] \in Appending => p = q

IInv == TypeOK /\ Exclusive /\ NoFork /\ \A p \in Stores : StoreInv(p)

Unmoved(q) ==
  /\ pc'[q] = pc[q] /\ cfg'[q] = cfg[q] /\ snap'[q] = snap[q]
  /\ cache'[q] = cache[q] /\ arg'[q] = arg[q]

\* A step of one store that links nothing leaves the others' invariant alone.
LEMMA Frame ==
  ASSUME UNCHANGED <<dir, stamp>>, NEW q \in Stores, StoreInv(q), Unmoved(q)
  PROVE  StoreInv(q)'
BY DEF StoreInv, Unmoved, StampsPast, CacheTrue, SnapTrue, DecidesFresh, PublishAdvances,
       LinkedNewest, SettlesNewest, Pins, Tail

\* A step of p that links nothing keeps the invariant if it keeps p's part of
\* it and enters no append while another is under way.
LEMMA OwnStep ==
  ASSUME IInv, TypeOK', NEW p \in Stores, UNCHANGED <<dir, stamp>>,
         \A q \in Stores \ {p} : Unmoved(q),
         pc'[p] \in Appending => pc[p] \in Appending \/ ~ Locked,
         StoreInv(p)'
  PROVE  IInv'
<1>1. \A q \in Stores : StoreInv(q)'
  BY Frame DEF IInv
<1>2. Exclusive'
  BY DEF IInv, Exclusive, Unmoved, Locked
<1>3. NoFork'
  BY DEF IInv, NoFork
<1>. QED  BY <1>1, <1>2, <1>3 DEF IInv

LEMMA ReconcileNewest ==
  ASSUME TypeOK, NEW p \in Stores, Reconcile(p)
  PROVE  /\ cache'[p].stamp = stamp
         /\ Newest(dir, cache'[p].latest)
         /\ \A q \in Stores \ {p} : cache'[q] = cache[q]
<1>1. PICK latest \in [Services -> dir \cup {NoHead}] :
        ScanOk(Pins(p), dir, damaged, latest) /\ Cache(p, stamp, latest)
  BY DEF Reconcile
<1>2. Newest(dir, latest)
  BY <1>1, ScanNewest DEF TypeOK
<1>. QED  BY <1>1, <1>2 DEF Cache, TypeOK

\* A store that is closed has nothing to keep.
LEMMA ClosedInv ==
  ASSUME TypeOK, NEW p \in Stores, Closed(p), UNCHANGED stamp
  PROVE  StoreInv(p)' /\ pc'[p] \notin Appending /\ \A q \in Stores \ {p} : Unmoved(q)
<1>1. pc'[p] = "closed" /\ cache'[p].stamp = 0 /\ snap'[p].stamp = 0
  BY DEF Closed, Goto, TypeOK, EmptyCache, EmptySnap
<1>2. stamp' \in Nat
  BY DEF TypeOK
<1>3. \A q \in Stores \ {p} : Unmoved(q)
  BY DEF Closed, Goto, TypeOK, Unmoved
<1>. QED
  BY <1>1, <1>2, <1>3 DEF StoreInv, StampsPast, CacheTrue, SnapTrue, DecidesFresh,
     PublishAdvances, LinkedNewest, SettlesNewest, Appending

\* A store that ends its append keeps a cache that was true.
LEMMA DoneInv ==
  ASSUME IInv, NEW p \in Stores, Done(p), UNCHANGED <<dir, stamp, cfg, snap, cache>>,
         pc[p] \in Appending
  PROVE  StoreInv(p)' /\ pc'[p] \notin Appending /\ \A q \in Stores \ {p} : Unmoved(q)
<1>1. pc'[p] = "idle"
  BY DEF Done, Goto, IInv, TypeOK
<1>2. \A q \in Stores \ {p} : Unmoved(q)
  BY DEF Done, Goto, IInv, TypeOK, Unmoved
<1>. QED
  BY <1>1, <1>2 DEF IInv, StoreInv, StampsPast, CacheTrue, SnapTrue, DecidesFresh,
     PublishAdvances, LinkedNewest, SettlesNewest, Appending

\* The head about to be linked continues everything the directory holds.
LEMMA PublishContinues ==
  ASSUME IInv, NEW p \in Stores, pc[p] = "publish"
  PROVE  \A g \in dir : Continues(g, arg[p])
<1> DEFINE h == arg[p]
           t == Tail(p)
<1>1. h \in Heads /\ h.svc \in Services /\ h.seq \in Nat
  BY HeadsAssumption DEF IInv, TypeOK, Appending
<1>2. Newest(dir, cache[p].latest) /\ Advances(Pins(p), t, h)
  BY DEF IInv, StoreInv, DecidesFresh, CacheTrue, PublishAdvances
<1> SUFFICES ASSUME NEW g \in dir, g.svc = h.svc
             PROVE  g.seq < h.seq \/ (g.seq = h.seq /\ g.hash = h.hash)
  BY DEF Continues
<1>3. g \in Heads /\ g.seq \in Nat /\ g \in OfService(dir, h.svc)
  BY HeadsAssumption DEF IInv, TypeOK, OfService
<1>4. t \in OfService(dir, h.svc) /\ g.seq <= t.seq
  BY <1>1, <1>2, <1>3 DEF Newest, Tail
<1>5. t \in dir /\ t.svc = h.svc /\ t.seq \in Nat /\ t # NoHead
  BY <1>4, HeadsAssumption DEF IInv, TypeOK, OfService
<1>6. t.seq < h.seq \/ (t.seq = h.seq /\ t.hash = h.hash)
  BY <1>2, <1>5 DEF Advances, ValidEqualSequenceHandover
<1>7. CASE t.seq < h.seq
  BY <1>1, <1>3, <1>4, <1>5, <1>7
<1>8. CASE t.seq = h.seq /\ t.hash = h.hash
  <2>1. CASE g.seq < t.seq
    BY <2>1, <1>8
  <2>2. CASE g.seq = t.seq
    BY <2>2, <1>3, <1>5, <1>8 DEF IInv, NoFork
  <2>. QED  BY <2>1, <2>2, <1>3, <1>4, <1>5
<1>. QED  BY <1>6, <1>7, <1>8

LEMMA LinkInv ==
  ASSUME IInv, TypeOK', CoarseStamps = FALSE, NEW p \in Stores, Link(p)
  PROVE  IInv'
<1> DEFINE h == arg[p]
<1>0. /\ pc[p] = "publish" /\ dir' = dir \cup {h} /\ stamp' = stamp + 1
      /\ pc' = [pc EXCEPT ![p] = "sync"]
      /\ UNCHANGED <<cfg, snap, cache, arg>>
  BY DEF Link, Goto
<1>1. h \in Heads /\ h.svc \in Services /\ h.seq \in Nat
  BY <1>0, HeadsAssumption DEF IInv, TypeOK, Appending
<1>2. \A g \in dir : Continues(g, h)
  BY <1>0, PublishContinues
<1>3. NoFork'
  <2> SUFFICES ASSUME NEW a \in dir', NEW b \in dir', a.svc = b.svc, a.seq = b.seq
               PROVE  a.hash = b.hash
    BY DEF NoFork
  <2>1. a.seq \in Nat /\ b.seq \in Nat
    BY <1>0, <1>1, HeadsAssumption DEF IInv, TypeOK
  <2>2. CASE a \in dir /\ b \in dir
    BY <2>2 DEF IInv, NoFork
  <2>3. CASE a \in dir /\ b = h
    BY <2>1, <2>3, <1>2 DEF Continues
  <2>4. CASE a = h /\ b \in dir
    BY <2>1, <2>4, <1>2 DEF Continues
  <2>. QED  BY <1>0, <2>2, <2>3, <2>4
<1>4. Exclusive'
  BY <1>0 DEF IInv, Exclusive, TypeOK, Appending
<1>5. /\ stamp \in Nat
      /\ \A q \in Stores : /\ cache[q].stamp \in Nat /\ cache[q].stamp <= stamp
                           /\ snap[q].stamp \in Nat /\ snap[q].stamp <= stamp
  BY DEF IInv, StoreInv, StampsPast, TypeOK
<1>6. ASSUME NEW q \in Stores \ {p} PROVE StoreInv(q)'
  <2>1. pc'[q] = pc[q] /\ pc[q] \notin Appending
    BY <1>0 DEF IInv, Exclusive, TypeOK, Appending
  <2>. QED
    BY <1>0, <1>5, <2>1 DEF StoreInv, StampsPast, CacheTrue, SnapTrue, DecidesFresh,
       PublishAdvances, LinkedNewest, SettlesNewest, Appending
<1>7. StoreInv(p)'
  <2>1. pc'[p] = "sync"
    BY <1>0 DEF IInv, TypeOK
  <2>2. Newest(dir', [cache[p].latest EXCEPT ![h.svc] = h])
    <3>1. Newest(dir, cache[p].latest)
      BY <1>0 DEF IInv, StoreInv, DecidesFresh, CacheTrue
    <3>2. cache[p].latest \in [Services -> HeadOrNone]
      BY DEF IInv, TypeOK
    <3> SUFFICES
          ASSUME NEW svc \in Services
          PROVE  LET l == [cache[p].latest EXCEPT ![h.svc] = h]
                 IN  IF OfService(dir', svc) = {} THEN l[svc] = NoHead
                     ELSE /\ l[svc] \in OfService(dir', svc)
                          /\ \A g \in OfService(dir', svc) : g.seq <= l[svc].seq
      BY DEF Newest
    <3>3. CASE svc = h.svc
      <4>1. h \in OfService(dir', svc)
        BY <1>0, <3>3 DEF OfService
      <4>2. \A g \in OfService(dir', svc) : g.seq <= h.seq
        <5> SUFFICES ASSUME NEW g \in OfService(dir', svc) PROVE g.seq <= h.seq
          OBVIOUS
        <5>1. g.svc = h.svc /\ g \in dir \cup {h} /\ g.seq \in Nat
          BY <1>0, <1>1, <3>3, HeadsAssumption DEF OfService, IInv, TypeOK
        <5>. QED  BY <5>1, <1>1, <1>2 DEF Continues
      <4>. QED  BY <3>2, <3>3, <4>1, <4>2
    <3>4. CASE svc # h.svc
      <4>1. OfService(dir', svc) = OfService(dir, svc)
        BY <1>0, <3>4 DEF OfService
      <4>. QED  BY <3>1, <3>2, <3>4, <4>1 DEF Newest
    <3>. QED  BY <3>3, <3>4
  <2>. QED
    BY <1>0, <1>5, <2>1, <2>2 DEF StoreInv, StampsPast, CacheTrue, SnapTrue, DecidesFresh,
       PublishAdvances, LinkedNewest, SettlesNewest
<1>. QED  BY <1>3, <1>4, <1>6, <1>7 DEF IInv

\* A store that moves within an append and keeps its cache.
LEMMA MoveInv ==
  ASSUME IInv, NEW p \in Stores, NEW to, Goto(p, to),
         UNCHANGED <<dir, stamp, cfg, snap, cache, arg>>,
         \/ to = "publish" /\ pc[p] = "decide" /\ Advances(Pins(p), Tail(p), arg[p])
         \/ /\ to = "settle" /\ pc[p] = "publish"
            /\ arg[p] \in dir /\ \A g \in dir : Continues(g, arg[p])
         \/ to = "finalize" /\ pc[p] = "sync"
  PROVE  StoreInv(p)' /\ \A q \in Stores \ {p} : Unmoved(q)
<1>1. pc'[p] = to /\ \A q \in Stores \ {p} : Unmoved(q)
  BY DEF Goto, IInv, TypeOK, Unmoved
<1>2. CASE to = "publish" /\ pc[p] = "decide" /\ Advances(Pins(p), Tail(p), arg[p])
  BY <1>1, <1>2 DEF IInv, StoreInv, StampsPast, CacheTrue, SnapTrue, DecidesFresh,
     PublishAdvances, LinkedNewest, SettlesNewest, Pins, Tail
<1>3. CASE /\ to = "settle" /\ pc[p] = "publish"
           /\ arg[p] \in dir /\ \A g \in dir : Continues(g, arg[p])
  BY <1>1, <1>3 DEF IInv, StoreInv, StampsPast, CacheTrue, SnapTrue, DecidesFresh,
     PublishAdvances, LinkedNewest, SettlesNewest
<1>4. CASE to = "finalize" /\ pc[p] = "sync"
  BY <1>1, <1>4 DEF IInv, StoreInv, StampsPast, CacheTrue, SnapTrue, DecidesFresh,
     PublishAdvances, LinkedNewest, SettlesNewest
<1>. QED  BY <1>2, <1>3, <1>4

\* A store whose cache was just filled from the directory as it is.
LEMMA FreshInv ==
  ASSUME NEW p \in Stores, UNCHANGED <<dir, stamp>>, stamp \in Nat,
         pc'[p] \in {"idle", "decide"}, cache'[p].stamp = stamp,
         snap'[p].stamp <= stamp, Newest(dir, cache'[p].latest)
  PROVE  StoreInv(p)'
BY DEF StoreInv, StampsPast, CacheTrue, SnapTrue, DecidesFresh, PublishAdvances,
       LinkedNewest, SettlesNewest

\* A store that has just started a scan.
LEMMA OpeningInv ==
  ASSUME NEW p \in Stores, UNCHANGED <<dir, stamp>>, stamp \in Nat,
         pc'[p] = "opening", cache'[p].stamp <= stamp,
         snap'[p].stamp = stamp, snap'[p].recs = dir
  PROVE  StoreInv(p)'
BY DEF StoreInv, StampsPast, CacheTrue, SnapTrue, DecidesFresh, PublishAdvances,
       LinkedNewest, SettlesNewest

LEMMA Stamps ==
  ASSUME IInv, NEW p \in Stores
  PROVE  /\ stamp \in Nat /\ 0 <= stamp
         /\ cache[p].stamp <= stamp /\ snap[p].stamp <= stamp
BY DEF IInv, TypeOK, StoreInv, StampsPast

LEMMA OpenBeginInv ==
  ASSUME IInv, TypeOK', NEW p \in Stores, OpenBegin(p)
  PROVE  IInv'
<1>1. /\ pc'[p] = "opening" /\ snap'[p].stamp = stamp /\ snap'[p].recs = dir
      /\ cache' = cache /\ UNCHANGED <<dir, stamp>>
      /\ \A q \in Stores \ {p} : Unmoved(q)
  BY DEF OpenBegin, StartScan, Goto, IInv, TypeOK, Unmoved, disk
<1>2. StoreInv(p)'
  BY <1>1, Stamps, OpeningInv
<1>. QED  BY <1>1, <1>2, OwnStep DEF Appending

LEMMA OpenScanInv ==
  ASSUME IInv, TypeOK', NEW p \in Stores, OpenScan(p)
  PROVE  IInv'
<1>1. PICK R \in Listings(p), bad \in Garbled(p) :
        \/ OpenAccept(p, R, bad) \/ OpenRescan(p, R, bad)
        \/ OpenGiveUp(p, R, bad) \/ OpenReject(p, R, bad)
  BY DEF OpenScan
<1>2. R \in SUBSET Heads
  BY DEF Listings, IInv, TypeOK
<1>3. pc[p] = "opening" /\ UNCHANGED <<dir, stamp>>
  BY DEF OpenScan, disk
<1>4. CASE OpenAccept(p, R, bad)
  <2>1. R = dir
    BY <1>3, <1>4 DEF OpenAccept, Listings, IInv, StoreInv, SnapTrue
  <2>2. PICK latest \in [Services -> R \cup {NoHead}] :
          ScanOk(Pins(p), R, bad, latest) /\ Cache(p, stamp, latest)
    BY <1>4 DEF OpenAccept
  <2>3. Newest(dir, latest)
    BY <2>1, <2>2, <1>2, ScanNewest
  <2>4. /\ pc'[p] = "idle" /\ cache'[p].stamp = stamp /\ cache'[p].latest = latest
        /\ snap'[p].stamp = 0
        /\ \A q \in Stores \ {p} : Unmoved(q)
    BY <1>4, <2>2 DEF OpenAccept, Cache, Goto, IInv, TypeOK, Unmoved, EmptySnap
  <2>5. StoreInv(p)'
    BY <1>3, <2>3, <2>4, Stamps, FreshInv
  <2>. QED  BY <1>3, <2>4, <2>5, OwnStep DEF Appending
<1>5. CASE OpenRescan(p, R, bad)
  <2>1. /\ pc'[p] = "opening" /\ snap'[p].stamp = stamp /\ snap'[p].recs = dir
        /\ cache' = cache
        /\ \A q \in Stores \ {p} : Unmoved(q)
    BY <1>3, <1>5 DEF OpenRescan, StartScan, IInv, TypeOK, Unmoved
  <2>2. StoreInv(p)'
    BY <1>3, <2>1, Stamps, OpeningInv
  <2>. QED  BY <1>3, <2>1, <2>2, OwnStep DEF Appending
<1>6. CASE Closed(p)
  BY <1>3, <1>6, ClosedInv, OwnStep DEF IInv
<1>. QED  BY <1>1, <1>4, <1>5, <1>6 DEF OpenGiveUp, OpenReject

LEMMA AppendBeginInv ==
  ASSUME IInv, TypeOK', NEW p \in Stores, NEW h \in Heads, AppendBegin(p, h)
  PROVE  IInv'
<1>1. /\ pc[p] = "idle" /\ pc'[p] = "decide" /\ ~ Locked
      /\ UNCHANGED <<dir, stamp, snap, cfg>>
  BY DEF AppendBegin, Goto, IInv, TypeOK, disk
<1>2. /\ cache'[p].stamp = stamp
      /\ Newest(dir, cache'[p].latest)
      /\ \A q \in Stores \ {p} : cache'[q] = cache[q]
  <2>1. CASE CacheFresh(p) /\ UNCHANGED cache
    BY <1>1, <2>1 DEF CacheFresh, IInv, StoreInv, CacheTrue
  <2>2. CASE Reconcile(p)
    BY <2>2, ReconcileNewest DEF IInv
  <2>. QED  BY <2>1, <2>2 DEF AppendBegin
<1>3. \A q \in Stores \ {p} : Unmoved(q)
  BY <1>1, <1>2 DEF AppendBegin, Goto, IInv, TypeOK, Unmoved
<1>4. StoreInv(p)'
  BY <1>1, <1>2, Stamps, FreshInv
<1>. QED  BY <1>1, <1>3, <1>4, OwnStep

LEMMA PrepareInv ==
  ASSUME IInv, TypeOK', NEW p \in Stores, Prepare(p)
  PROVE  IInv'
<1>1. /\ pc[p] = "decide" /\ UNCHANGED <<dir, stamp, cfg, snap, cache>>
      /\ Advances(Pins(p), Tail(p), arg[p])
  BY DEF Prepare, disk
<1>2. CASE Goto(p, "publish") /\ UNCHANGED arg
  BY <1>1, <1>2, MoveInv, OwnStep DEF Appending
<1>3. CASE Done(p)
  BY <1>1, <1>3, DoneInv, OwnStep DEF Appending
<1>. QED  BY <1>2, <1>3 DEF Prepare

LEMMA SettleInv ==
  ASSUME IInv, TypeOK', NEW p \in Stores, Settle(p)
  PROVE  IInv'
<1>1. pc[p] = "settle" /\ Done(p) /\ UNCHANGED <<dir, stamp, cfg, snap>>
  BY DEF Settle, disk
<1>2. CASE UNCHANGED cache
  BY <1>1, <1>2, DoneInv, OwnStep DEF Appending
<1>3. CASE Reconcile(p)
  <2>1. /\ pc'[p] = "idle" /\ cache'[p].stamp = stamp
        /\ Newest(dir, cache'[p].latest)
        /\ \A q \in Stores \ {p} : Unmoved(q)
    BY <1>1, <1>3, ReconcileNewest DEF Done, Goto, IInv, TypeOK, Unmoved
  <2>2. StoreInv(p)'
    BY <1>1, <2>1, Stamps, FreshInv
  <2>. QED  BY <1>1, <2>1, <2>2, OwnStep DEF Appending
<1>. QED  BY <1>2, <1>3 DEF Settle

LEMMA FinalizeInv ==
  ASSUME IInv, TypeOK', NEW p \in Stores, Finalize(p)
  PROVE  IInv'
<1>1. pc[p] = "finalize" /\ Done(p) /\ UNCHANGED <<dir, stamp, cfg, snap>>
  BY DEF Finalize, disk
<1>2. CASE UNCHANGED cache
  BY <1>1, <1>2, DoneInv, OwnStep DEF Appending
<1>3. CASE Cache(p, stamp, [cache[p].latest EXCEPT ![arg[p].svc] = arg[p]])
  <2>1. Newest(dir, [cache[p].latest EXCEPT ![arg[p].svc] = arg[p]])
    BY <1>1 DEF IInv, StoreInv, LinkedNewest
  <2>2. /\ pc'[p] = "idle" /\ cache'[p].stamp = stamp
        /\ Newest(dir, cache'[p].latest)
        /\ \A q \in Stores \ {p} : Unmoved(q)
    BY <1>1, <1>3, <2>1 DEF Cache, Done, Goto, IInv, TypeOK, Unmoved
  <2>3. StoreInv(p)'
    BY <1>1, <2>2, Stamps, FreshInv
  <2>. QED  BY <1>1, <2>2, <2>3, OwnStep DEF Appending
<1>. QED  BY <1>2, <1>3 DEF Finalize

LEMMA LatestInv ==
  ASSUME IInv, TypeOK', NEW p \in Stores, NEW svc \in Services, Latest(p, svc)
  PROVE  IInv'
<1>1. pc[p] = "idle" /\ UNCHANGED <<dir, stamp, pc, cfg, snap, arg>>
  BY DEF Latest, disk
<1>2. CASE UNCHANGED cache
  <2>1. \A q \in Stores : Unmoved(q)
    BY <1>1, <1>2 DEF Unmoved
  <2>. QED  BY <1>1, <2>1, Frame, OwnStep DEF IInv, Appending
<1>3. CASE Reconcile(p)
  <2>1. /\ cache'[p].stamp = stamp /\ Newest(dir, cache'[p].latest)
        /\ \A q \in Stores \ {p} : Unmoved(q)
    BY <1>1, <1>3, ReconcileNewest DEF IInv, Unmoved
  <2>2. StoreInv(p)'
    BY <1>1, <2>1, Stamps, FreshInv
  <2>. QED  BY <1>1, <2>1, <2>2, OwnStep DEF Appending
<1>. QED  BY <1>2, <1>3 DEF Latest

LEMMA StepInv ==
  ASSUME IInv, TypeOK', CoarseStamps = FALSE, NEW p \in Stores, StoreStep(p)
  PROVE  IInv'
<1>a. ASSUME UNCHANGED <<dir, stamp, local>> PROVE IInv'
  <2>1. \A q \in Stores : Unmoved(q)
    BY <1>a DEF local, Unmoved
  <2>. QED  BY <1>a, <2>1, Frame, OwnStep DEF IInv, local
<1>1. CASE OpenBegin(p)
  BY <1>1, OpenBeginInv
<1>2. CASE OpenMalformed(p)
  BY <1>2, <1>a DEF OpenMalformed, disk
<1>3. CASE OpenScan(p)
  BY <1>3, OpenScanInv
<1>4. ASSUME NEW h \in Heads, AppendBegin(p, h) PROVE IInv'
  BY <1>4, AppendBeginInv
<1>5. ASSUME NEW h \in Heads \cup {NoHead}, RescanRefused(p, h) PROVE IInv'
  BY <1>5, <1>a DEF RescanRefused, disk
<1>6. CASE DecideRefuse(p)
  BY <1>6, DoneInv, OwnStep DEF DecideRefuse, disk, Appending
<1>7. CASE DecideAlreadyPresent(p)
  BY <1>7, DoneInv, OwnStep DEF DecideAlreadyPresent, disk, Appending
<1>8. CASE Prepare(p)
  BY <1>8, PrepareInv
<1>9. CASE Link(p)
  BY <1>9, LinkInv
<1>10. CASE LinkExists(p)
  <2>1. pc[p] = "publish" /\ UNCHANGED <<dir, stamp, cfg, snap, cache>>
    BY <1>10 DEF LinkExists
  <2>2. CASE Goto(p, "settle") /\ UNCHANGED arg /\ arg[p] \in dir
    BY <2>1, <2>2, PublishContinues, MoveInv, OwnStep DEF Appending
  <2>3. CASE Done(p)
    BY <2>1, <2>3, DoneInv, OwnStep DEF Appending
  <2>. QED  BY <1>10, <2>2, <2>3 DEF LinkExists, ExactRecord
<1>11. CASE Sync(p)
  BY <1>11, MoveInv, OwnStep DEF Sync, Appending
<1>12. CASE PublishFails(p)
  BY <1>12, DoneInv, OwnStep DEF PublishFails, disk, Appending
<1>13. CASE Settle(p)
  BY <1>13, SettleInv
<1>14. CASE Finalize(p)
  BY <1>14, FinalizeInv
<1>15. ASSUME NEW svc \in Services, Latest(p, svc) PROVE IInv'
  BY <1>15, LatestInv
<1>16. CASE Exit(p)
  BY <1>16, ClosedInv, OwnStep DEF Exit, disk, IInv
<1>17. CASE Crash(p)
  BY <1>17, ClosedInv, OwnStep DEF Crash, disk, IInv
<1>. QED  BY <1>1, <1>2, <1>3, <1>4, <1>5, <1>6, <1>7, <1>8, <1>9, <1>10, <1>11, <1>12,
             <1>13, <1>14, <1>15, <1>16, <1>17 DEF StoreStep

LEMMA InitInv == Init => IInv
<1> SUFFICES ASSUME Init PROVE IInv
  OBVIOUS
<1>1. TypeOK
  BY InitType
<1>2. ASSUME NEW p \in Stores PROVE StoreInv(p)
  BY DEF Init, EmptyCache, EmptySnap, StoreInv, StampsPast, CacheTrue, SnapTrue, DecidesFresh,
     PublishAdvances, LinkedNewest, SettlesNewest
<1>3. Exclusive /\ NoFork
  BY DEF Init, Exclusive, NoFork, Appending
<1>. QED  BY <1>1, <1>2, <1>3 DEF IInv

LEMMA NextInv ==
  ASSUME CoarseStamps = FALSE
  PROVE  IInv /\ [Next]_vars => IInv'
<1> SUFFICES ASSUME IInv, [Next]_vars PROVE IInv'
  OBVIOUS
<1>0. TypeOK'
  BY NextType DEF IInv
<1>a. ASSUME UNCHANGED <<dir, stamp, local>> PROVE IInv'
  <2>1. \A q \in Stores : StoreInv(q)'
    BY <1>a, Frame DEF local, Unmoved, IInv
  <2>2. Exclusive' /\ NoFork'
    BY <1>a DEF local, IInv, Exclusive, NoFork
  <2>. QED  BY <1>0, <2>1, <2>2 DEF IInv
<1>1. ASSUME NEW p \in Stores, StoreStep(p) PROVE IInv'
  BY <1>0, <1>1, StepInv
<1>2. CASE Rotate
  BY <1>2, <1>a DEF Rotate, disk
<1>3. CASE PowerFail
  <2>1. dir' \subseteq dir /\ stamp' = stamp /\ stamp \in Nat
    BY <1>3 DEF PowerFail, IInv, TypeOK
  <2>2. NoFork'
    BY <2>1 DEF IInv, NoFork
  <2>3. ASSUME NEW p \in Stores PROVE StoreInv(p)'
    <3>1. pc'[p] = "closed" /\ cache'[p].stamp = 0 /\ snap'[p].stamp = 0
      BY <1>3 DEF PowerFail, EmptyCache, EmptySnap
    <3>. QED
      BY <2>1, <3>1 DEF StoreInv, StampsPast, CacheTrue, SnapTrue, DecidesFresh,
         PublishAdvances, LinkedNewest, SettlesNewest
  <2>4. Exclusive'
    BY <1>3 DEF PowerFail, Exclusive, Appending
  <2>. QED  BY <1>0, <2>2, <2>3, <2>4 DEF IInv
<1>4. CASE Damage
  BY <1>4, <1>a DEF Damage
<1>5. CASE UNCHANGED vars
  BY <1>5, <1>a DEF vars, disk
<1>. QED  BY <1>1, <1>2, <1>3, <1>4, <1>5 DEF Next

\* Two retained heads of a service at one sequence never differ in their hash,
\* for any stores, pin generations, crashes, failures and power outages, when
\* every link changes the directory stamp.
THEOREM NeverForks ==
  ASSUME CoarseStamps = FALSE
  PROVE  Spec => []NoFork
<1>1. Init => IInv
  BY InitInv
<1>2. IInv /\ [Next]_vars => IInv'
  BY NextInv
<1>3. IInv => NoFork
  BY DEF IInv
<1>. QED  BY <1>1, <1>2, <1>3, PTL DEF Spec

\* Every record a step adds continues the directory it is added to.
THEOREM AppendsOnlyAdvance ==
  ASSUME CoarseStamps = FALSE
  PROVE  Spec => AppendsAdvance
<1>1. Init => IInv
  BY InitInv
<1>2. IInv /\ [Next]_vars => IInv'
  BY NextInv
<1>3. IInv /\ [Next]_vars => [\A h \in dir' \ dir : \A g \in dir : Continues(g, h)]_vars
  <2> SUFFICES ASSUME IInv, Next, NEW h \in dir' \ dir, NEW g \in dir
               PROVE  Continues(g, h)
    OBVIOUS
  <2>1. CASE \E p \in Stores : StoreStep(p)
    <3>1. PICK p \in Stores : StoreStep(p)
      BY <2>1
    <3>2. Link(p)
      BY <3>1 DEF StoreStep, OpenBegin, OpenMalformed, OpenScan, AppendBegin, RescanRefused,
         DecideRefuse, DecideAlreadyPresent, Prepare, LinkExists, Sync, PublishFails, Settle,
         Finalize, Latest, Exit, Crash, disk
    <3>3. h = arg[p] /\ pc[p] = "publish"
      BY <3>2 DEF Link
    <3>. QED  BY <3>3, PublishContinues
  <2>2. CASE Rotate \/ PowerFail \/ Damage
    BY <2>2 DEF Rotate, PowerFail, Damage, disk
  <2>. QED  BY <2>1, <2>2 DEF Next
<1>. QED  BY <1>1, <1>2, <1>3, PTL DEF Spec, AppendsAdvance

(***************************************************************************)
(* What was answered Ok is still there.                                    *)
(*                                                                         *)
(* A head an append answered Ok leaves the directory only when power fails *)
(* before its link was synced.  That cannot happen while power lasts; nor  *)
(* when no process dies and no call fails inside an append, because then   *)
(* the only unsynced link is that of the store which still holds the lock. *)
(***************************************************************************)
LEMMA OnlyLinkAdds ==
  ASSUME NEW p \in Stores, StoreStep(p)
  PROVE  UNCHANGED dir \/ Link(p)
BY DEF StoreStep, OpenBegin, OpenMalformed, OpenScan, AppendBegin, RescanRefused,
       DecideRefuse, DecideAlreadyPresent, Prepare, LinkExists, Sync, PublishFails, Settle,
       Finalize, Latest, Exit, Crash, disk

\* No two records of the directory have one name.
NamesUnique == \A g, h \in dir : SameName(g, h) => g = h

LEMMA InitNames == Init => NamesUnique
BY DEF Init, NamesUnique

LEMMA NextNames == NamesUnique /\ [Next]_vars => NamesUnique'
<1> SUFFICES ASSUME NamesUnique, [Next]_vars PROVE NamesUnique'
  OBVIOUS
<1>1. ASSUME NEW p \in Stores, StoreStep(p) PROVE NamesUnique'
  <2>1. CASE UNCHANGED dir
    BY <2>1 DEF NamesUnique, SameName
  <2>2. CASE Link(p)
    BY <2>2 DEF Link, NamesUnique, SameName
  <2>. QED  BY <1>1, <2>1, <2>2, OnlyLinkAdds
<1>2. CASE Rotate
  BY <1>2 DEF Rotate, disk, NamesUnique, SameName
<1>3. CASE PowerFail
  BY <1>3 DEF PowerFail, NamesUnique, SameName
<1>4. CASE Damage
  BY <1>4 DEF Damage, NamesUnique, SameName
<1>5. CASE UNCHANGED vars
  BY <1>5 DEF vars, disk, NamesUnique, SameName
<1>. QED  BY <1>1, <1>2, <1>3, <1>4, <1>5 DEF Next

SettlesRetained == \A p \in Stores : pc[p] = "settle" => arg[p] \in dir

\* While power lasts, what was acknowledged is in the directory.
PoweredInv == left["power"] = 0 /\ acked \subseteq dir /\ SettlesRetained

LEMMA SpendLeft ==
  ASSUME TypeOK, NEW m \in Mishaps, NEW k \in Mishaps, left[k] = 0, Spend(m)
  PROVE  m # k /\ left'[k] = 0
BY DEF TypeOK, Spend

\* A store whose program counter or argument moves is p, the one that steps.
LEMMA OthersStay ==
  ASSUME TypeOK, NEW p \in Stores, StoreStep(p), NEW q \in Stores \ {p}
  PROVE  pc'[q] = pc[q] /\ arg'[q] = arg[q]
BY DEF TypeOK, StoreStep, OpenBegin, OpenMalformed, OpenScan, OpenAccept, OpenRescan, OpenGiveUp,
       OpenReject, AppendBegin, RescanRefused, DecideRefuse, DecideAlreadyPresent, Prepare, Link,
       LinkExists, Sync, PublishFails, Settle, Finalize, Latest, Exit, Crash, Closed, Done, Goto,
       local

\* Only the link that finds its own record makes a store settle.
LEMMA EntersSettle ==
  ASSUME TypeOK, NEW p \in Stores, StoreStep(p), pc'[p] = "settle"
  PROVE  \/ pc[p] = "settle" /\ arg'[p] = arg[p]
         \/ LinkExists(p) /\ arg[p] \in dir /\ durable' = dir /\ arg'[p] = arg[p]
BY DEF TypeOK, StoreStep, OpenBegin, OpenMalformed, OpenScan, OpenAccept, OpenRescan, OpenGiveUp,
       OpenReject, AppendBegin, RescanRefused, DecideRefuse, DecideAlreadyPresent, Prepare, Link,
       LinkExists, ExactRecord, Sync, PublishFails, Settle, Finalize, Latest, Exit, Crash, Closed,
       Done, Goto, local

\* Every head acknowledged by a step is one the directory holds.
LEMMA AcksRetained ==
  ASSUME TypeOK, SettlesRetained, NEW p \in Stores, StoreStep(p)
  PROVE  acked' \subseteq acked \cup dir
<1>1. CASE DecideAlreadyPresent(p)
  <2>1. arg[p] \in Heads
    BY <1>1, TailType DEF DecideAlreadyPresent, Appending
  <2>. QED
    BY <1>1, <2>1, HeadsAssumption DEF DecideAlreadyPresent, AlreadyRetained, TailIntact
<1>2. CASE Settle(p)
  BY <1>2 DEF Settle, SettlesRetained
<1>3. CASE Finalize(p)
  BY <1>3 DEF Finalize, ExactRecord
<1>4. CASE UNCHANGED acked
  BY <1>4
<1>. QED
  BY <1>1, <1>2, <1>3, <1>4 DEF StoreStep, OpenBegin, OpenMalformed, OpenScan, AppendBegin,
     RescanRefused, DecideRefuse, Prepare, Link, LinkExists, Sync, PublishFails, Latest, Exit, Crash

LEMMA NextPowered == TypeOK /\ PoweredInv /\ [Next]_vars => PoweredInv'
<1> SUFFICES ASSUME TypeOK, PoweredInv, [Next]_vars PROVE PoweredInv'
  OBVIOUS
<1> USE DEF PoweredInv
<1>1. ASSUME NEW p \in Stores, StoreStep(p) PROVE PoweredInv'
  <2>1. dir \subseteq dir'
    BY <1>1, OnlyLinkAdds DEF Link
  <2>2. acked' \subseteq dir'
    BY <1>1, <2>1, AcksRetained
  <2>3. SettlesRetained'
    BY <1>1, <2>1, OthersStay, EntersSettle DEF SettlesRetained
  <2>4. left' = left \/ Spend("io") \/ Spend("crash")
    BY <1>1 DEF StoreStep, OpenBegin, OpenMalformed, OpenScan, AppendBegin, RescanRefused,
       DecideRefuse, DecideAlreadyPresent, Prepare, Link, LinkExists, Sync, PublishFails, Settle,
       Finalize, Latest, Exit, Crash
  <2>5. left'["power"] = 0
    BY <2>4, SpendLeft DEF Mishaps
  <2>. QED  BY <2>2, <2>3, <2>5
<1>2. CASE Rotate
  BY <1>2 DEF Rotate, disk, local, SettlesRetained
<1>3. CASE PowerFail
  BY <1>3, SpendLeft DEF PowerFail, Mishaps
<1>4. CASE Damage
  <2>1. left'["power"] = 0
    BY <1>4, SpendLeft DEF Damage, Mishaps
  <2>. QED  BY <1>4, <2>1 DEF Damage, local, SettlesRetained
<1>5. CASE UNCHANGED vars
  BY <1>5 DEF vars, disk, local, SettlesRetained
<1>. QED  BY <1>1, <1>2, <1>3, <1>4, <1>5 DEF Next

\* While no process dies and no call fails, at most the link of the store that
\* is about to sync is not durable.
CarefulInv ==
  /\ left["crash"] = 0 /\ left["io"] = 0
  /\ acked \subseteq durable
  /\ dir # durable => \E p \in Stores : pc[p] = "sync"
  /\ \A p \in Stores : pc[p] = "settle" => arg[p] \in durable

LEMMA NextExclusive == TypeOK /\ Exclusive /\ [Next]_vars => Exclusive'
<1> SUFFICES ASSUME TypeOK, Exclusive, [Next]_vars PROVE Exclusive'
  OBVIOUS
<1>1. ASSUME NEW p \in Stores, StoreStep(p) PROVE Exclusive'
  <2>1. pc'[p] \in Appending => pc[p] \in Appending \/ ~ Locked
    BY <1>1 DEF TypeOK, Appending, StoreStep, OpenBegin, OpenMalformed, OpenScan, OpenAccept,
       OpenRescan, OpenGiveUp, OpenReject, AppendBegin, RescanRefused, DecideRefuse,
       DecideAlreadyPresent, Prepare, Link, LinkExists, Sync, PublishFails, Settle, Finalize,
       Latest, Exit, Crash, Closed, Done, Goto, local
  <2>. QED  BY <1>1, <2>1, OthersStay DEF Exclusive, Locked
<1>2. CASE Rotate \/ Damage \/ UNCHANGED vars
  BY <1>2 DEF Rotate, Damage, vars, local, Exclusive
<1>3. CASE PowerFail
  BY <1>3 DEF PowerFail, Exclusive, Appending
<1>. QED  BY <1>1, <1>2, <1>3 DEF Next

LEMMA NextCareful == TypeOK /\ Exclusive /\ CarefulInv /\ [Next]_vars => CarefulInv'
<1> SUFFICES ASSUME TypeOK, Exclusive, CarefulInv, [Next]_vars PROVE CarefulInv'
  OBVIOUS
<1>1. ASSUME NEW p \in Stores, StoreStep(p) PROVE CarefulInv'
  <2>1. left' = left
    BY <1>1 DEF CarefulInv, StoreStep, OpenBegin, OpenMalformed, OpenScan, AppendBegin,
       RescanRefused, DecideRefuse, DecideAlreadyPresent, Prepare, Link, LinkExists, Sync,
       PublishFails, Settle, Finalize, Latest, Exit, Crash, Spend
  <2>2. SettlesRetained
    BY DEF CarefulInv, SettlesRetained, TypeOK
  <2>3. durable \subseteq durable'
    BY <1>1 DEF TypeOK, StoreStep, OpenBegin, OpenMalformed, OpenScan, AppendBegin,
       RescanRefused, DecideRefuse, DecideAlreadyPresent, Prepare, Link, LinkExists, Sync,
       PublishFails, Settle, Finalize, Latest, Exit, Crash, disk
  <2>4. acked' = acked \/ (pc[p] \in Appending /\ pc[p] # "sync")
    BY <1>1 DEF StoreStep, OpenBegin, OpenMalformed, OpenScan, AppendBegin, RescanRefused,
       DecideRefuse, DecideAlreadyPresent, Prepare, Link, LinkExists, Sync, PublishFails, Settle,
       Finalize, Latest, Exit, Crash, Appending
  <2>5. ASSUME pc[p] \in Appending, pc[p] # "sync" PROVE dir = durable
    BY <2>5 DEF CarefulInv, Exclusive, Appending
  <2>6. acked' \subseteq durable'
    BY <1>1, <2>2, <2>3, <2>4, <2>5, AcksRetained DEF CarefulInv
  <2>7. dir' # durable' => \E q \in Stores : pc'[q] = "sync"
    <3>1. CASE Link(p)
      BY <3>1 DEF Link, Goto, TypeOK
    <3>2. CASE pc[p] = "sync"
      <4>1. Sync(p)
        BY <1>1, <3>2 DEF CarefulInv, StoreStep, OpenBegin, OpenMalformed, OpenScan, AppendBegin,
           RescanRefused, DecideRefuse, DecideAlreadyPresent, Prepare, Link, LinkExists,
           PublishFails, Settle, Finalize, Latest, Exit, Crash, Spend
      <4>. QED  BY <4>1 DEF Sync
    <3>3. CASE pc[p] # "sync" /\ ~ Link(p)
      <4>1. dir' = dir /\ (durable' = durable \/ durable' = dir)
        BY <1>1, <3>3 DEF StoreStep, OpenBegin, OpenMalformed, OpenScan, AppendBegin,
           RescanRefused, DecideRefuse, DecideAlreadyPresent, Prepare, LinkExists, Sync,
           PublishFails, Settle, Finalize, Latest, Exit, Crash, disk
      <4>2. ASSUME NEW q \in Stores, pc[q] = "sync" PROVE pc'[q] = "sync"
        BY <1>1, <3>3, <4>2, OthersStay
      <4>. QED  BY <4>1, <4>2 DEF CarefulInv
    <3>. QED  BY <3>1, <3>2, <3>3
  <2>8. ASSUME NEW q \in Stores, pc'[q] = "settle" PROVE arg'[q] \in durable'
    BY <1>1, <2>3, <2>8, OthersStay, EntersSettle DEF CarefulInv
  <2>. QED  BY <2>1, <2>6, <2>7, <2>8 DEF CarefulInv
<1>2. CASE Rotate
  BY <1>2 DEF Rotate, disk, local, CarefulInv
<1>3. CASE PowerFail
  <2>1. left'["crash"] = 0 /\ left'["io"] = 0
    BY <1>3, SpendLeft DEF PowerFail, Mishaps, CarefulInv
  <2>. QED  BY <1>3, <2>1 DEF PowerFail, CarefulInv
<1>4. CASE Damage
  <2>1. left'["crash"] = 0 /\ left'["io"] = 0
    BY <1>4, SpendLeft DEF Damage, Mishaps, CarefulInv
  <2>. QED  BY <1>4, <2>1 DEF Damage, local, CarefulInv
<1>5. CASE UNCHANGED vars
  BY <1>5 DEF vars, disk, local, CarefulInv
<1>. QED  BY <1>1, <1>2, <1>3, <1>4, <1>5 DEF Next

LEMMA InitExclusive == Init => Exclusive
BY DEF Init, Exclusive, Appending

\* Every head for which an append answered Ok is covered by a directory fsync,
\* through any power failures, if no process dies inside a call and no call
\* fails: the idempotent answer of DecideAlreadyPresent syncs nothing, and does
\* not have to.
THEOREM AnswersAreDurable ==
  ASSUME Budget["crash"] = 0, Budget["io"] = 0
  PROVE  Spec => []AckedDurable
<1>1. Init => TypeOK /\ Exclusive /\ CarefulInv
  BY InitType, InitExclusive DEF Init, CarefulInv
<1>2. TypeOK /\ Exclusive /\ CarefulInv /\ [Next]_vars => (TypeOK /\ Exclusive /\ CarefulInv)'
  BY NextType, NextExclusive, NextCareful
<1>3. CarefulInv => AckedDurable
  BY DEF CarefulInv, AckedDurable
<1>. QED  BY <1>1, <1>2, <1>3, PTL DEF Spec

\* When it is one kind of mishap at most that the budget allows: either power
\* never fails, or no process dies and no call fails inside an append.
OneKindOfMishap == Budget["power"] = 0 \/ (Budget["crash"] = 0 /\ Budget["io"] = 0)

\* Acknowledged heads are retained.
LEMMA AckedRetained ==
  ASSUME OneKindOfMishap
  PROVE  Spec => [](acked \subseteq dir)
<1>1. CASE Budget["power"] = 0
  <2>1. Init => TypeOK /\ PoweredInv
    BY <1>1, InitType DEF Init, PoweredInv, SettlesRetained
  <2>2. TypeOK /\ PoweredInv /\ [Next]_vars => (TypeOK /\ PoweredInv)'
    BY NextType, NextPowered
  <2>3. PoweredInv => acked \subseteq dir
    BY DEF PoweredInv
  <2>. QED  BY <2>1, <2>2, <2>3, PTL DEF Spec
<1>2. CASE Budget["crash"] = 0 /\ Budget["io"] = 0
  <2>1. TypeOK /\ AckedDurable => acked \subseteq dir
    BY DEF TypeOK, AckedDurable
  <2>2. Spec => []AckedDurable
    BY <1>2, AnswersAreDurable
  <2>. QED  BY <2>1, <2>2, TypeCorrect, PTL
<1>. QED  BY <1>1, <1>2 DEF OneKindOfMishap

\* Two heads of one key and sequence are never both answered Ok, even when the
\* directory stamp is too coarse to show every link: hard_link replaces nothing.
THEOREM AnswersAreUnique ==
  ASSUME OneKindOfMishap
  PROVE  Spec => []AckedUnique
<1>1. Spec => []NamesUnique
  BY InitNames, NextNames, PTL DEF Spec
<1>2. NamesUnique /\ acked \subseteq dir => AckedUnique
  BY DEF NamesUnique, AckedUnique, SameName
<1>. QED  BY <1>1, <1>2, AckedRetained, PTL

\* Nothing is ever retained behind or beside a head that was answered Ok.
THEOREM AnswersNeverRegress ==
  ASSUME CoarseStamps = FALSE, OneKindOfMishap
  PROVE  Spec => AckedNeverRegress
<1>1. acked \subseteq dir /\ [\A h \in dir' \ dir : \A g \in dir : Continues(g, h)]_vars
        => [\A h \in dir' \ dir : \A a \in acked : Continues(a, h)]_vars
  OBVIOUS
<1>. QED  BY <1>1, AckedRetained, AppendsOnlyAdvance, PTL DEF AppendsAdvance, AckedNeverRegress

(***************************************************************************)
(* The chain of the retained records.                                      *)
(*                                                                         *)
(* While a store's cache is current, the records under its pins are a      *)
(* chain that every listing order lets a scan accept, and the cached tails *)
(* end it.  This needs pin sets in which no two handovers meet at one      *)
(* journal position: with two of them the comparator of the sort is not    *)
(* transitive, which run checkpoint_twice_rotated shows.                   *)
(***************************************************************************)
\* No two handovers of a pin set start at one sequence of a service.
HandoversApart(c) ==
  \A t, u \in c.handovers : t.svc = u.svc /\ t.seq = u.seq => t = u

\* The order a scan means to establish: by sequence, then by handover.
Before(c, a, b) == a.seq < b.seq \/ ValidEqualSequenceHandover(c, a, b)

Comparable(c, R) ==
  \A a, b \in R : a.svc = b.svc /\ a # b => Before(c, a, b) \/ Before(c, b, a)

Adjacent(c, R, a, b) ==
  /\ a.svc = b.svc /\ Before(c, a, b)
  /\ ~ \E g \in R : g.svc = a.svc /\ Before(c, a, g) /\ Before(c, g, b)

HandedOver(c, R) ==
  \A a, b \in R : Adjacent(c, R, a, b) /\ a.key # b.key => ValidHandover(c, a, b)

Chained(c, R) == Comparable(c, R) /\ HandedOver(c, R)

\* h ends the chain of its service.
IsLast(c, R, h) == h \in R /\ \A g \in R : g.svc = h.svc => g = h \/ Before(c, g, h)

LastOf(c, R, svc, h) ==
  IF OfService(R, svc) = {} THEN h = NoHead ELSE h.svc = svc /\ IsLast(c, R, h)

\* Records as a directory holds them: no two of one name.
Named(R) == R \subseteq Heads /\ \A g, h \in R : SameName(g, h) => g = h

\* Two handovers never follow each other at one position.
LEMMA NoHandoverTwice ==
  ASSUME NEW c, ValidPins(c), HandoversApart(c), NEW a, NEW b, NEW d,
         ValidEqualSequenceHandover(c, a, b)
  PROVE  ~ ValidEqualSequenceHandover(c, b, d)
<1> SUFFICES ASSUME ValidEqualSequenceHandover(c, b, d) PROVE FALSE
  OBVIOUS
<1> DEFINE t == [svc |-> b.svc, old |-> a.key, new |-> b.key, seq |-> a.seq, hash |-> a.hash]
           u == [svc |-> d.svc, old |-> b.key, new |-> d.key, seq |-> b.seq, hash |-> b.hash]
<1>1. t \in c.handovers /\ u \in c.handovers /\ a.seq = b.seq /\ b.svc = d.svc
  BY DEF ValidEqualSequenceHandover, ValidHandover
<1>2. t = u
  BY <1>1 DEF HandoversApart
<1>3. u.old # u.new
  BY <1>1 DEF ValidPins
<1>. QED  BY <1>2, <1>3

\* Before is a strict order.
LEMMA BeforeStrict ==
  ASSUME NEW c, ValidPins(c), HandoversApart(c), NEW a \in Heads, NEW b \in Heads
  PROVE  /\ Before(c, a, b) => a # b /\ a.seq <= b.seq
         /\ ~ (Before(c, a, b) /\ Before(c, b, a))
<1>1. a.seq \in Nat /\ b.seq \in Nat
  BY HeadsAssumption
<1>2. ~ (ValidEqualSequenceHandover(c, a, b) /\ ValidEqualSequenceHandover(c, b, a))
  BY NoHandoverTwice
<1>3. ~ ValidEqualSequenceHandover(c, a, a)
  BY NoHandoverTwice
<1>4. /\ ValidEqualSequenceHandover(c, a, b) => a.seq = b.seq
      /\ ValidEqualSequenceHandover(c, b, a) => a.seq = b.seq
  BY DEF ValidEqualSequenceHandover
<1>. QED  BY <1>1, <1>2, <1>3, <1>4 DEF Before

LEMMA BeforeTransitive ==
  ASSUME NEW c, ValidPins(c), HandoversApart(c),
         NEW a \in Heads, NEW b \in Heads, NEW d \in Heads, Before(c, a, b), Before(c, b, d)
  PROVE  Before(c, a, d)
<1>1. a.seq \in Nat /\ b.seq \in Nat /\ d.seq \in Nat
  BY HeadsAssumption
<1>2. ~ (ValidEqualSequenceHandover(c, a, b) /\ ValidEqualSequenceHandover(c, b, d))
  BY NoHandoverTwice
<1>3. /\ ValidEqualSequenceHandover(c, a, b) => a.seq = b.seq
      /\ ValidEqualSequenceHandover(c, b, d) => b.seq = d.seq
  BY DEF ValidEqualSequenceHandover
<1>. QED  BY <1>1, <1>2, <1>3 DEF Before

\* A listing order names every record once.
LEMMA OrderFacts ==
  ASSUME NEW c, NEW R, R \subseteq Heads, NEW s \in Orders(c, R)
  PROVE  /\ Cardinality(R) \in Nat
         /\ s \in [1..Cardinality(R) -> R]
         /\ \A h \in R : \E i \in 1..Cardinality(R) : s[i] = h
         /\ \A i, j \in 1..Cardinality(R) : s[i] = s[j] => i = j
         /\ \A i, j \in 1..Cardinality(R) : i < j => s[i].seq <= s[j].seq
<1> DEFINE n == Cardinality(R)
<1>1. IsFiniteSet(R) /\ n \in Nat
  BY HeadsAssumption, FS_Subset, FS_CardinalityType
<1>2. /\ s \in [1..n -> R]
      /\ \A h \in R : \E i \in 1..n : s[i] = h
      /\ \A i, j \in 1..n : i < j => s[i].seq <= s[j].seq
  BY DEF Orders
<1>3. IsFiniteSet(1..n) /\ Cardinality(1..n) = n
  BY <1>1, FS_Interval
<1>4. s \in Surjection(1..n, R)
  BY <1>2 DEF Surjection
<1>5. s \in Injection(1..n, R)
  BY <1>3, <1>4, FS_SurjSameCardinalityImpliesInj
<1>6. \A i, j \in 1..n : s[i] = s[j] => i = j
  BY <1>2, <1>5 DEF Injection, IsInjective
<1>. QED  BY <1>1, <1>2, <1>6

\* Where neighbours of one sequence are ordered by a handover, so is the listing.
LEMMA NeighboursOrder ==
  ASSUME NEW c, ValidPins(c), HandoversApart(c), NEW R, R \subseteq Heads, NEW s \in Orders(c, R),
         \A i \in 1..Cardinality(R) :
           i + 1 \in 1..Cardinality(R) /\ s[i].seq = s[i + 1].seq
             => ValidEqualSequenceHandover(c, s[i], s[i + 1])
  PROVE  \A i, j \in 1..Cardinality(R) : i < j <=> Before(c, s[i], s[j])
<1> DEFINE n == Cardinality(R)
<1>0. /\ n \in Nat /\ s \in [1..n -> R]
      /\ \A i, j \in 1..n : i < j => s[i].seq <= s[j].seq
      /\ \A i \in 1..n : s[i] \in Heads /\ s[i].seq \in Nat
  BY OrderFacts, HeadsAssumption
<1>1. ASSUME NEW i \in 1..n, NEW j \in 1..n, i < j PROVE Before(c, s[i], s[j])
  <2>1. CASE s[i].seq < s[j].seq
    BY <2>1 DEF Before
  <2>2. CASE s[i].seq = s[j].seq /\ j = i + 1
    BY <1>1, <2>2 DEF Before
  <2>3. CASE s[i].seq = s[j].seq /\ i + 2 <= j
    <3>1. i + 1 \in 1..n /\ i + 2 \in 1..n /\ i + 1 < i + 2 /\ i < i + 1 /\ i + 1 + 1 = i + 2
      BY <1>0, <1>1, <2>3
    <3>2. s[i].seq <= s[i + 1].seq /\ s[i + 1].seq <= s[i + 2].seq /\ s[i + 2].seq <= s[j].seq
      BY <1>0, <1>1, <2>3, <3>1
    <3>3. s[i].seq = s[i + 1].seq /\ s[i + 1].seq = s[i + 2].seq
      BY <1>0, <2>3, <3>1, <3>2
    <3>4. /\ ValidEqualSequenceHandover(c, s[i], s[i + 1])
          /\ ValidEqualSequenceHandover(c, s[i + 1], s[i + 2])
      BY <3>1, <3>3
    <3>. QED  BY <3>4, NoHandoverTwice
  <2>. QED  BY <1>0, <1>1, <2>1, <2>2, <2>3
<1>2. ASSUME NEW i \in 1..n, NEW j \in 1..n, Before(c, s[i], s[j]) PROVE i < j
  <2>1. CASE j < i
    BY <1>0, <1>1, <1>2, <2>1, BeforeStrict
  <2>2. CASE i = j
    BY <1>0, <1>2, <2>2, BeforeStrict
  <2>. QED  BY <1>0, <2>1, <2>2
<1>. QED  BY <1>1, <1>2

\* Neighbours of a chained listing at one sequence are tied by a handover.
LEMMA ChainTiesNeighbours ==
  ASSUME NEW c, NEW S, NEW svc, Named(S),
         NEW s \in Orders(c, OfService(S, svc)), ChainOk(c, s),
         NEW i \in 1..Cardinality(OfService(S, svc)),
         i + 1 \in 1..Cardinality(OfService(S, svc)), s[i].seq = s[i + 1].seq
  PROVE  ValidEqualSequenceHandover(c, s[i], s[i + 1])
<1> DEFINE R == OfService(S, svc)
           n == Cardinality(R)
<1>1. R \subseteq Heads /\ \A h \in R : h \in S /\ h.svc = svc
  BY DEF OfService, Named
<1>2. /\ s \in [1..n -> R] /\ n \in Nat
      /\ \A j, k \in 1..n : s[j] = s[k] => j = k
  BY <1>1, OrderFacts
<1>3. s[i] # s[i + 1] /\ s[i] \in R /\ s[i + 1] \in R
  BY <1>2
<1>4. s[i].key # s[i + 1].key
  BY <1>1, <1>3 DEF Named, SameName
<1>5. i \in DOMAIN s /\ i + 1 \in DOMAIN s
  BY <1>2
<1>. QED  BY <1>4, <1>5 DEF ChainOk, ValidEqualSequenceHandover

\* What one accepted listing of a service says of its records.
LEMMA ListingChained ==
  ASSUME NEW c, ValidPins(c), HandoversApart(c), NEW S, NEW svc, Named(S),
         NEW s \in Orders(c, OfService(S, svc)), ChainOk(c, s)
  PROVE  /\ Chained(c, OfService(S, svc))
         /\ \A h \in OfService(S, svc) :
              h = s[Cardinality(OfService(S, svc))] \/ Before(c, h, s[Cardinality(OfService(S, svc))])
<1> DEFINE R == OfService(S, svc)
           n == Cardinality(R)
<1>1. R \subseteq Heads
  BY DEF OfService, Named
<1>2. /\ s \in [1..n -> R] /\ n \in Nat /\ DOMAIN s = 1..n
      /\ \A h \in R : \E i \in 1..n : s[i] = h
  BY <1>1, OrderFacts
<1>3. \A i, j \in 1..n : i < j <=> Before(c, s[i], s[j])
  BY <1>1, ChainTiesNeighbours, NeighboursOrder
<1>4. Comparable(c, R)
  <2> SUFFICES ASSUME NEW a \in R, NEW b \in R, a # b PROVE Before(c, a, b) \/ Before(c, b, a)
    BY DEF Comparable
  <2>1. PICK i \in 1..n, j \in 1..n : s[i] = a /\ s[j] = b
    BY <1>2
  <2>2. i < j \/ j < i
    BY <1>2, <2>1
  <2>. QED  BY <1>3, <2>1, <2>2
<1>5. HandedOver(c, R)
  <2> SUFFICES ASSUME NEW a \in R, NEW b \in R, Adjacent(c, R, a, b), a.key # b.key
               PROVE  ValidHandover(c, a, b)
    BY DEF HandedOver
  <2>1. PICK i \in 1..n, j \in 1..n : s[i] = a /\ s[j] = b
    BY <1>2
  <2>2. i < j
    BY <1>3, <2>1 DEF Adjacent
  <2>3. CASE j = i + 1
    BY <1>2, <2>1, <2>3 DEF ChainOk
  <2>4. CASE i + 1 < j
    <3>1. i + 1 \in 1..n /\ i < i + 1
      BY <1>2, <2>4
    <3>2. Before(c, a, s[i + 1]) /\ Before(c, s[i + 1], b) /\ s[i + 1] \in R
      BY <1>2, <1>3, <2>1, <2>4, <3>1
    <3>3. s[i + 1].svc = a.svc
      BY <3>2 DEF OfService
    <3>. QED  BY <3>2, <3>3 DEF Adjacent
  <2>. QED  BY <1>2, <2>2, <2>3, <2>4
<1>6. ASSUME NEW h \in R PROVE h = s[n] \/ Before(c, h, s[n])
  <2>1. PICK i \in 1..n : s[i] = h
    BY <1>2
  <2>2. n \in 1..n /\ (i = n \/ i < n)
    BY <1>2, <2>1
  <2>. QED  BY <1>3, <2>1, <2>2
<1>. QED  BY <1>4, <1>5, <1>6 DEF Chained

\* The chains of the services make the chain of the directory.
LEMMA ServicesChained ==
  ASSUME NEW c, NEW S, \A h \in S : h.svc \in Services,
         \A svc \in Services : Chained(c, OfService(S, svc))
  PROVE  Chained(c, S)
<1>1. Comparable(c, S)
  <2> SUFFICES ASSUME NEW a \in S, NEW b \in S, a.svc = b.svc, a # b
               PROVE  Before(c, a, b) \/ Before(c, b, a)
    BY DEF Comparable
  <2>1. a \in OfService(S, a.svc) /\ b \in OfService(S, a.svc) /\ a.svc \in Services
    BY DEF OfService
  <2>. QED  BY <2>1 DEF Chained, Comparable
<1>2. HandedOver(c, S)
  <2> SUFFICES ASSUME NEW a \in S, NEW b \in S, Adjacent(c, S, a, b), a.key # b.key
               PROVE  ValidHandover(c, a, b)
    BY DEF HandedOver
  <2>1. /\ a \in OfService(S, a.svc) /\ b \in OfService(S, a.svc) /\ a.svc \in Services
        /\ Adjacent(c, OfService(S, a.svc), a, b)
    BY DEF OfService, Adjacent
  <2>. QED  BY <2>1 DEF Chained, HandedOver
<1>. QED  BY <1>1, <1>2 DEF Chained

\* A scan that succeeds shows a chain, and caches the records that end it.
LEMMA ScanChained ==
  ASSUME NEW c, ValidPins(c), HandoversApart(c), NEW S, Named(S), NEW bad,
         NEW latest \in [Services -> S \cup {NoHead}], ScanOk(c, S, bad, latest)
  PROVE  /\ Chained(c, S)
         /\ \A svc \in Services : LastOf(c, S, svc, latest[svc])
         /\ \A h \in S : VerifyRetained(c, h)
         /\ S \cap bad = {}
<1>1. ASSUME NEW svc \in Services
      PROVE  Chained(c, OfService(S, svc)) /\ LastOf(c, S, svc, latest[svc])
  <2> DEFINE R == OfService(S, svc)
             n == Cardinality(R)
  <2>1. ScanTail(c, S, svc, latest[svc])
    BY DEF ScanOk
  <2>2. CASE R = {}
    BY <2>1, <2>2 DEF ScanTail, LastOf, Chained, Comparable, HandedOver
  <2>3. CASE R # {}
    <3>1. PICK s \in Orders(c, R) : ChainOk(c, s) /\ latest[svc] = s[n]
      BY <2>1, <2>3 DEF ScanTail
    <3>2. Chained(c, R) /\ \A h \in R : h = s[n] \/ Before(c, h, s[n])
      BY <3>1, ListingChained
    <3>3. s[n] \in R
      <4>1. R \subseteq Heads
        BY DEF OfService, Named
      <4>2. s \in [1..n -> R] /\ n \in Nat /\ \A h \in R : \E i \in 1..n : s[i] = h
        BY <4>1, OrderFacts
      <4>. QED  BY <2>3, <4>2
    <3>4. s[n].svc = svc /\ IsLast(c, S, s[n])
      BY <3>2, <3>3 DEF IsLast, OfService
    <3>. QED  BY <2>3, <3>1, <3>2, <3>4 DEF LastOf
  <2>. QED  BY <2>2, <2>3
<1>2. \A h \in S : h.svc \in Services
  BY HeadsAssumption DEF Named
<1>3. Chained(c, S)
  BY <1>1, <1>2, ServicesChained
<1>. QED  BY <1>1, <1>3 DEF ScanOk

\* A chain is accepted in whatever order the directory lists it.
LEMMA ChainAccepted ==
  ASSUME NEW c, ValidPins(c), HandoversApart(c), NEW S, Named(S), Chained(c, S)
  PROVE  ~ MayRefuseChain(c, S)
<1> SUFFICES ASSUME NEW m \in S, NEW s \in Orders(c, OfService(S, m.svc))
             PROVE  ChainOk(c, s)
  BY DEF MayRefuseChain
<1> DEFINE R == OfService(S, m.svc)
           n == Cardinality(R)
<1>1. R \subseteq Heads /\ \A h \in R : h \in S /\ h.svc = m.svc
  BY DEF OfService, Named
<1>2. /\ s \in [1..n -> R] /\ n \in Nat /\ DOMAIN s = 1..n
      /\ \A h \in R : \E i \in 1..n : s[i] = h
      /\ \A i, j \in 1..n : s[i] = s[j] => i = j
      /\ \A i, j \in 1..n : i < j => s[i].seq <= s[j].seq
  BY <1>1, OrderFacts
<1>3. ASSUME NEW i \in 1..n, i + 1 \in 1..n, s[i].seq = s[i + 1].seq
      PROVE  ValidEqualSequenceHandover(c, s[i], s[i + 1])
  <2> DEFINE a == s[i]
             b == s[i + 1]
  <2>1. a \in R /\ b \in R /\ a # b /\ a.seq \in Nat /\ i < n
    BY <1>1, <1>2, <1>3, HeadsAssumption
  <2>2. Before(c, a, b) \/ Before(c, b, a)
    BY <1>1, <2>1 DEF Chained, Comparable
  <2>3. ValidEqualSequenceHandover(c, a, b) \/ ValidEqualSequenceHandover(c, b, a)
    BY <1>3, <2>1, <2>2 DEF Before
  <2>4. TieBefore(c, a, b) \/ ~ TieBefore(c, b, a)
    BY <1>3, <2>1 DEF Orders
  <2>. QED  BY <2>3, <2>4 DEF TieBefore
<1>4. \A i, j \in 1..n : i < j <=> Before(c, s[i], s[j])
  BY <1>1, <1>3, NeighboursOrder
<1>5. ASSUME NEW i \in 1..n, i + 1 \in 1..n, s[i].key # s[i + 1].key
      PROVE  ValidHandover(c, s[i], s[i + 1])
  <2> DEFINE a == s[i]
             b == s[i + 1]
  <2>1. a \in S /\ b \in S /\ a.svc = m.svc /\ b.svc = m.svc /\ Before(c, a, b)
    BY <1>1, <1>2, <1>4, <1>5
  <2>2. ASSUME NEW g \in S, g.svc = a.svc, Before(c, a, g), Before(c, g, b) PROVE FALSE
    <3>1. g \in R
      BY <2>1, <2>2 DEF OfService
    <3>2. PICK k \in 1..n : s[k] = g
      BY <1>2, <3>1
    <3>3. i < k /\ k < i + 1
      BY <1>4, <1>5, <2>2, <3>2
    <3>. QED  BY <1>2, <3>3
  <2>3. Adjacent(c, S, a, b)
    BY <2>1, <2>2 DEF Adjacent
  <2>. QED  BY <1>5, <2>1, <2>3 DEF Chained, HandedOver
<1>6. ASSUME NEW i \in 1..n, i + 1 \in 1..n, s[i].key # s[i + 1].key, s[i].seq = s[i + 1].seq
      PROVE  s[i].hash = s[i + 1].hash
  BY <1>3, <1>6 DEF ValidEqualSequenceHandover
<1>7. ASSUME NEW i \in 1..n, NEW j \in 1..n, i # j, i + 1 \in 1..n, j + 1 \in 1..n,
             s[i].key # s[i + 1].key, s[j].key # s[j + 1].key
      PROVE  s[i + 1].key # s[j + 1].key
  <2> SUFFICES ASSUME s[i + 1].key = s[j + 1].key PROVE FALSE
    OBVIOUS
  <2> DEFINE H(k) == [svc |-> s[k + 1].svc, old |-> s[k].key, new |-> s[k + 1].key,
                      seq |-> s[k].seq, hash |-> s[k].hash]
  <2>1. H(i) \in c.handovers /\ H(j) \in c.handovers
    BY <1>5, <1>7 DEF ValidHandover
  <2>2. s[i] \in R /\ s[j] \in R /\ s[i + 1] \in R /\ s[j + 1] \in R
    BY <1>2, <1>7
  <2>3. s[i].svc = m.svc /\ s[j].svc = m.svc /\ s[i + 1].svc = m.svc /\ s[j + 1].svc = m.svc
    BY <1>1, <2>2
  <2>4. H(i) = H(j)
    BY <2>1, <2>3 DEF ValidPins
  <2>5. s[i].key = s[j].key /\ s[i].seq = s[j].seq
    <3>1. H(i).old = s[i].key /\ H(j).old = s[j].key /\ H(i).seq = s[i].seq /\ H(j).seq = s[j].seq
      OBVIOUS
    <3>. QED  BY <2>4, <3>1
  <2>6. s[i] = s[j]
    BY <1>1, <2>2, <2>3, <2>5 DEF Named, SameName
  <2>. QED  BY <1>2, <1>7, <2>6
<1>. QED  BY <1>2, <1>5, <1>6, <1>7 DEF ChainOk

\* A record that advances the end of the chain becomes its end.
LEMMA LinkChains ==
  ASSUME NEW c, ValidPins(c), HandoversApart(c), NEW S, Named(S), Chained(c, S),
         NEW h \in Heads, Named(S \cup {h}), NEW t, LastOf(c, S, h.svc, t), Advances(c, t, h)
  PROVE  /\ h \notin S
         /\ Chained(c, S \cup {h})
         /\ IsLast(c, S \cup {h}, h)
         /\ \A svc \in Services \ {h.svc} : \A l : LastOf(c, S, svc, l) => LastOf(c, S \cup {h}, svc, l)
<1> DEFINE T == S \cup {h}
<1>0. T \subseteq Heads /\ \A g \in T : g.seq \in Nat
  BY HeadsAssumption DEF Named
<1>1. ASSUME NEW g \in S, g.svc = h.svc
      PROVE  /\ t \in S /\ t.svc = h.svc /\ Before(c, t, h)
             /\ t.key # h.key => ValidHandover(c, t, h)
             /\ g = t \/ Before(c, g, t)
             /\ Before(c, g, h)
  <2>1. OfService(S, h.svc) # {}
    BY <1>1 DEF OfService
  <2>2. t.svc = h.svc /\ IsLast(c, S, t)
    BY <2>1 DEF LastOf
  <2>3. t \in Heads /\ t # NoHead
    BY <2>2, HeadsAssumption DEF IsLast, Named
  <2>4. Before(c, t, h) /\ (t.key # h.key => ValidHandover(c, t, h))
    BY <2>3 DEF Advances, Before
  <2>5. g = t \/ Before(c, g, t)
    BY <1>1, <2>2 DEF IsLast
  <2>6. Before(c, g, h)
    BY <1>0, <2>3, <2>4, <2>5, BeforeTransitive
  <2>. QED  BY <2>2, <2>4, <2>5, <2>6 DEF IsLast
<1>2. h \notin S
  BY <1>1, BeforeStrict
<1>3. IsLast(c, T, h)
  BY <1>1 DEF IsLast
<1>4. Comparable(c, T)
  BY <1>1 DEF Chained, Comparable
<1>5. HandedOver(c, T)
  <2> SUFFICES ASSUME NEW a \in T, NEW b \in T, Adjacent(c, T, a, b), a.key # b.key
               PROVE  ValidHandover(c, a, b)
    BY DEF HandedOver
  <2>1. CASE a \in S /\ b \in S
    <3>1. Adjacent(c, S, a, b)
      BY DEF Adjacent
    <3>. QED  BY <2>1, <3>1 DEF Chained, HandedOver
  <2>2. CASE a \in S /\ b = h
    <3>1. a = t
      BY <1>1, <2>2 DEF Adjacent
    <3>. QED  BY <1>1, <2>2, <3>1 DEF Adjacent
  <2>3. CASE a = h
    <3>1. b = h \/ Before(c, b, h)
      BY <1>1, <2>3 DEF Adjacent
    <3>. QED  BY <1>0, <2>3, <3>1, BeforeStrict DEF Adjacent
  <2>. QED  BY <2>1, <2>2, <2>3
<1>6. ASSUME NEW svc \in Services \ {h.svc}, NEW l, LastOf(c, S, svc, l)
      PROVE  LastOf(c, T, svc, l)
  BY <1>6 DEF LastOf, IsLast, OfService
<1>. QED  BY <1>2, <1>3, <1>4, <1>5, <1>6 DEF Chained

(***************************************************************************)
(* The chain as an invariant of the stores.                                *)
(***************************************************************************)
PackagedApart == \A n \in DOMAIN Configs : HandoversApart(Configs[n])

\* The directory is a chain under p's pins, and latest names its ends.
ChainAt(p, latest) ==
  /\ \A h \in dir : VerifyRetained(Pins(p), h)
  /\ Chained(Pins(p), dir)
  /\ \A svc \in Services : LastOf(Pins(p), dir, svc, latest[svc])

PinsValid(p) == pc[p] # "closed" => ValidPins(Pins(p))

CacheChained(p) ==
  pc[p] \notin {"closed", "opening"} /\ cache[p].stamp = stamp => ChainAt(p, cache[p].latest)

PublishLive(p) == pc[p] = "publish" => VerifyLive(Pins(p), arg[p])

LinkChained(p) ==
  pc[p] \in {"sync", "finalize"} =>
    ChainAt(p, [cache[p].latest EXCEPT ![arg[p].svc] = arg[p]])

\* With an exact stamp nobody else can have linked the very record that a store
\* is about to link: the branch that settles is never taken.
NeverSettles(p) == pc[p] # "settle"

ChainStore(p) ==
  PinsValid(p) /\ CacheChained(p) /\ PublishLive(p) /\ LinkChained(p) /\ NeverSettles(p)

ChainInv == NamesUnique /\ \A p \in Stores : ChainStore(p)

\* A step of one store that links nothing leaves the others' part alone.
LEMMA ChainFrame ==
  ASSUME UNCHANGED <<dir, stamp>>, NEW q \in Stores, ChainStore(q), Unmoved(q)
  PROVE  ChainStore(q)'
BY DEF ChainStore, Unmoved, PinsValid, CacheChained, PublishLive, LinkChained, NeverSettles,
       ChainAt, Pins

LEMMA PinsApart ==
  ASSUME TypeOK, PackagedApart, NEW p \in Stores
  PROVE  HandoversApart(Pins(p))
BY DEF TypeOK, PackagedApart, Pins

LEMMA DirNamed ==
  ASSUME TypeOK, NamesUnique
  PROVE  Named(dir)
BY DEF TypeOK, NamesUnique, Named

LEMMA ReconcileChained ==
  ASSUME TypeOK, NamesUnique, PackagedApart, NEW p \in Stores, ValidPins(Pins(p)), Reconcile(p),
         UNCHANGED <<dir, cfg>>
  PROVE  ChainAt(p, cache[p].latest)' /\ dir \cap damaged = {}
<1>1. PICK latest \in [Services -> dir \cup {NoHead}] :
        ScanOk(Pins(p), dir, damaged, latest) /\ Cache(p, stamp, latest)
  BY DEF Reconcile
<1>2. /\ Chained(Pins(p), dir)
      /\ \A svc \in Services : LastOf(Pins(p), dir, svc, latest[svc])
      /\ \A h \in dir : VerifyRetained(Pins(p), h)
      /\ dir \cap damaged = {}
  BY <1>1, PinsApart, DirNamed, ScanChained
<1>3. cache'[p].latest = latest
  BY <1>1 DEF Cache, TypeOK
<1>4. Pins(p)' = Pins(p) /\ dir' = dir
  BY DEF Pins
<1>. QED  BY <1>2, <1>3, <1>4 DEF ChainAt

LEMMA ClosedChain ==
  ASSUME TypeOK, NEW p \in Stores, Closed(p)
  PROVE  ChainStore(p)'
<1>1. pc'[p] = "closed"
  BY DEF Closed, Goto, TypeOK
<1>. QED
  BY <1>1 DEF ChainStore, PinsValid, CacheChained, PublishLive, LinkChained, NeverSettles

LEMMA DoneChain ==
  ASSUME TypeOK, ChainInv, NEW p \in Stores, Done(p), UNCHANGED <<dir, stamp, cfg, cache>>,
         pc[p] \in Appending
  PROVE  ChainStore(p)'
<1>1. pc'[p] = "idle"
  BY DEF Done, Goto, TypeOK
<1>2. Pins(p)' = Pins(p) /\ cache'[p] = cache[p]
  BY DEF Pins
<1>3. PinsValid(p) /\ CacheChained(p)
  BY DEF ChainInv, ChainStore
<1>4. PinsValid(p)'
  BY <1>1, <1>2, <1>3 DEF PinsValid, Appending
<1>5. CacheChained(p)'
  BY <1>1, <1>2, <1>3 DEF CacheChained, ChainAt, Appending
<1>. QED
  BY <1>1, <1>4, <1>5 DEF ChainStore, PublishLive, LinkChained, NeverSettles

\* A store whose cache was just filled from the directory as it is.
LEMMA FreshChain ==
  ASSUME NEW p \in Stores, pc'[p] \in {"idle", "decide"}, ValidPins(Pins(p))',
         ChainAt(p, cache[p].latest)'
  PROVE  ChainStore(p)'
BY DEF ChainStore, PinsValid, CacheChained, PublishLive, LinkChained, NeverSettles

LEMMA OpeningChain ==
  ASSUME NEW p \in Stores, pc'[p] = "opening", ValidPins(Pins(p))'
  PROVE  ChainStore(p)'
BY DEF ChainStore, PinsValid, CacheChained, PublishLive, LinkChained, NeverSettles

\* The record about to be linked is new, and becomes the end of the chain.
LEMMA PublishChain ==
  ASSUME IInv, ChainInv, PackagedApart, NEW p \in Stores, pc[p] = "publish",
         NEW D, Named(D), D = dir \cup {arg[p]}
  PROVE  /\ arg[p] \notin dir
         /\ Chained(Pins(p), D)
         /\ \A svc \in Services :
              LastOf(Pins(p), D, svc, [cache[p].latest EXCEPT ![arg[p].svc] = arg[p]][svc])
<1> DEFINE c == Pins(p)
           h == arg[p]
           l == cache[p].latest
<1>1. h \in Heads /\ h.svc \in Services /\ l \in [Services -> HeadOrNone]
  BY HeadsAssumption DEF IInv, TypeOK, Appending
<1>2. ValidPins(c) /\ HandoversApart(c) /\ Named(dir)
  BY PinsApart, DirNamed DEF IInv, ChainInv, ChainStore, PinsValid
<1>3. cache[p].stamp = stamp /\ Advances(c, Tail(p), h)
  BY DEF IInv, StoreInv, DecidesFresh, PublishAdvances
<1>4. Chained(c, dir) /\ \A svc \in Services : LastOf(c, dir, svc, l[svc])
  BY <1>3 DEF ChainInv, ChainStore, CacheChained, ChainAt
<1>5. LastOf(c, dir, h.svc, Tail(p))
  BY <1>1, <1>4 DEF Tail
<1>6. /\ h \notin dir /\ Chained(c, D) /\ IsLast(c, D, h)
      /\ \A svc \in Services \ {h.svc} : \A m : LastOf(c, dir, svc, m) => LastOf(c, D, svc, m)
  BY <1>1, <1>2, <1>3, <1>4, <1>5, LinkChains
<1>7. ASSUME NEW svc \in Services PROVE LastOf(c, D, svc, [l EXCEPT ![h.svc] = h][svc])
  <2>1. CASE svc = h.svc
    BY <1>1, <1>6, <2>1 DEF LastOf, OfService
  <2>2. CASE svc # h.svc
    BY <1>1, <1>4, <1>6, <2>2
  <2>. QED  BY <2>1, <2>2
<1>. QED  BY <1>6, <1>7

LEMMA LinkChain ==
  ASSUME IInv, ChainInv, PackagedApart, CoarseStamps = FALSE, TypeOK', NamesUnique',
         NEW p \in Stores, Link(p)
  PROVE  ChainStore(p)'
<1>1. /\ pc[p] = "publish" /\ pc'[p] = "sync" /\ dir' = dir \cup {arg[p]}
      /\ UNCHANGED <<cfg, cache, arg>>
  BY DEF Link, Goto, IInv, TypeOK
<1>2. Named(dir')
  BY DEF Named, TypeOK, NamesUnique
<1>3. /\ Chained(Pins(p), dir')
      /\ \A svc \in Services :
           LastOf(Pins(p), dir', svc, [cache[p].latest EXCEPT ![arg[p].svc] = arg[p]][svc])
  BY <1>1, <1>2, PublishChain
<1>4. \A h \in dir' : VerifyRetained(Pins(p), h)
  <2>1. \A h \in dir : VerifyRetained(Pins(p), h)
    BY <1>1 DEF IInv, StoreInv, DecidesFresh, ChainInv, ChainStore, CacheChained, ChainAt
  <2>2. VerifyRetained(Pins(p), arg[p])
    BY <1>1 DEF ChainInv, ChainStore, PublishLive, VerifyLive
  <2>. QED  BY <1>1, <2>1, <2>2
<1>5. Pins(p)' = Pins(p) /\ cache'[p] = cache[p] /\ arg'[p] = arg[p]
  BY <1>1 DEF Pins
<1>6. LinkChained(p)'
  BY <1>3, <1>4, <1>5 DEF LinkChained, ChainAt
<1>7. ValidPins(Pins(p))'
  BY <1>1, <1>5 DEF ChainInv, ChainStore, PinsValid
<1>8. CacheChained(p)'
  <2>1. cache[p].stamp = stamp /\ stamp' = stamp + 1 /\ stamp \in Nat
    BY <1>1 DEF IInv, TypeOK, StoreInv, DecidesFresh, Link
  <2>. QED  BY <1>5, <2>1 DEF CacheChained
<1>. QED
  BY <1>1, <1>6, <1>7, <1>8 DEF ChainStore, PinsValid, PublishLive, NeverSettles

\* The other stores do not append, and their caches are stale now.
LEMMA LinkOthersChain ==
  ASSUME IInv, ChainInv, CoarseStamps = FALSE, NEW p \in Stores, Link(p), NEW q \in Stores \ {p}
  PROVE  ChainStore(q)'
<1>1. /\ pc[p] = "publish" /\ UNCHANGED <<cfg, cache, arg>> /\ stamp' = stamp + 1
      /\ pc'[q] = pc[q]
  BY DEF Link, Goto, IInv, TypeOK
<1>2. pc[q] \notin Appending
  BY <1>1 DEF IInv, Exclusive, Appending
<1>3. cache[q].stamp \in Nat /\ stamp \in Nat /\ cache[q].stamp <= stamp
  BY DEF IInv, TypeOK, StoreInv, StampsPast
<1>4. PinsValid(q)'
  BY <1>1 DEF ChainInv, ChainStore, PinsValid, Pins
<1>5. CacheChained(q)'
  BY <1>1, <1>3 DEF CacheChained
<1>. QED
  BY <1>1, <1>2, <1>4, <1>5 DEF ChainStore, PublishLive, LinkChained, NeverSettles, Appending

LEMMA OpenScanChain ==
  ASSUME IInv, ChainInv, PackagedApart, NEW p \in Stores, OpenScan(p)
  PROVE  ChainStore(p)' /\ UNCHANGED <<dir, stamp>> /\ \A q \in Stores \ {p} : Unmoved(q)
<1>1. PICK R \in Listings(p), bad \in Garbled(p) :
        \/ OpenAccept(p, R, bad) \/ OpenRescan(p, R, bad)
        \/ OpenGiveUp(p, R, bad) \/ OpenReject(p, R, bad)
  BY DEF OpenScan
<1>2. pc[p] = "opening" /\ UNCHANGED <<dir, stamp>> /\ ValidPins(Pins(p))
  BY DEF OpenScan, disk, ChainInv, ChainStore, PinsValid
<1>3. CASE OpenAccept(p, R, bad)
  <2>1. R = dir
    BY <1>2, <1>3 DEF OpenAccept, Listings, IInv, StoreInv, SnapTrue
  <2>2. PICK latest \in [Services -> R \cup {NoHead}] :
          ScanOk(Pins(p), R, bad, latest) /\ Cache(p, stamp, latest)
    BY <1>3 DEF OpenAccept
  <2>3. /\ Chained(Pins(p), dir)
        /\ \A svc \in Services : LastOf(Pins(p), dir, svc, latest[svc])
        /\ \A h \in dir : VerifyRetained(Pins(p), h)
    BY <1>2, <2>1, <2>2, PinsApart, DirNamed, ScanChained DEF IInv, ChainInv
  <2>4. /\ pc'[p] = "idle" /\ cache'[p].latest = latest /\ Pins(p)' = Pins(p)
        /\ \A q \in Stores \ {p} : Unmoved(q)
    BY <1>3, <2>2 DEF OpenAccept, Cache, Goto, IInv, TypeOK, Unmoved, Pins
  <2>5. ChainAt(p, cache[p].latest)'
    BY <1>2, <2>3, <2>4 DEF ChainAt
  <2>. QED  BY <1>2, <2>4, <2>5, FreshChain
<1>4. CASE OpenRescan(p, R, bad)
  <2>1. /\ pc'[p] = "opening" /\ Pins(p)' = Pins(p)
        /\ \A q \in Stores \ {p} : Unmoved(q)
    BY <1>2, <1>4 DEF OpenRescan, StartScan, IInv, TypeOK, Unmoved, Pins
  <2>. QED  BY <1>2, <2>1, OpeningChain
<1>5. CASE Closed(p)
  <2>1. \A q \in Stores \ {p} : Unmoved(q)
    BY <1>5 DEF Closed, Goto, IInv, TypeOK, Unmoved
  <2>. QED  BY <1>2, <1>5, <2>1, ClosedChain DEF IInv
<1>. QED  BY <1>1, <1>3, <1>4, <1>5 DEF OpenGiveUp, OpenReject

LEMMA AppendBeginChain ==
  ASSUME IInv, ChainInv, PackagedApart, NEW p \in Stores, NEW h \in Heads, AppendBegin(p, h)
  PROVE  ChainStore(p)' /\ UNCHANGED <<dir, stamp>> /\ \A q \in Stores \ {p} : Unmoved(q)
<1>1. /\ pc[p] = "idle" /\ pc'[p] = "decide" /\ UNCHANGED <<dir, stamp, snap, cfg>>
  BY DEF AppendBegin, Goto, IInv, TypeOK, disk
<1>2. ValidPins(Pins(p)) /\ Pins(p)' = Pins(p)
  BY <1>1 DEF ChainInv, ChainStore, PinsValid, Pins
<1>3. CASE CacheFresh(p) /\ UNCHANGED cache
  <2>1. ChainAt(p, cache[p].latest)'
    BY <1>1, <1>2, <1>3 DEF ChainInv, ChainStore, CacheChained, CacheFresh, ChainAt
  <2>2. \A q \in Stores \ {p} : Unmoved(q)
    BY <1>1, <1>3 DEF AppendBegin, Goto, IInv, TypeOK, Unmoved
  <2>. QED  BY <1>1, <1>2, <2>1, <2>2, FreshChain
<1>4. CASE Reconcile(p)
  <2>1. ChainAt(p, cache[p].latest)'
    BY <1>1, <1>2, <1>4, ReconcileChained DEF IInv, ChainInv
  <2>2. \A q \in Stores \ {p} : cache'[q] = cache[q]
    BY <1>4, ReconcileNewest DEF IInv
  <2>3. \A q \in Stores \ {p} : Unmoved(q)
    BY <1>1, <2>2 DEF AppendBegin, Goto, IInv, TypeOK, Unmoved
  <2>. QED  BY <1>1, <1>2, <2>1, <2>3, FreshChain
<1>. QED  BY <1>3, <1>4 DEF AppendBegin

\* Moving within an append, with the cache and the directory as they were.
LEMMA MoveChain ==
  ASSUME IInv, ChainInv, NEW p \in Stores, NEW to, Goto(p, to),
         UNCHANGED <<dir, stamp, cfg, snap, cache, arg>>,
         \/ to = "publish" /\ pc[p] = "decide" /\ VerifyLive(Pins(p), arg[p])
         \/ to = "finalize" /\ pc[p] = "sync"
  PROVE  ChainStore(p)' /\ \A q \in Stores \ {p} : Unmoved(q)
<1>1. pc'[p] = to /\ \A q \in Stores \ {p} : Unmoved(q)
  BY DEF Goto, IInv, TypeOK, Unmoved
<1>2. ChainStore(p)
  BY DEF ChainInv
<1>3. CASE to = "publish" /\ pc[p] = "decide" /\ VerifyLive(Pins(p), arg[p])
  BY <1>1, <1>2, <1>3 DEF ChainStore, PinsValid, CacheChained, PublishLive, LinkChained,
     NeverSettles, ChainAt, Pins
<1>4. CASE to = "finalize" /\ pc[p] = "sync"
  BY <1>1, <1>2, <1>4 DEF ChainStore, PinsValid, CacheChained, PublishLive, LinkChained,
     NeverSettles, ChainAt, Pins
<1>. QED  BY <1>1, <1>3, <1>4

LEMMA FinalizeChain ==
  ASSUME IInv, ChainInv, NEW p \in Stores, Finalize(p)
  PROVE  ChainStore(p)' /\ UNCHANGED <<dir, stamp>> /\ \A q \in Stores \ {p} : Unmoved(q)
<1>1. pc[p] = "finalize" /\ Done(p) /\ UNCHANGED <<dir, stamp, cfg, snap>>
  BY DEF Finalize, disk
<1>2. CASE UNCHANGED cache
  BY <1>1, <1>2, DoneChain, DoneInv DEF IInv, Appending
<1>3. CASE Cache(p, stamp, [cache[p].latest EXCEPT ![arg[p].svc] = arg[p]])
  <2>1. ChainAt(p, [cache[p].latest EXCEPT ![arg[p].svc] = arg[p]]) /\ ValidPins(Pins(p))
    BY <1>1 DEF ChainInv, ChainStore, LinkChained, PinsValid
  <2>2. /\ pc'[p] = "idle" /\ Pins(p)' = Pins(p)
        /\ cache'[p].latest = [cache[p].latest EXCEPT ![arg[p].svc] = arg[p]]
        /\ \A q \in Stores \ {p} : Unmoved(q)
    BY <1>1, <1>3 DEF Cache, Done, Goto, IInv, TypeOK, Unmoved, Pins
  <2>3. ChainAt(p, cache[p].latest)'
    BY <1>1, <2>1, <2>2 DEF ChainAt
  <2>. QED  BY <1>1, <2>1, <2>2, <2>3, FreshChain
<1>. QED  BY <1>1, <1>2, <1>3 DEF Finalize

LEMMA LatestChain ==
  ASSUME IInv, ChainInv, PackagedApart, NEW p \in Stores, NEW svc \in Services, Latest(p, svc)
  PROVE  ChainStore(p)' /\ UNCHANGED <<dir, stamp>> /\ \A q \in Stores \ {p} : Unmoved(q)
<1>1. pc[p] = "idle" /\ UNCHANGED <<dir, stamp, pc, cfg, snap, arg>>
  BY DEF Latest, disk
<1>2. CASE UNCHANGED cache
  <2>1. \A q \in Stores : Unmoved(q)
    BY <1>1, <1>2 DEF Unmoved
  <2>. QED  BY <1>1, <2>1, ChainFrame DEF ChainInv
<1>3. CASE Reconcile(p)
  <2>1. ValidPins(Pins(p)) /\ Pins(p)' = Pins(p)
    BY <1>1 DEF ChainInv, ChainStore, PinsValid, Pins
  <2>2. ChainAt(p, cache[p].latest)'
    BY <1>1, <1>3, <2>1, ReconcileChained DEF IInv, ChainInv
  <2>3. \A q \in Stores \ {p} : Unmoved(q)
    BY <1>1, <1>3, ReconcileNewest DEF IInv, Unmoved
  <2>. QED  BY <1>1, <2>1, <2>2, <2>3, FreshChain
<1>. QED  BY <1>2, <1>3 DEF Latest

LEMMA LinkExistsChain ==
  ASSUME IInv, ChainInv, PackagedApart, NEW p \in Stores, LinkExists(p)
  PROVE  ChainStore(p)' /\ UNCHANGED <<dir, stamp>> /\ \A q \in Stores \ {p} : Unmoved(q)
<1>1. pc[p] = "publish" /\ UNCHANGED <<dir, stamp, cfg, snap, cache>>
  BY DEF LinkExists
<1>2. ASSUME arg[p] \in dir PROVE FALSE
  <2>1. Named(dir) /\ dir = dir \cup {arg[p]}
    BY <1>2, DirNamed DEF IInv, ChainInv
  <2>. QED  BY <1>1, <1>2, <2>1, PublishChain
<1>3. Done(p)
  BY <1>2 DEF LinkExists, ExactRecord
<1>. QED  BY <1>1, <1>3, DoneChain, DoneInv DEF IInv, Appending

LEMMA StepChain ==
  ASSUME IInv, ChainInv, PackagedApart, CoarseStamps = FALSE, TypeOK', NamesUnique',
         NEW p \in Stores, StoreStep(p)
  PROVE  ChainInv'
<1> DEFINE Own == ChainStore(p)' /\ UNCHANGED <<dir, stamp>> /\ \A q \in Stores \ {p} : Unmoved(q)
<1>a. ASSUME Own PROVE ChainInv'
  BY <1>a, ChainFrame DEF ChainInv
<1>b. ASSUME UNCHANGED <<dir, stamp, local>> PROVE ChainInv'
  <2>1. \A q \in Stores : Unmoved(q)
    BY <1>b DEF local, Unmoved
  <2>. QED  BY <1>b, <2>1, ChainFrame DEF ChainInv
<1>c. ASSUME Done(p), UNCHANGED <<dir, stamp, cfg, snap, cache>>, pc[p] \in Appending PROVE Own
  BY <1>c, DoneChain, DoneInv DEF IInv
<1>d. ASSUME Closed(p), UNCHANGED <<dir, stamp>> PROVE Own
  BY <1>d, ClosedChain, ClosedInv DEF IInv
<1>1. CASE OpenBegin(p)
  <2>1. /\ pc'[p] = "opening" /\ UNCHANGED <<dir, stamp>> /\ cfg'[p] = gen
        /\ ValidPins(Configs[gen]) /\ \A q \in Stores \ {p} : Unmoved(q)
    BY <1>1 DEF OpenBegin, StartScan, Goto, IInv, TypeOK, Unmoved, disk
  <2>2. ValidPins(Pins(p))'
    BY <2>1 DEF Pins
  <2>. QED  BY <1>a, <2>1, <2>2, OpeningChain
<1>2. CASE OpenMalformed(p)
  BY <1>2, <1>b DEF OpenMalformed, disk
<1>3. CASE OpenScan(p)
  BY <1>a, <1>3, OpenScanChain
<1>4. ASSUME NEW h \in Heads, AppendBegin(p, h) PROVE ChainInv'
  BY <1>a, <1>4, AppendBeginChain
<1>5. ASSUME NEW h \in Heads \cup {NoHead}, RescanRefused(p, h) PROVE ChainInv'
  BY <1>5, <1>b DEF RescanRefused, disk
<1>6. CASE DecideRefuse(p)
  BY <1>a, <1>c, <1>6 DEF DecideRefuse, disk, Appending
<1>7. CASE DecideAlreadyPresent(p)
  BY <1>a, <1>c, <1>7 DEF DecideAlreadyPresent, disk, Appending
<1>8. CASE Prepare(p)
  <2>1. pc[p] = "decide" /\ UNCHANGED <<dir, stamp, cfg, snap, cache>> /\ VerifyLive(Pins(p), arg[p])
    BY <1>8 DEF Prepare, disk
  <2>2. CASE Goto(p, "publish") /\ UNCHANGED arg
    BY <1>a, <2>1, <2>2, MoveChain
  <2>3. CASE Done(p)
    BY <1>a, <1>c, <2>1, <2>3 DEF Appending
  <2>. QED  BY <1>8, <2>2, <2>3 DEF Prepare
<1>9. CASE Link(p)
  <2>1. \A q \in Stores : ChainStore(q)'
    BY <1>9, LinkChain, LinkOthersChain
  <2>. QED  BY <2>1 DEF ChainInv
<1>10. CASE LinkExists(p)
  BY <1>a, <1>10, LinkExistsChain
<1>11. CASE Sync(p)
  BY <1>a, <1>11, MoveChain DEF Sync
<1>12. CASE PublishFails(p)
  BY <1>a, <1>c, <1>12 DEF PublishFails, disk, Appending
<1>13. CASE Settle(p)
  BY <1>13 DEF Settle, ChainInv, ChainStore, NeverSettles
<1>14. CASE Finalize(p)
  BY <1>a, <1>14, FinalizeChain
<1>15. ASSUME NEW svc \in Services, Latest(p, svc) PROVE ChainInv'
  BY <1>a, <1>15, LatestChain
<1>16. CASE Exit(p)
  BY <1>a, <1>d, <1>16 DEF Exit, disk
<1>17. CASE Crash(p)
  BY <1>a, <1>d, <1>17 DEF Crash, disk
<1>. QED  BY <1>1, <1>2, <1>3, <1>4, <1>5, <1>6, <1>7, <1>8, <1>9, <1>10, <1>11, <1>12,
             <1>13, <1>14, <1>15, <1>16, <1>17 DEF StoreStep

LEMMA InitChain == Init => ChainInv
BY InitNames DEF Init, EmptyCache, ChainInv, ChainStore, PinsValid, CacheChained, PublishLive,
   LinkChained, NeverSettles

LEMMA NextChain ==
  ASSUME CoarseStamps = FALSE, PackagedApart
  PROVE  IInv /\ ChainInv /\ [Next]_vars => ChainInv'
<1> SUFFICES ASSUME IInv, ChainInv, [Next]_vars PROVE ChainInv'
  OBVIOUS
<1>0. TypeOK' /\ NamesUnique'
  BY NextType, NextNames DEF IInv, ChainInv
<1>a. ASSUME UNCHANGED <<dir, stamp, local>> PROVE ChainInv'
  BY <1>0, <1>a, ChainFrame DEF local, Unmoved, ChainInv
<1>1. ASSUME NEW p \in Stores, StoreStep(p) PROVE ChainInv'
  BY <1>0, <1>1, StepChain
<1>2. CASE Rotate
  BY <1>2, <1>a DEF Rotate, disk
<1>3. CASE PowerFail
  <2>1. \A p \in Stores : pc'[p] = "closed"
    BY <1>3 DEF PowerFail
  <2>. QED
    BY <1>0, <2>1 DEF ChainInv, ChainStore, PinsValid, CacheChained, PublishLive, LinkChained,
       NeverSettles
<1>4. CASE Damage
  BY <1>4, <1>a DEF Damage
<1>5. CASE UNCHANGED vars
  BY <1>5, <1>a DEF vars, disk
<1>. QED  BY <1>1, <1>2, <1>3, <1>4, <1>5 DEF Next

(***************************************************************************)
(* What callers are told, and what a later open will find.                 *)
(***************************************************************************)
\* r is, under p's pins, the intact end of its service's chain.
Exact(p, r) ==
  /\ r \in dir \ damaged
  /\ \A g \in dir : Continues(g, r)
  /\ \A g \in dir : ~ ValidEqualSequenceHandover(Pins(p), r, g)

LEMMA LastIsExact ==
  ASSUME TypeOK, PackagedApart, NEW p \in Stores, ValidPins(Pins(p)),
         NEW svc \in Services, NEW r \in dir \ damaged, LastOf(Pins(p), dir, svc, r)
  PROVE  Exact(p, r)
<1> DEFINE c == Pins(p)
<1>1. HandoversApart(c) /\ r \in Heads /\ r # NoHead
  BY PinsApart, HeadsAssumption DEF TypeOK
<1>2. IsLast(c, dir, r)
  BY <1>1 DEF LastOf
<1>3. ASSUME NEW g \in dir PROVE Continues(g, r) /\ ~ ValidEqualSequenceHandover(c, r, g)
  <2>1. g \in Heads
    BY DEF TypeOK
  <2>2. CASE g.svc # r.svc
    BY <2>2 DEF Continues, ValidEqualSequenceHandover, ValidHandover
  <2>3. CASE g = r
    BY <1>1, <2>3, BeforeStrict DEF Continues, Before
  <2>4. CASE g.svc = r.svc /\ Before(c, g, r)
    <3>1. ~ ValidEqualSequenceHandover(c, r, g)
      BY <1>1, <2>1, <2>4, BeforeStrict DEF Before
    <3>. QED  BY <2>4, <3>1 DEF Continues, Before, ValidEqualSequenceHandover
  <2>. QED  BY <1>2, <2>2, <2>3, <2>4 DEF IsLast
<1>. QED  BY <1>3 DEF Exact

\* A cached tail that is intact, when the cache is current.
LEMMA TailIsExact ==
  ASSUME TypeOK, ChainInv, PackagedApart, NEW p \in Stores,
         pc[p] \notin {"closed", "opening"}, cache[p].stamp = stamp,
         NEW svc \in Services, cache[p].latest[svc] \in dir \ damaged
  PROVE  Exact(p, cache[p].latest[svc])
<1>1. ValidPins(Pins(p)) /\ ChainAt(p, cache[p].latest)
  BY DEF ChainInv, ChainStore, PinsValid, CacheChained
<1>2. LastOf(Pins(p), dir, svc, cache[p].latest[svc])
  BY <1>1 DEF ChainAt
<1>. QED  BY <1>1, <1>2, LastIsExact

\* An answer is exact if it claims nothing or names an exact record.
LEMMA ExactAnswer ==
  ASSUME NEW p \in Stores, NEW h, NEW o, NEW r, Answer(p, h, o, r),
         r # NoHead => /\ UNCHANGED <<dir, damaged, cfg>> /\ Exact(p, r)
                       /\ o \in {"Appended", "AlreadyPresent"} => r = h
  PROVE  EvidenceExact'
<1>1. CASE r = NoHead
  BY <1>1 DEF Answer, EvidenceExact
<1>2. CASE r # NoHead
  <2>1. UNCHANGED <<dir, damaged, cfg>> /\ Exact(p, r)
    BY <1>2
  <2>2. /\ answer'.store = p /\ answer'.retained = r /\ answer'.head = h /\ answer'.outcome = o
    BY DEF Answer
  <2>3. Pins(p)' = Pins(p)
    BY <2>1 DEF Pins
  <2>. QED  BY <1>2, <2>1, <2>2, <2>3 DEF EvidenceExact, Exact, Continues
<1>. QED  BY <1>1, <1>2

LEMMA DecideExact ==
  ASSUME IInv, ChainInv, PackagedApart, NEW p \in Stores, pc[p] = "decide", TailIntact(p)
  PROVE  Tail(p) # NoHead => Exact(p, Tail(p))
<1>1. arg[p] \in Heads /\ arg[p].svc \in Services
  BY HeadsAssumption DEF IInv, TypeOK, Appending
<1>2. cache[p].stamp = stamp
  BY DEF IInv, StoreInv, DecidesFresh
<1>. QED  BY <1>1, <1>2, TailIsExact DEF Tail, TailIntact, IInv

LEMMA StepExact ==
  ASSUME IInv, ChainInv, PackagedApart, NEW p \in Stores, StoreStep(p)
  PROVE  EvidenceExact'
<1>a. ASSUME answer' = NoAnswer PROVE EvidenceExact'
  BY <1>a DEF EvidenceExact
<1>b. ASSUME NEW h, NEW o, Answer(p, h, o, NoHead) PROVE EvidenceExact'
  BY <1>b, ExactAnswer
<1>1. CASE OpenMalformed(p)
  BY <1>1, <1>b DEF OpenMalformed
<1>2. CASE OpenScan(p)
  BY <1>2, <1>a, <1>b DEF OpenScan, OpenAccept, OpenRescan, OpenGiveUp, OpenReject
<1>3. ASSUME NEW h \in Heads \cup {NoHead}, RescanRefused(p, h) PROVE EvidenceExact'
  BY <1>3, <1>b DEF RescanRefused, ReconcileFails
<1>4. CASE DecideRefuse(p)
  <2>1. pc[p] = "decide" /\ UNCHANGED <<dir, damaged, cfg>>
    BY <1>4 DEF DecideRefuse, disk
  <2>2. CASE RefuseTail(p)
    BY <2>2, <1>b DEF RefuseTail
  <2>3. CASE RefuseNotLive(p)
    <3>1. LiveError(Pins(p), arg[p]) \notin {"Appended", "AlreadyPresent"}
      BY DEF LiveError
    <3>. QED  BY <2>1, <2>3, <3>1, DecideExact, ExactAnswer DEF RefuseNotLive
  <2>4. CASE RefuseStale(p)
    <3>1. StaleError(Pins(p), Tail(p), arg[p]) \notin {"Appended", "AlreadyPresent"}
      BY DEF StaleError
    <3>. QED  BY <2>1, <2>4, <3>1, DecideExact, ExactAnswer DEF RefuseStale
  <2>. QED  BY <1>4, <2>2, <2>3, <2>4 DEF DecideRefuse
<1>5. CASE DecideAlreadyPresent(p)
  <2>1. /\ pc[p] = "decide" /\ UNCHANGED <<dir, damaged, cfg>> /\ TailIntact(p)
        /\ Tail(p) = arg[p] /\ Answer(p, arg[p], "AlreadyPresent", Tail(p))
    BY <1>5 DEF DecideAlreadyPresent, AlreadyRetained, disk
  <2>. QED  BY <2>1, DecideExact, ExactAnswer
<1>6. CASE Prepare(p)
  <2>1. pc[p] = "decide" /\ UNCHANGED <<dir, damaged, cfg>> /\ TailIntact(p)
    BY <1>6 DEF Prepare, disk
  <2>2. CASE Answer(p, arg[p], "StorageOrConfigurationFailure", Tail(p))
    BY <2>1, <2>2, DecideExact, ExactAnswer
  <2>. QED  BY <1>6, <1>a, <2>2 DEF Prepare
<1>7. CASE LinkExists(p)
  BY <1>7, <1>a, <1>b DEF LinkExists
<1>8. CASE PublishFails(p)
  BY <1>8, <1>b DEF PublishFails
<1>9. CASE Settle(p)
  BY <1>9 DEF Settle, ChainInv, ChainStore, NeverSettles
<1>10. CASE Finalize(p)
  <2>1. pc[p] = "finalize" /\ UNCHANGED <<dir, damaged, cfg>>
    BY <1>10 DEF Finalize, disk
  <2>2. CASE ExactRecord(p) /\ Answer(p, arg[p], "Appended", arg[p])
    <3>1. arg[p] \in Heads /\ arg[p].svc \in Services /\ arg[p] \in dir \ damaged
      BY <2>1, <2>2, HeadsAssumption DEF IInv, TypeOK, Appending, ExactRecord
    <3>2. /\ ValidPins(Pins(p))
          /\ LastOf(Pins(p), dir, arg[p].svc,
                    [cache[p].latest EXCEPT ![arg[p].svc] = arg[p]][arg[p].svc])
      BY <2>1, <3>1 DEF ChainInv, ChainStore, PinsValid, LinkChained, ChainAt
    <3>3. [cache[p].latest EXCEPT ![arg[p].svc] = arg[p]][arg[p].svc] = arg[p]
      BY <3>1 DEF IInv, TypeOK
    <3>4. Exact(p, arg[p])
      BY <3>1, <3>2, <3>3, LastIsExact DEF IInv
    <3>. QED  BY <2>1, <2>2, <3>4, ExactAnswer
  <2>. QED  BY <1>10, <1>b, <2>2 DEF Finalize
<1>11. ASSUME NEW svc \in Services, Latest(p, svc) PROVE EvidenceExact'
  <2>1. pc[p] = "idle" /\ UNCHANGED <<dir, damaged, stamp, cfg>>
    BY <1>11 DEF Latest, disk
  <2>2. CASE CacheFresh(p) /\ cache[p].latest[svc] \in dir \ damaged
             /\ Answer(p, NoHead, "Latest", cache[p].latest[svc])
    <3>1. Exact(p, cache[p].latest[svc])
      BY <2>1, <2>2, TailIsExact DEF CacheFresh, IInv
    <3>. QED  BY <2>1, <2>2, <3>1, ExactAnswer
  <2>3. CASE Reconcile(p) /\ Answer(p, NoHead, "Latest", cache'[p].latest[svc])
    <3> DEFINE r == cache'[p].latest[svc]
    <3>1. ValidPins(Pins(p)) /\ Pins(p)' = Pins(p)
      BY <2>1 DEF ChainInv, ChainStore, PinsValid, Pins
    <3>2. ChainAt(p, cache[p].latest)' /\ dir \cap damaged = {}
      BY <2>1, <2>3, <3>1, ReconcileChained DEF IInv, ChainInv
    <3>3. LastOf(Pins(p), dir, svc, r)
      BY <2>1, <3>1, <3>2 DEF ChainAt
    <3>4. r # NoHead => r \in dir \ damaged
      BY <3>2, <3>3 DEF LastOf, IsLast
    <3>5. r # NoHead => Exact(p, r)
      BY <3>1, <3>3, <3>4, LastIsExact DEF IInv
    <3>. QED  BY <2>1, <2>3, <3>5, ExactAnswer
  <2>. QED  BY <1>11, <1>b, <2>2, <2>3 DEF Latest
<1>12. CASE answer' = NoAnswer
  BY <1>12, <1>a
<1>. QED
  BY <1>1, <1>2, <1>3, <1>4, <1>5, <1>6, <1>7, <1>8, <1>9, <1>10, <1>11, <1>12
     DEF StoreStep, OpenBegin, AppendBegin, Link, Sync, Exit, Crash

LEMMA NextExact ==
  ASSUME PackagedApart
  PROVE  IInv /\ ChainInv /\ EvidenceExact /\ [Next]_vars => EvidenceExact'
<1> SUFFICES ASSUME IInv, ChainInv, EvidenceExact, [Next]_vars PROVE EvidenceExact'
  OBVIOUS
<1>1. ASSUME NEW p \in Stores, StoreStep(p) PROVE EvidenceExact'
  BY <1>1, StepExact
<1>2. CASE Rotate \/ PowerFail \/ Damage
  BY <1>2 DEF Rotate, PowerFail, Damage, EvidenceExact
<1>3. CASE UNCHANGED vars
  <2>1. UNCHANGED <<dir, damaged, answer, cfg>>
    BY <1>3 DEF vars, disk, local
  <2>2. \A p \in Stores : Pins(p)' = Pins(p)
    BY <2>1 DEF Pins
  <2>3. answer # NoAnswer => Pins(answer.store)' = Pins(answer.store)
    BY <2>1 DEF Pins
  <2>. QED  BY <2>1, <2>3 DEF EvidenceExact, Continues
<1>. QED  BY <1>1, <1>2, <1>3 DEF Next

\* A store whose cache matches an undamaged directory can be opened again.
LEMMA ChainReopens ==
  ASSUME TypeOK, ChainInv, PackagedApart
  PROVE  Reopenable
<1> SUFFICES ASSUME NEW p \in Stores, pc[p] = "idle", CacheFresh(p)
             PROVE  ScanErrors(Pins(p), dir, {}) = {}
  BY DEF Reopenable
<1>1. ValidPins(Pins(p)) /\ ChainAt(p, cache[p].latest)
  BY DEF ChainInv, ChainStore, PinsValid, CacheChained, CacheFresh
<1>2. ~ MayRefuseChain(Pins(p), dir)
  BY <1>1, PinsApart, DirNamed, ChainAccepted DEF ChainAt, ChainInv
<1>3. {h \in dir \ {} : ~ VerifyRetained(Pins(p), h)} = {}
  BY <1>1 DEF ChainAt
<1>. QED  BY <1>2, <1>3 DEF ScanErrors

\* For any stores, peers, pin generations, crashes, failures, damage and power
\* outages: the retained head an append or latest reports is intact and ends
\* its service's history, and whatever append accepts, a restart accepts, in
\* any order the directory lists it.  It takes a stamp that every link changes
\* and pin sets in which no two handovers meet at one journal position.
THEOREM RetainedStaysSound ==
  ASSUME CoarseStamps = FALSE, PackagedApart
  PROVE  Spec => []RetainedSound
<1>1. Init => IInv /\ ChainInv /\ EvidenceExact
  <2>1. Init => EvidenceExact
    BY DEF Init, EvidenceExact
  <2>. QED  BY <2>1, InitInv, InitChain
<1>2. IInv /\ ChainInv /\ EvidenceExact /\ [Next]_vars => (IInv /\ ChainInv /\ EvidenceExact)'
  BY NextInv, NextChain, NextExact
<1>3. IInv /\ ChainInv /\ EvidenceExact => RetainedSound
  BY ChainReopens DEF RetainedSound, IInv
<1>. QED  BY <1>1, <1>2, <1>3, PTL DEF Spec

\* Packaging rotates keys one way: pins in which a key is current never pin the
\* key that some generation lets follow it.
RotatesOneWay ==
  \A n, m \in DOMAIN Configs : \A t \in Configs[m].handovers :
    IsCurrent(Configs[n], t.svc, t.old) => ~ IsPinned(Configs[n], t.svc, t.new)

\* A store that still runs with the pins of an older generation never adds a
\* record of a replaced key once its successor has one: the successor's link
\* changed the stamp, and the rescan refuses the key it does not pin.
THEOREM ReplacedKeysStop ==
  ASSUME CoarseStamps = FALSE, PackagedApart, RotatesOneWay
  PROVE  Spec => KeySuccession
<1>1. Init => IInv /\ ChainInv
  BY InitInv, InitChain
<1>2. IInv /\ ChainInv /\ [Next]_vars => (IInv /\ ChainInv)'
  BY NextInv, NextChain
<1>3. IInv /\ ChainInv /\ [Next]_vars =>
        [\A h \in dir' \ dir : \A g \in dir :
           g.svc = h.svc => ~ Succeeds(h.svc, h.key, g.key)]_vars
  <2> SUFFICES ASSUME IInv, ChainInv, Next, NEW h \in dir' \ dir, NEW g \in dir, g.svc = h.svc
               PROVE  ~ Succeeds(h.svc, h.key, g.key)
    OBVIOUS
  <2>1. PICK p \in Stores : StoreStep(p)
    BY DEF Next, Rotate, PowerFail, Damage, disk
  <2>2. Link(p)
    BY <2>1, OnlyLinkAdds
  <2>3. h = arg[p] /\ pc[p] = "publish"
    BY <2>2 DEF Link
  <2>4. IsCurrent(Pins(p), h.svc, h.key) /\ VerifyRetained(Pins(p), g)
    BY <2>3 DEF IInv, StoreInv, DecidesFresh, ChainInv, ChainStore, CacheChained, PublishLive,
       ChainAt, VerifyLive
  <2>5. cfg[p] \in DOMAIN Configs
    BY DEF IInv, TypeOK
  <2>. QED  BY <2>4, <2>5 DEF Succeeds, RotatesOneWay, VerifyRetained, Pins
<1>. QED  BY <1>1, <1>2, <1>3, PTL DEF Spec, KeySuccession
=============================================================================
