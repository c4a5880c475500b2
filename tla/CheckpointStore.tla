-------------------------- MODULE CheckpointStore --------------------------
(***************************************************************************)
(* The recipient-side peer checkpoint store: a directory of signed journal *)
(* heads shared by several CheckpointStore values (in one process or in    *)
(* several), each with a verified cache of the newest head per service.    *)
(*                                                                         *)
(* Stores append under an exclusive flock and read under a shared one;     *)
(* open takes no lock at all and relies on the directory stamp.  Packaging *)
(* may install new pin sets while stores opened under older ones still     *)
(* run.  A process may die between any two steps, an I/O call may fail, a  *)
(* record may be damaged in place, and the machine may lose power, which   *)
(* keeps only a superset of the links covered by a directory fsync.        *)
(***************************************************************************)
EXTENDS CheckpointChain

CONSTANTS
  Stores,        \* CheckpointStore values that share the root
  Services,      \* peer services
  Heads,         \* the heads peers may present
  Configs,       \* packaging generations: a function 1..n -> pin sets
  CoarseStamps,  \* TRUE: a link may leave mtime and ctime as they were
  Budget,        \* bound on each kind of mishap
  NoAnswer       \* no call returned in the last step

Mishaps == {"crash", "power", "io", "damage"}

\* scan_records retries a scan whose directory changed: for _ in 0..3.
ScanAttempts == 3

ASSUME HeadsAssumption ==
  /\ IsFiniteSet(Heads)
  /\ \A h \in Heads : h.seq \in Nat /\ h.svc \in Services
  /\ NoHead \notin Heads

ASSUME ConfigsAssumption ==
  /\ DOMAIN Configs \subseteq Nat
  /\ 1 \in DOMAIN Configs
  /\ CoarseStamps \in BOOLEAN
  /\ Budget \in [Mishaps -> Nat]

VARIABLES
  dir,       \* records linked into the root
  durable,   \* records whose link a directory fsync has covered
  damaged,   \* records whose bytes were overwritten in place
  stamp,     \* root_stamp: identity, mtime and ctime of the root
  gen,       \* the packaging generation now installed
  pc,        \* where each store is
  cfg,       \* the generation each store was opened with
  snap,      \* an opening store's scan: directory and stamp at its start
  tries,     \* scans an opening store has started
  cache,     \* CheckpointState: stamp and newest head per service
  arg,       \* the head each store is appending
  answer,    \* what the last step returned to its caller (history)
  acked,     \* heads an append has ever answered Ok for (history)
  left       \* mishaps still allowed (bound)

disk  == <<dir, durable, damaged, stamp>>
local == <<pc, cfg, snap, tries, cache, arg>>
vars  == <<disk, gen, local, answer, acked, left>>

Pins(p) == Configs[cfg[p]]

EmptyCache == [stamp |-> 0, latest |-> [svc \in Services |-> NoHead]]
EmptySnap  == [stamp |-> 0, recs |-> {}, bad |-> {}]

Init ==
  /\ dir = {} /\ durable = {} /\ damaged = {} /\ stamp = 0
  /\ gen = 1
  /\ pc = [p \in Stores |-> "closed"]
  /\ cfg = [p \in Stores |-> 1]
  /\ snap = [p \in Stores |-> EmptySnap]
  /\ tries = [p \in Stores |-> 0]
  /\ cache = [p \in Stores |-> EmptyCache]
  /\ arg = [p \in Stores |-> NoHead]
  /\ answer = NoAnswer
  /\ acked = {}
  /\ left = Budget

(***************************************************************************)
(* Helpers.                                                                *)
(***************************************************************************)
Goto(p, to) == pc' = [pc EXCEPT ![p] = to]

Cache(p, st, latest) ==
  cache' = [cache EXCEPT ![p] = [stamp |-> st, latest |-> latest]]

Spend(kind) == left[kind] > 0 /\ left' = [left EXCEPT ![kind] = @ - 1]

Answer(p, head, outcome, retained) ==
  answer' = [store |-> p, head |-> head, outcome |-> outcome, retained |-> retained]

\* Everything a store loses when it is dropped or its process dies.
Closed(p) ==
  /\ Goto(p, "closed")
  /\ snap' = [snap EXCEPT ![p] = EmptySnap]
  /\ tries' = [tries EXCEPT ![p] = 0]
  /\ cache' = [cache EXCEPT ![p] = EmptyCache]
  /\ arg' = [arg EXCEPT ![p] = NoHead]
  /\ cfg' = [cfg EXCEPT ![p] = 1]

\* An append that is over: the store is idle again, the locks are released.
Done(p) == Goto(p, "idle") /\ arg' = [arg EXCEPT ![p] = NoHead]

\* The cache may be trusted: no link since the stamp it was taken under.
CacheFresh_Trusting(p) == TRUE
CacheFresh(p) == cache[p].stamp = stamp

\* The exclusive flock is held from the lock_directory call of append to its end.
Appending == {"decide", "publish", "sync", "settle", "finalize"}
Locked_Shared == FALSE
Locked == \E p \in Stores : pc[p] \in Appending

Tail(p) == cache[p].latest[arg[p].svc]

(***************************************************************************)
(* open: read the directory without a lock until two stamps agree.         *)
(***************************************************************************)
StartScan(p, n) ==
  /\ snap' = [snap EXCEPT ![p] = [stamp |-> stamp, recs |-> dir, bad |-> damaged]]
  /\ tries' = [tries EXCEPT ![p] = n]

OpenBegin(p) ==
  /\ pc[p] = "closed"
  /\ ValidPins(Configs[gen])
  /\ cfg' = [cfg EXCEPT ![p] = gen]
  /\ Goto(p, "opening")
  /\ StartScan(p, 1)
  /\ answer' = NoAnswer
  /\ UNCHANGED <<disk, gen, cache, arg, acked, left>>

\* A pin set that contradicts itself is refused before the disk is read.
OpenMalformed(p) ==
  /\ pc[p] = "closed"
  /\ ~ ValidPins(Configs[gen])
  /\ Answer(p, NoHead, "StorageOrConfigurationFailure", NoHead)
  /\ UNCHANGED <<disk, gen, local, acked, left>>

\* What read_dir may list: every record linked before the scan began and any
\* of those linked since; likewise for damage done since.
Listings(p) == {snap[p].recs \cup X : X \in SUBSET (dir \ snap[p].recs)}
Garbled(p)  == {snap[p].bad \cup X : X \in SUBSET (damaged \ snap[p].bad)}

MayRetry_Forever(p) == TRUE
MayRetry(p) == tries[p] < ScanAttempts

\* The stamps agree: the tails become the cache.
OpenAccept(p, R, bad) ==
  /\ stamp = snap[p].stamp
  /\ \E latest \in [Services -> R \cup {NoHead}] :
       ScanOk(Pins(p), R, bad, latest) /\ Cache(p, stamp, latest)
  /\ Goto(p, "idle")
  /\ snap' = [snap EXCEPT ![p] = EmptySnap]
  /\ tries' = [tries EXCEPT ![p] = 0]
  /\ answer' = NoAnswer
  /\ UNCHANGED <<cfg, arg>>

\* A record was linked meanwhile: the records must verify even so, and then
\* the scan starts over or, after the last attempt, is given up.
ScanPasses(p, R, bad) ==
  /\ stamp # snap[p].stamp
  /\ \E latest \in [Services -> R \cup {NoHead}] : ScanOk(Pins(p), R, bad, latest)

OpenRescan(p, R, bad) ==
  /\ ScanPasses(p, R, bad)
  /\ MayRetry(p)
  /\ StartScan(p, tries[p] + 1)
  /\ answer' = NoAnswer
  /\ UNCHANGED <<pc, cfg, cache, arg>>

OpenGiveUp(p, R, bad) ==
  /\ ScanPasses(p, R, bad)
  /\ ~ MayRetry(p)
  /\ Answer(p, NoHead, "StorageOrConfigurationFailure", NoHead)
  /\ Closed(p)

\* An entry or a chain is refused, whether or not the stamps would agree.
OpenReject(p, R, bad) ==
  /\ \E e \in ScanErrors(Pins(p), R, bad) : Answer(p, NoHead, e, NoHead)
  /\ Closed(p)

OpenScan(p) ==
  /\ pc[p] = "opening"
  /\ \E R \in Listings(p), bad \in Garbled(p) :
       \/ OpenAccept(p, R, bad) \/ OpenRescan(p, R, bad)
       \/ OpenGiveUp(p, R, bad) \/ OpenReject(p, R, bad)
  /\ UNCHANGED <<disk, gen, acked, left>>

(***************************************************************************)
(* append_diagnosed, under the operation mutex and the exclusive flock.    *)
(* Nobody links a record meanwhile, so a rescan is one step.               *)
(***************************************************************************)
\* A rescan under a flock, and its failure.
Reconcile(p) ==
  \E latest \in [Services -> dir \cup {NoHead}] :
    ScanOk(Pins(p), dir, damaged, latest) /\ Cache(p, stamp, latest)

ReconcileFails(p, h) ==
  \E e \in ScanErrors(Pins(p), dir, damaged) : Answer(p, h, e, NoHead)

AppendBegin(p, h) ==
  /\ pc[p] = "idle"
  /\ ~ Locked
  /\ IF CacheFresh(p) THEN UNCHANGED cache ELSE Reconcile(p)
  /\ Goto(p, "decide")
  /\ arg' = [arg EXCEPT ![p] = h]
  /\ answer' = NoAnswer
  /\ UNCHANGED <<disk, gen, cfg, snap, tries, acked, left>>

\* The rescan that a changed stamp demands is refused, for append and latest.
RescanRefused(p, h) ==
  /\ pc[p] = "idle"
  /\ ~ Locked
  /\ ~ CacheFresh(p)
  /\ ReconcileFails(p, h)
  /\ UNCHANGED <<disk, gen, local, acked, left>>

\* validate_cached_record: the tail's file still holds exactly the tail.
TailIntact_Unchecked(p) == TRUE
TailIntact(p) == Tail(p) = NoHead \/ Tail(p) \in dir \ damaged

\* The tail is not what was written: no claim about what is retained.
RefuseTail(p) ==
  /\ ~ TailIntact(p)
  /\ Answer(p, arg[p], "SequenceConflict", NoHead)

RefuseNotLive(p) ==
  /\ TailIntact(p)
  /\ ~ VerifyLive(Pins(p), arg[p])
  /\ Answer(p, arg[p], LiveError(Pins(p), arg[p]), Tail(p))

RefuseStale(p) ==
  /\ TailIntact(p)
  /\ VerifyLive(Pins(p), arg[p])
  /\ ~ AlreadyRetained(Tail(p), arg[p])
  /\ ~ Advances(Pins(p), Tail(p), arg[p])
  /\ Answer(p, arg[p], StaleError(Pins(p), Tail(p), arg[p]), Tail(p))

DecideRefuse(p) ==
  /\ pc[p] = "decide"
  /\ RefuseTail(p) \/ RefuseNotLive(p) \/ RefuseStale(p)
  /\ Done(p)
  /\ UNCHANGED <<disk, gen, cfg, snap, tries, cache, acked, left>>

\* The idempotent answer, straight from the cached tail: nothing is synced.
DecideAlreadyPresent(p) ==
  /\ pc[p] = "decide"
  /\ TailIntact(p)
  /\ VerifyLive(Pins(p), arg[p])
  /\ AlreadyRetained(Tail(p), arg[p])
  /\ Answer(p, arg[p], "AlreadyPresent", Tail(p))
  /\ acked' = acked \cup {arg[p]}
  /\ Done(p)
  /\ UNCHANGED <<disk, gen, cfg, snap, tries, cache, left>>

\* prepare_publication stages and syncs the record outside the root.
Prepare(p) ==
  /\ pc[p] = "decide"
  /\ TailIntact(p)
  /\ VerifyLive(Pins(p), arg[p])
  /\ ~ AlreadyRetained(Tail(p), arg[p])
  /\ Advances(Pins(p), Tail(p), arg[p])
  /\ \/ /\ Goto(p, "publish")
        /\ answer' = NoAnswer
        /\ UNCHANGED <<arg, left>>
     \/ /\ Spend("io")
        /\ Answer(p, arg[p], "StorageOrConfigurationFailure", Tail(p))
        /\ Done(p)
  /\ UNCHANGED <<disk, gen, cfg, snap, tries, cache, acked>>

\* validate_exact_record for the head being appended.
ExactRecord_AnyBytes(p) == TRUE
ExactRecord(p) == arg[p] \in dir \ damaged

SameName(g, h) == g.svc = h.svc /\ g.seq = h.seq /\ g.key = h.key

\* hard_link of the staged record to its final name.
Link(p) ==
  /\ pc[p] = "publish"
  /\ ~ \E g \in dir : SameName(g, arg[p])
  /\ dir' = dir \cup {arg[p]}
  /\ stamp' \in IF CoarseStamps THEN {stamp, stamp + 1} ELSE {stamp + 1}
  /\ Goto(p, "sync")
  /\ answer' = NoAnswer
  /\ UNCHANGED <<durable, damaged, gen, cfg, snap, tries, cache, arg, acked, left>>

\* The name exists: accept exactly the same bytes, and sync the directory.
LinkExists(p) ==
  /\ pc[p] = "publish"
  /\ \E g \in dir : SameName(g, arg[p])
  /\ \/ /\ ExactRecord(p)
        /\ durable' = dir
        /\ Goto(p, "settle")
        /\ answer' = NoAnswer
        /\ UNCHANGED arg
     \/ /\ ~ ExactRecord(p)
        /\ Answer(p, arg[p], "SequenceConflict", NoHead)
        /\ Done(p)
        /\ UNCHANGED durable
  /\ UNCHANGED <<dir, damaged, stamp, gen, cfg, snap, tries, cache, acked, left>>

\* remove_file of the staged name, then fsync of the root.
Sync_NoFsync(p) ==
  /\ pc[p] = "sync"
  /\ Goto(p, "finalize")
  /\ answer' = NoAnswer
  /\ UNCHANGED <<disk, gen, cfg, snap, tries, cache, arg, acked, left>>

Sync(p) ==
  /\ pc[p] = "sync"
  /\ durable' = dir
  /\ Goto(p, "finalize")
  /\ answer' = NoAnswer
  /\ UNCHANGED <<dir, damaged, stamp, gen, cfg, snap, tries, cache, arg, acked, left>>

\* The link, the removal, an fsync or a later read fails: the caller gets an
\* error that claims nothing about what is retained; a link already made stays.
PublishFails(p) ==
  /\ pc[p] \in {"publish", "sync", "settle", "finalize"}
  /\ Spend("io")
  /\ Answer(p, arg[p], "StorageOrConfigurationFailure", NoHead)
  /\ Done(p)
  /\ UNCHANGED <<disk, gen, cfg, snap, tries, cache, acked>>

\* finalize_publication after AlreadyExists: rescan.
Settle(p) ==
  /\ pc[p] = "settle"
  /\ \/ /\ Reconcile(p)
        /\ Answer(p, arg[p], "AlreadyPresent", arg[p])
        /\ acked' = acked \cup {arg[p]}
     \/ /\ ReconcileFails(p, arg[p])
        /\ UNCHANGED <<cache, acked>>
  /\ Done(p)
  /\ UNCHANGED <<disk, gen, cfg, snap, tries, left>>

\* finalize_publication after a link of our own: read it back, update the cache.
Finalize(p) ==
  /\ pc[p] = "finalize"
  /\ \/ /\ ExactRecord(p)
        /\ Cache(p, stamp, [cache[p].latest EXCEPT ![arg[p].svc] = arg[p]])
        /\ Answer(p, arg[p], "Appended", arg[p])
        /\ acked' = acked \cup {arg[p]}
     \/ /\ ~ ExactRecord(p)
        /\ Answer(p, arg[p], "SequenceConflict", NoHead)
        /\ UNCHANGED <<cache, acked>>
  /\ Done(p)
  /\ UNCHANGED <<disk, gen, cfg, snap, tries, left>>

(***************************************************************************)
(* latest, under the shared flock: no append is under way.                 *)
(***************************************************************************)
Latest(p, svc) ==
  /\ pc[p] = "idle"
  /\ ~ Locked
  /\ \/ /\ CacheFresh(p)
        /\ LET t == cache[p].latest[svc]
           IN \/ /\ t = NoHead \/ t \in dir \ damaged
                 /\ Answer(p, NoHead, "Latest", t)
              \/ /\ t # NoHead /\ t \notin dir \ damaged
                 /\ Answer(p, NoHead, "SequenceConflict", NoHead)
        /\ UNCHANGED cache
     \/ /\ ~ CacheFresh(p)
        /\ Reconcile(p)
        /\ Answer(p, NoHead, "Latest", cache'[p].latest[svc])
  /\ UNCHANGED <<disk, gen, pc, cfg, snap, tries, arg, acked, left>>

(***************************************************************************)
(* The environment.                                                        *)
(***************************************************************************)
\* Packaging installs the next generation; running stores keep theirs.
Rotate ==
  /\ gen + 1 \in DOMAIN Configs
  /\ gen' = gen + 1
  /\ answer' = NoAnswer
  /\ UNCHANGED <<disk, local, acked, left>>

\* A service that is idle exits; its next open reads the installed pins.
Exit(p) ==
  /\ pc[p] = "idle"
  /\ Closed(p)
  /\ answer' = NoAnswer
  /\ UNCHANGED <<disk, gen, acked, left>>

\* A process dies inside a call; the kernel drops its flock.
Crash(p) ==
  /\ pc[p] \in Appending \cup {"opening"}
  /\ Spend("crash")
  /\ Closed(p)
  /\ answer' = NoAnswer
  /\ UNCHANGED <<disk, gen, acked>>

\* Power is lost: every process is gone, links that no fsync covered may be.
PowerFail ==
  /\ Spend("power")
  /\ \E D \in SUBSET dir :
       durable \subseteq D /\ dir' = D /\ durable' = D /\ damaged' = damaged \cap D
  /\ pc' = [p \in Stores |-> "closed"]
  /\ cfg' = [p \in Stores |-> 1]
  /\ snap' = [p \in Stores |-> EmptySnap]
  /\ tries' = [p \in Stores |-> 0]
  /\ cache' = [p \in Stores |-> EmptyCache]
  /\ arg' = [p \in Stores |-> NoHead]
  /\ answer' = NoAnswer
  /\ UNCHANGED <<stamp, gen, acked>>

\* A record is overwritten in place; neither its name nor the root changes.
Damage ==
  /\ Spend("damage")
  /\ \E h \in dir \ damaged : damaged' = damaged \cup {h}
  /\ answer' = NoAnswer
  /\ UNCHANGED <<dir, durable, stamp, gen, local, acked>>

StoreStep(p) ==
  \/ OpenBegin(p) \/ OpenMalformed(p) \/ OpenScan(p)
  \/ \E h \in Heads : AppendBegin(p, h)
  \/ \E h \in Heads \cup {NoHead} : RescanRefused(p, h)
  \/ DecideRefuse(p) \/ DecideAlreadyPresent(p) \/ Prepare(p)
  \/ Link(p) \/ LinkExists(p) \/ Sync(p) \/ PublishFails(p)
  \/ Settle(p) \/ Finalize(p)
  \/ \E svc \in Services : Latest(p, svc)
  \/ Exit(p) \/ Crash(p)

Next == (\E p \in Stores : StoreStep(p)) \/ Rotate \/ PowerFail \/ Damage

Spec == Init /\ [][Next]_vars

(***************************************************************************)
(* Correctness.                                                            *)
(***************************************************************************)
Outcomes == {"Appended", "AlreadyPresent", "Latest", "SequenceRollback",
             "SequenceConflict", "InvalidSignature", "UnpinnedPeer",
             "StorageOrConfigurationFailure"}

HeadOrNone == Heads \cup {NoHead}

Answers == [store : Stores, head : HeadOrNone, outcome : Outcomes, retained : HeadOrNone]

\* Every variable has its type; a store past the lock holds a head to append.
TypeOK ==
  /\ dir \subseteq Heads /\ durable \subseteq dir /\ damaged \subseteq dir
  /\ stamp \in Nat
  /\ gen \in DOMAIN Configs
  /\ pc \in [Stores -> {"closed", "opening", "idle"} \cup Appending]
  /\ cfg \in [Stores -> DOMAIN Configs]
  /\ snap \in [Stores -> [stamp : Nat, recs : SUBSET Heads, bad : SUBSET Heads]]
  /\ tries \in [Stores -> 0..ScanAttempts]
  /\ cache \in [Stores -> [stamp : Nat, latest : [Services -> HeadOrNone]]]
  /\ arg \in [Stores -> HeadOrNone]
  /\ \A p \in Stores : pc[p] \in Appending => arg[p] \in Heads
  /\ answer \in Answers \cup {NoAnswer}
  /\ acked \subseteq Heads
  /\ left \in [Mishaps -> Nat]

\* h continues a history that has reached g: it is newer, or it is the same
\* journal position under a successor key.
Continues(g, h) == g.svc = h.svc => g.seq < h.seq \/ (g.seq = h.seq /\ g.hash = h.hash)

\* Two retained heads of a service at one sequence never differ in their hash,
\* whichever stores, processes and pin generations wrote them.
NoFork == \A g, h \in dir : g.svc = h.svc /\ g.seq = h.seq => g.hash = h.hash

\* No append lands behind or beside what the directory already holds, although
\* each store decides from its own cache: the stamp comparison of
\* append_diagnosed must notice every link of another store.
AppendsAdvance == [][\A h \in dir' \ dir : \A g \in dir : Continues(g, h)]_vars

\* The retained head reported to a caller, in success, refusal or latest, is at
\* that moment an undamaged record of the directory, the newest of its service
\* in sequence and in handover order, and a success reports the presented head
\* ("exact attempted/retained evidence observed under the decision lock").
EvidenceExact ==
  answer # NoAnswer /\ answer.retained # NoHead =>
    LET r == answer.retained
    IN /\ r \in dir \ damaged
       /\ \A g \in dir : Continues(g, r)
       /\ \A g \in dir : ~ ValidEqualSequenceHandover(Pins(answer.store), r, g)
       /\ answer.outcome \in {"Appended", "AlreadyPresent"} => r = answer.head

\* Packaging somewhere authorises new to follow old.
Succeeds(svc, old, new) ==
  \E n \in DOMAIN Configs : \E t \in Configs[n].handovers :
    t.svc = svc /\ t.old = old /\ t.new = new

\* Once a successor key has a record, no store, not even one still running with
\* the pins of an older generation, adds a record of the key it replaced.
KeySuccession ==
  [][\A h \in dir' \ dir : \A g \in dir :
       g.svc = h.svc => ~ Succeeds(h.svc, h.key, g.key)]_vars

\* What append accepts, a restart accepts: while a store's cache matches an
\* undamaged directory, no listing order makes a scan under its pins fail.
Reopenable ==
  \A p \in Stores :
    pc[p] = "idle" /\ CacheFresh(p) /\ damaged = {} =>
      ScanErrors(Pins(p), dir, {}) = {}

\* What callers are told is retained is so, and what the directory retains can be
\* opened again.
RetainedSound == EvidenceExact /\ Reopenable

\* A head for which an append answered Ok is covered by a directory fsync.
AckedDurable == acked \subseteq durable

\* Even across power failures, nothing is retained behind or beside a head for
\* which an append has answered Ok.
AckedNeverRegress == [][\A h \in dir' \ dir : \A a \in acked : Continues(a, h)]_vars

\* Even when the stamp misses another store's link, two heads of one key and
\* sequence are never both answered Ok: hard_link does not replace a record.
AckedUnique == \A a, b \in acked : SameName(a, b) => a = b
=============================================================================
