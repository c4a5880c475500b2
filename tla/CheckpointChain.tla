-------------------------- MODULE CheckpointChain --------------------------
(***************************************************************************)
(* The pure rules of crates/bloom-audit-checkpoint: which pin sets open    *)
(* accepts, which heads a pin set verifies, how a set of retained records  *)
(* is ordered and checked, and what append decides about a presented head. *)
(*                                                                         *)
(* A head is a record [svc, seq, hash, key, sig].  Key identifiers are     *)
(* numbers whose order is the order of the Token names; sig says whether   *)
(* the signature verifies under the key the head names.  Signatures are    *)
(* deterministic, so two genuine heads with equal fields are equal.        *)
(*                                                                         *)
(* A pin set c is [current, historical, handovers]: sets of [svc, key]     *)
(* pins, and a set of handovers [svc, old, new, seq, hash].                *)
(***************************************************************************)
EXTENDS Naturals, FiniteSets

CONSTANT NoHead   \* "no head is retained": None in the code

(***************************************************************************)
(* Pin sets.                                                               *)
(***************************************************************************)
IsCurrent(c, svc, key) == [svc |-> svc, key |-> key] \in c.current

IsPinned(c, svc, key) == [svc |-> svc, key |-> key] \in c.current \cup c.historical

HasPeer(c, svc) == \E pin \in c.current : pin.svc = svc

\* What open_with_history demands of its arguments: one current key per
\* service, history only of services with a current key and never of that
\* key, handovers between two distinct pinned keys, one per successor key.
ValidPins(c) ==
  /\ \A p, q \in c.current : p.svc = q.svc => p = q
  /\ \A p \in c.historical : HasPeer(c, p.svc) /\ p \notin c.current
  /\ \A t \in c.handovers :
       /\ t.old # t.new
       /\ IsPinned(c, t.svc, t.old)
       /\ IsPinned(c, t.svc, t.new)
  /\ \A t, u \in c.handovers : t.svc = u.svc /\ t.new = u.new => t = u

(***************************************************************************)
(* Verification of one head.                                               *)
(***************************************************************************)
VerifyRetained(c, h) == IsPinned(c, h.svc, h.key) /\ h.sig

RetainedError(c, h) ==
  IF IsPinned(c, h.svc, h.key) THEN "InvalidSignature" ELSE "UnpinnedPeer"

VerifyLive(c, h) == IsCurrent(c, h.svc, h.key) /\ VerifyRetained(c, h)

LiveError(c, h) ==
  IF HasPeer(c, h.svc) THEN "InvalidSignature" ELSE "UnpinnedPeer"

\* The handover to new's key starts exactly at the head old.
ValidHandover(c, old, new) ==
  /\ old.svc = new.svc
  /\ [svc |-> new.svc, old |-> old.key, new |-> new.key,
      seq |-> old.seq, hash |-> old.hash] \in c.handovers

ValidEqualSequenceHandover(c, old, new) ==
  /\ old.seq = new.seq
  /\ old.hash = new.hash
  /\ ValidHandover(c, old, new)

(***************************************************************************)
(* What append_diagnosed decides, given the retained tail of the service.  *)
(***************************************************************************)
AlreadyRetained(latest, h) == latest = h

\* A head that may be written next to the tail.
Advances_EqualSequence(c, latest, h) ==
  \/ latest = NoHead
  \/ /\ latest # NoHead
     /\ latest.key # h.key => ValidHandover(c, latest, h)
     /\ latest.seq <= h.seq

Advances_Rollback(c, latest, h) ==
  \/ latest = NoHead
  \/ /\ latest # NoHead
     /\ latest.key # h.key => ValidHandover(c, latest, h)
     /\ \/ latest.seq # h.seq
        \/ ValidEqualSequenceHandover(c, latest, h)

Advances(c, latest, h) ==
  \/ latest = NoHead
  \/ /\ latest # NoHead
     /\ latest.key # h.key => ValidHandover(c, latest, h)
     /\ \/ latest.seq < h.seq
        \/ ValidEqualSequenceHandover(c, latest, h)

\* The error for a live head that neither is the tail nor advances it.
StaleError(c, latest, h) ==
  IF /\ h.seq < latest.seq
     /\ latest.key # h.key => ValidHandover(c, latest, h)
  THEN "SequenceRollback" ELSE "SequenceConflict"

(***************************************************************************)
(* The order and the chain of retained records.  The sort compares service *)
(* first, so each service is ordered and checked by itself.                *)
(***************************************************************************)
\* The comparator answers Less for two records of one service and sequence.
TieBefore_ByName(c, l, r) == l.key < r.key

TieBefore(c, l, r) ==
  \/ ValidEqualSequenceHandover(c, l, r)
  \/ /\ ~ ValidEqualSequenceHandover(c, r, l)
     /\ l.key < r.key

\* The outcomes of sort_by on the records S of one service, over every order
\* in which the directory may list them.  std sorts up to 20 elements by
\* insertion, which stops at the first neighbour that is not greater: where
\* the comparator is not transitive, several outcomes are possible.
Orders(c, S) ==
  LET n == Cardinality(S)
  IN {s \in [1..n -> S] :
        /\ \A h \in S : \E i \in 1..n : s[i] = h
        /\ \A i, j \in 1..n : i < j => s[i].seq <= s[j].seq
        /\ \A i \in 1..n :
             i < n /\ s[i].seq = s[i + 1].seq =>
               TieBefore(c, s[i], s[i + 1]) \/ ~ TieBefore(c, s[i + 1], s[i])}

\* The loop of verify_record_chains over the sorted records of one service.
\* Two records never have equal service, sequence and key: those fields
\* make up the file name.
ChainOk(c, s) ==
  /\ \A i \in DOMAIN s :
       i + 1 \in DOMAIN s /\ s[i].key # s[i + 1].key =>
         /\ ValidHandover(c, s[i], s[i + 1])
         /\ s[i].seq = s[i + 1].seq => s[i].hash = s[i + 1].hash
  /\ \A i, j \in DOMAIN s :   \* a handover is consumed once
       /\ i # j /\ i + 1 \in DOMAIN s /\ j + 1 \in DOMAIN s
       /\ s[i].key # s[i + 1].key /\ s[j].key # s[j + 1].key
       => s[i + 1].key # s[j + 1].key

OfService(S, svc) == {h \in S : h.svc = svc}

(***************************************************************************)
(* A full scan of the records S, of which those in bad do not parse.       *)
(***************************************************************************)
\* The tail a successful scan may cache for the service svc.
ScanTail(c, S, svc, tail) ==
  LET R == OfService(S, svc)
  IN IF R = {} THEN tail = NoHead
     ELSE \E s \in Orders(c, R) : ChainOk(c, s) /\ tail = s[Cardinality(R)]

ScanOk(c, S, bad, latest) ==
  /\ S \cap bad = {}
  /\ \A h \in S : VerifyRetained(c, h)
  /\ \A svc \in DOMAIN latest : ScanTail(c, S, svc, latest[svc])

\* The records of some service can be listed so that the chain is refused.
MayRefuseChain(c, S) ==
  \E h \in S : \E s \in Orders(c, OfService(S, h.svc)) : ~ ChainOk(c, s)

\* The errors a scan may end with; the first unacceptable entry in directory
\* order decides, the chain is looked at only when every entry is acceptable.
ScanErrors(c, S, bad) ==
  LET refused == {h \in S \ bad : ~ VerifyRetained(c, h)}
  IN {RetainedError(c, h) : h \in refused}
     \cup (IF S \cap bad # {} THEN {"StorageOrConfigurationFailure"} ELSE {})
     \cup (IF S \cap bad = {} /\ refused = {} /\ MayRefuseChain(c, S)
           THEN {"SequenceConflict"} ELSE {})
=============================================================================
