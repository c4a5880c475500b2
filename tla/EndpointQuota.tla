--------------------------- MODULE EndpointQuota ---------------------------
(***************************************************************************)
(* The admission quota a server endpoint shares between its connections    *)
(* (EndpointQuota of crates/bloom-triad-local-transport): a sliding window *)
(* of requests, a pool of mutation slots, and a sliding window of journal  *)
(* admissions.  A connection reads the wall clock first and passes the     *)
(* gates afterwards, each under its own lock, so admissions of several     *)
(* connections interleave between the reading and each gate.               *)
(*                                                                         *)
(* Real time only moves forward; the wall clock that observed_at_ms comes  *)
(* from may also be set back or forward.                                   *)
(***************************************************************************)
EXTENDS Integers, FiniteSets, Sequences

CONSTANTS
  Requests,      \* requests that reach the endpoint, one connection each
  ReadOnly,      \* those whose method is read-only
  Slots,         \* maximum_in_flight_mutations
  Limit,         \* admissions per window, for each gate
  Window,        \* length of the window, for each gate
  MaxTime,       \* bound on real time
  MaxLag,        \* bound on how far the wall clock is set back
  MaxLead,       \* bound on how far it is set forward
  MaxDelay       \* bound on the time between reading the clock and the last gate

Gates == {"request", "journal"}

ASSUME QuotaAssumption ==
  /\ IsFiniteSet(Requests) /\ ReadOnly \subseteq Requests
  /\ Slots \in Nat \ {0}
  /\ Limit \in [Gates -> Nat \ {0}]
  /\ Window \in [Gates -> Nat \ {0}]
  /\ MaxTime \in Nat /\ MaxLag \in Nat /\ MaxLead \in Nat /\ MaxDelay \in Nat

VARIABLES
  time,      \* real time
  lag,       \* how far the wall clock has been set back, in all
  lead,      \* how far it has been set forward, in all
  phase,     \* where each request is
  seen,      \* observed_at_ms of each request
  since,     \* real time of that observation (history)
  queue,     \* accepted_at_ms of each gate
  passed,    \* real time at which a request passed a gate, or Never (history)
  free       \* free permits of mutation_slots

vars == <<time, lag, lead, phase, seen, since, queue, passed, free>>

Never == -1

\* The wall clock, started high enough never to be set below zero.
Wall == MaxLag + time + lead - lag

Init ==
  /\ time = 0 /\ lag = 0 /\ lead = 0
  /\ phase = [r \in Requests |-> "new"]
  /\ seen = [r \in Requests |-> 0]
  /\ since = [r \in Requests |-> 0]
  /\ queue = [g \in Gates |-> <<>>]
  /\ passed = [g \in Gates |-> [r \in Requests |-> Never]]
  /\ free = Slots

Move(r, to) == phase' = [phase EXCEPT ![r] = to]

\* An admission that left the window when the clock shows now.
Expired_Early(g, at, now) == at + Window[g] - 1 <= now
Expired(g, at, now) == at + Window[g] <= now

\* The queue after popping its front while that has expired: the loop stops at
\* the first admission still in the window, even if later ones have expired.
Pruned(g, now) ==
  LET q == queue[g]
      popped == {i \in 1..Len(q) : \A j \in 1..i : Expired(g, q[j], now)}
  IN SubSeq(q, Cardinality(popped) + 1, Len(q))

HasRoom_OffByOne(g, now) == Len(Pruned(g, now)) <= Limit[g]
HasRoom(g, now) == Len(Pruned(g, now)) < Limit[g]

\* SlidingAdmission::admit accepts, or refuses; it prunes in both cases.
Accept(g, r) ==
  /\ HasRoom(g, seen[r])
  /\ queue' = [queue EXCEPT ![g] = Append(Pruned(g, seen[r]), seen[r])]
  /\ passed' = [passed EXCEPT ![g][r] = time]

Refuse(g, r) ==
  /\ ~ HasRoom(g, seen[r])
  /\ queue' = [queue EXCEPT ![g] = Pruned(g, seen[r])]
  /\ UNCHANGED passed

\* now_ms() in the connection's task, before the quota is consulted.
Observe(r) ==
  /\ phase[r] = "new"
  /\ seen' = [seen EXCEPT ![r] = Wall]
  /\ since' = [since EXCEPT ![r] = time]
  /\ Move(r, "observed")
  /\ UNCHANGED <<time, lag, lead, queue, passed, free>>

RequestGate(r) ==
  /\ phase[r] = "observed"
  /\ \/ Accept("request", r) /\ Move(r, IF r \in ReadOnly THEN "running" ELSE "rated")
     \/ Refuse("request", r) /\ Move(r, "refused")
  /\ UNCHANGED <<time, lag, lead, seen, since, free>>

\* try_acquire_owned never waits.
AcquireSlot(r) ==
  /\ phase[r] = "rated"
  /\ \/ free > 0 /\ free' = free - 1 /\ Move(r, "holding")
     \/ free = 0 /\ UNCHANGED free /\ Move(r, "refused")
  /\ UNCHANGED <<time, lag, lead, seen, since, queue, passed>>

JournalGate(r) ==
  /\ phase[r] = "holding"
  /\ \/ Accept("journal", r) /\ Move(r, "running")
     \/ Refuse("journal", r) /\ Move(r, "unwinding")
  /\ UNCHANGED <<time, lag, lead, seen, since, free>>

\* Returning the error drops the permit that admit had already taken.
Unwind_Leak(r) ==
  /\ phase[r] = "unwinding"
  /\ Move(r, "refused")
  /\ UNCHANGED <<time, lag, lead, seen, since, queue, passed, free>>

Unwind(r) ==
  /\ phase[r] = "unwinding"
  /\ free' = free + 1
  /\ Move(r, "refused")
  /\ UNCHANGED <<time, lag, lead, seen, since, queue, passed>>

\* The dispatch future returns, panics or is dropped with its task: in every
\* case the EndpointAdmission is dropped, before the response is written.
Finish_ReleasesAlways(r) ==
  /\ phase[r] = "running"
  /\ free' = free + 1
  /\ Move(r, "done")
  /\ UNCHANGED <<time, lag, lead, seen, since, queue, passed>>

Finish(r) ==
  /\ phase[r] = "running"
  /\ free' = IF r \in ReadOnly THEN free ELSE free + 1
  /\ Move(r, "done")
  /\ UNCHANGED <<time, lag, lead, seen, since, queue, passed>>

\* Time passes, but no task sits longer than MaxDelay between its gates.
Tick ==
  /\ time < MaxTime
  /\ \A r \in Requests :
       phase[r] \in {"observed", "rated", "holding"} => time - since[r] < MaxDelay
  /\ time' = time + 1
  /\ UNCHANGED <<lag, lead, phase, seen, since, queue, passed, free>>

\* The wall clock is set back, or forward.
SetBack ==
  /\ lag < MaxLag
  /\ lag' = lag + 1
  /\ UNCHANGED <<time, lead, phase, seen, since, queue, passed, free>>

SetForward ==
  /\ lead < MaxLead
  /\ lead' = lead + 1
  /\ UNCHANGED <<time, lag, phase, seen, since, queue, passed, free>>

Next ==
  \/ \E r \in Requests :
       \/ Observe(r) \/ RequestGate(r) \/ AcquireSlot(r) \/ JournalGate(r)
       \/ Unwind(r) \/ Finish(r)
  \/ Tick
  \/ SetBack
  \/ SetForward

Spec == Init /\ [][Next]_vars

(***************************************************************************)
(* Correctness.                                                            *)
(***************************************************************************)
Phases == {"new", "observed", "rated", "holding", "unwinding", "running", "done", "refused"}

\* Every variable has its type.
TypeOK ==
  /\ time \in Nat /\ lag \in 0..MaxLag /\ lead \in 0..MaxLead
  /\ phase \in [Requests -> Phases]
  /\ seen \in [Requests -> Nat]
  /\ since \in [Requests -> Nat]
  /\ queue \in [Gates -> Seq(Nat)]
  /\ passed \in [Gates -> [Requests -> Nat \cup {Never}]]
  /\ free \in 0..Slots

Holds(r) == phase[r] \in {"holding", "unwinding"} \/ (phase[r] = "running" /\ r \notin ReadOnly)
Holders == {r \in Requests : Holds(r)}

\* No permit is lost or made up, through refusals after the permit was taken,
\* dropped tasks and completions: free ones and held ones are all the slots.
SlotsConserved == free + Cardinality(Holders) = Slots

\* A gate never remembers more admissions than it allows.
GatesBounded == \A g \in Gates : Len(queue[g]) <= Limit[g]

\* In real time, no window shortened by MaxDelay and by the clock's forward steps
\* ever sees more than Limit admissions through a gate, although connections pass
\* the gates out of the order in which they read the clock, which may be set back by
\* less than a window: more, and a late reading prunes what was admitted before it.
WindowBound ==
  \A g \in Gates : \A r \in Requests :
    passed[g][r] # Never =>
      Cardinality({s \in Requests :
        /\ passed[g][s] # Never
        /\ passed[g][s] <= passed[g][r]
        /\ passed[g][r] < passed[g][s] + Window[g] - MaxDelay - MaxLead}) <= Limit[g]
=============================================================================
