------------------------ MODULE EndpointQuotaProofs ------------------------
(***************************************************************************)
(* Proofs that EndpointQuota never loses or makes up a permit, that its    *)
(* gates stay bounded, for any requests, limits, windows and clock, and    *)
(* that no window of real time sees more admissions than the limit, if the *)
(* clock is set back by less than a window.                                *)
(***************************************************************************)
EXTENDS EndpointQuota, FiniteSetTheorems, SequenceTheorems, TLAPS

\* A read-only request never comes to where a permit is held: without that a
\* permit taken for it would not be given back when it finishes.
ReadersUnpermitted == \A r \in ReadOnly : phase[r] \notin {"rated", "holding", "unwinding"}

IInv == TypeOK /\ SlotsConserved /\ GatesBounded /\ ReadersUnpermitted

(***************************************************************************)
(* Pruning.                                                                *)
(***************************************************************************)
\* Pruning a gate leaves a sequence of times, no longer than it was.
LEMMA PrunedShorter ==
  ASSUME TypeOK, NEW g \in Gates, NEW now
  PROVE  /\ Pruned(g, now) \in Seq(Nat)
         /\ Len(Pruned(g, now)) <= Len(queue[g])
<1> DEFINE q == queue[g]
           popped == {i \in 1..Len(q) : \A j \in 1..i : Expired(g, q[j], now)}
<1>1. q \in Seq(Nat) /\ Len(q) \in Nat
  BY DEF TypeOK
<1>2. IsFiniteSet(1..Len(q)) /\ Cardinality(1..Len(q)) = Len(q)
  BY <1>1, FS_Interval
<1>3. Cardinality(popped) \in 0..Len(q)
  <2>1. popped \subseteq 1..Len(q)
    OBVIOUS
  <2>2. IsFiniteSet(popped) /\ Cardinality(popped) <= Cardinality(1..Len(q))
    BY <1>2, <2>1, FS_Subset
  <2>3. Cardinality(popped) \in Nat
    BY <2>2, FS_CardinalityType
  <2> QED BY <1>1, <1>2, <2>2, <2>3
<1> HIDE DEF q, popped
<1>4. Cardinality(popped) + 1 \in 1..Len(q) + 1 /\ Len(q) \in Cardinality(popped) + 1 - 1 .. Len(q)
  BY <1>1, <1>3
<1>5. /\ SubSeq(q, Cardinality(popped) + 1, Len(q)) \in Seq(Nat)
      /\ Len(SubSeq(q, Cardinality(popped) + 1, Len(q))) <= Len(q)
  BY <1>1, <1>3, <1>4, SubSeqProperties
<1> QED BY <1>5 DEF Pruned, q, popped

\* A request that consults a gate leaves the gates well typed and bounded.
LEMMA GateStep ==
  ASSUME TypeOK, GatesBounded, NEW g \in Gates, NEW r \in Requests,
         Accept(g, r) \/ Refuse(g, r)
  PROVE  /\ queue' \in [Gates -> Seq(Nat)]
         /\ passed' \in [Gates -> [Requests -> Nat \cup {Never}]]
         /\ GatesBounded'
<1> DEFINE P == Pruned(g, seen[r])
<1>1. P \in Seq(Nat) /\ Len(P) \in Nat /\ Len(P) <= Len(queue[g])
  BY PrunedShorter
<1>2. /\ seen[r] \in Nat /\ time \in Nat
      /\ queue \in [Gates -> Seq(Nat)]
      /\ passed \in [Gates -> [Requests -> Nat \cup {Never}]]
      /\ \A f \in Gates : Len(queue[f]) \in Nat /\ Len(queue[f]) <= Limit[f] /\ Limit[f] \in Nat
  BY QuotaAssumption DEF TypeOK, GatesBounded
<1>3. CASE Accept(g, r)
  <2>1. Append(P, seen[r]) \in Seq(Nat) /\ Len(Append(P, seen[r])) = Len(P) + 1
    BY <1>1, <1>2
  <2>2. Len(P) < Limit[g]
    BY <1>3 DEF Accept, HasRoom
  <2>3. /\ queue' = [queue EXCEPT ![g] = Append(P, seen[r])]
        /\ passed' = [passed EXCEPT ![g][r] = time]
    BY <1>3 DEF Accept
  <2> HIDE DEF P
  <2>4. \A f \in Gates : Len(queue'[f]) <= Limit[f]
    BY <1>1, <1>2, <2>1, <2>2, <2>3
  <2> QED BY <1>2, <2>1, <2>3, <2>4 DEF GatesBounded
<1>4. CASE Refuse(g, r)
  <2>1. queue' = [queue EXCEPT ![g] = P] /\ passed' = passed
    BY <1>4 DEF Refuse
  <2> HIDE DEF P
  <2>2. \A f \in Gates : Len(queue'[f]) <= Limit[f]
    BY <1>1, <1>2, <2>1
  <2> QED BY <1>1, <1>2, <2>1, <2>2 DEF GatesBounded
<1> QED BY <1>3, <1>4

(***************************************************************************)
(* Permits.                                                                *)
(***************************************************************************)
\* A step that changes who holds a permit by one request, and free by one permit
\* the other way, or neither, keeps free and held permits together.
LEMMA PermitsBalance ==
  ASSUME TypeOK, SlotsConserved, NEW r \in Requests,
         \/ Holders' = Holders /\ free' = free
         \/ r \notin Holders /\ Holders' = Holders \cup {r} /\ free > 0 /\ free' = free - 1
         \/ r \in Holders /\ Holders' = Holders \ {r} /\ free' = free + 1
  PROVE  SlotsConserved' /\ free' \in 0..Slots
<1>1. IsFiniteSet(Holders) /\ Cardinality(Holders) \in Nat
  BY QuotaAssumption, FS_Subset, FS_CardinalityType DEF Holders
<1>2. free \in Nat /\ Slots \in Nat /\ free + Cardinality(Holders) = Slots
  BY QuotaAssumption DEF TypeOK, SlotsConserved
<1>3. CASE Holders' = Holders /\ free' = free
  BY <1>1, <1>2, <1>3 DEF SlotsConserved
<1>4. CASE r \notin Holders /\ Holders' = Holders \cup {r} /\ free > 0 /\ free' = free - 1
  <2>1. Cardinality(Holders') = Cardinality(Holders) + 1
    BY <1>1, <1>4, FS_AddElement
  <2> QED BY <1>1, <1>2, <1>4, <2>1 DEF SlotsConserved
<1>5. CASE r \in Holders /\ Holders' = Holders \ {r} /\ free' = free + 1
  <2>1. Cardinality(Holders') = Cardinality(Holders) - 1
    BY <1>1, <1>5, FS_RemoveElement
  <2>2. Cardinality(Holders') \in Nat
    BY <1>1, <1>5, FS_RemoveElement, FS_CardinalityType
  <2> QED BY <1>1, <1>2, <1>5, <2>1, <2>2 DEF SlotsConserved
<1> QED BY <1>3, <1>4, <1>5

(***************************************************************************)
(* The invariant.                                                          *)
(***************************************************************************)
LEMMA InitInv == Init => IInv
<1> SUFFICES ASSUME Init PROVE IInv
  OBVIOUS
<1>1. TypeOK
  BY QuotaAssumption DEF Init, TypeOK, Phases
<1>2. SlotsConserved
  <2>1. Holders = {}
    BY DEF Init, Holders, Holds
  <2> QED BY <2>1, FS_EmptySet, QuotaAssumption DEF Init, SlotsConserved
<1>3. GatesBounded
  BY QuotaAssumption DEF Init, GatesBounded
<1>4. ReadersUnpermitted
  BY QuotaAssumption DEF Init, ReadersUnpermitted
<1> QED BY <1>1, <1>2, <1>3, <1>4 DEF IInv

\* One request's step.
LEMMA RequestStep ==
  ASSUME IInv, NEW r \in Requests,
         \/ Observe(r) \/ RequestGate(r) \/ AcquireSlot(r) \/ JournalGate(r)
         \/ Unwind(r) \/ Finish(r)
  PROVE  IInv'
<1> USE DEF IInv
<1>1. ASSUME Observe(r) PROVE TypeOK' /\ SlotsConserved' /\ GatesBounded'
  <2>1. Wall \in Nat
    BY QuotaAssumption DEF Wall, TypeOK
  <2>2. Holders' = Holders /\ free' = free
    BY <1>1 DEF Observe, Move, Holders, Holds, TypeOK
  <2>3. TypeOK' /\ GatesBounded'
    BY <1>1, <2>1 DEF Observe, Move, TypeOK, Phases, GatesBounded
  <2> QED BY <2>2, <2>3, PermitsBalance
<1>2. ASSUME RequestGate(r) PROVE TypeOK' /\ SlotsConserved' /\ GatesBounded'
  <2>1. Accept("request", r) \/ Refuse("request", r)
    BY <1>2 DEF RequestGate
  <2>2. "request" \in Gates
    BY DEF Gates
  <2>3. Holders' = Holders /\ free' = free
    BY <1>2 DEF RequestGate, Move, Holders, Holds, TypeOK
  <2>4. phase' \in [Requests -> Phases] /\ UNCHANGED <<time, lag, lead, seen, since, free>>
    BY <1>2 DEF RequestGate, Move, TypeOK, Phases
  <2>5. TypeOK' /\ GatesBounded'
    BY <2>1, <2>2, <2>4, GateStep DEF TypeOK
  <2> QED BY <2>3, <2>5, PermitsBalance
<1>3. ASSUME AcquireSlot(r) PROVE TypeOK' /\ SlotsConserved' /\ GatesBounded'
  <2>1. \/ Holders' = Holders /\ free' = free
        \/ r \notin Holders /\ Holders' = Holders \cup {r} /\ free > 0 /\ free' = free - 1
    BY <1>3 DEF AcquireSlot, Move, Holders, Holds, TypeOK
  <2>2. SlotsConserved' /\ free' \in 0..Slots
    BY <2>1, PermitsBalance
  <2>3. TypeOK' /\ GatesBounded'
    BY <1>3, <2>2 DEF AcquireSlot, Move, TypeOK, Phases, GatesBounded
  <2> QED BY <2>2, <2>3
<1>4. ASSUME JournalGate(r) PROVE TypeOK' /\ SlotsConserved' /\ GatesBounded'
  <2>1. Accept("journal", r) \/ Refuse("journal", r)
    BY <1>4 DEF JournalGate
  <2>2. "journal" \in Gates
    BY DEF Gates
  <2>3. Holders' = Holders /\ free' = free
    BY <1>4 DEF JournalGate, Move, Holders, Holds, TypeOK, ReadersUnpermitted
  <2>4. phase' \in [Requests -> Phases] /\ UNCHANGED <<time, lag, lead, seen, since, free>>
    BY <1>4 DEF JournalGate, Move, TypeOK, Phases
  <2>5. TypeOK' /\ GatesBounded'
    BY <2>1, <2>2, <2>4, GateStep DEF TypeOK
  <2> QED BY <2>3, <2>5, PermitsBalance
<1>5. ASSUME Unwind(r) PROVE TypeOK' /\ SlotsConserved' /\ GatesBounded'
  <2>1. r \in Holders /\ Holders' = Holders \ {r} /\ free' = free + 1
    BY <1>5 DEF Unwind, Move, Holders, Holds, TypeOK
  <2>2. SlotsConserved' /\ free' \in 0..Slots
    BY <2>1, PermitsBalance
  <2>3. TypeOK' /\ GatesBounded'
    BY <1>5, <2>2 DEF Unwind, Move, TypeOK, Phases, GatesBounded
  <2> QED BY <2>2, <2>3
<1>6. ASSUME Finish(r) PROVE TypeOK' /\ SlotsConserved' /\ GatesBounded'
  <2>1. \/ Holders' = Holders /\ free' = free
        \/ r \in Holders /\ Holders' = Holders \ {r} /\ free' = free + 1
    BY <1>6 DEF Finish, Move, Holders, Holds, TypeOK
  <2>2. SlotsConserved' /\ free' \in 0..Slots
    BY <2>1, PermitsBalance
  <2>3. TypeOK' /\ GatesBounded'
    BY <1>6, <2>2 DEF Finish, Move, TypeOK, Phases, GatesBounded
  <2> QED BY <2>2, <2>3
<1>7. TypeOK' /\ SlotsConserved' /\ GatesBounded'
  BY <1>1, <1>2, <1>3, <1>4, <1>5, <1>6
<1>8. ReadersUnpermitted'
  BY QuotaAssumption
  DEF Observe, RequestGate, AcquireSlot, JournalGate, Unwind, Finish, Move,
      ReadersUnpermitted, TypeOK
<1> QED BY <1>7, <1>8

LEMMA StepInv == IInv /\ [Next]_vars => IInv'
<1> SUFFICES ASSUME IInv, [Next]_vars PROVE IInv'
  OBVIOUS
<1>1. CASE UNCHANGED vars
  BY <1>1 DEF vars, IInv, TypeOK, SlotsConserved, Holders, Holds, GatesBounded, ReadersUnpermitted
<1>2. CASE Tick \/ SetBack \/ SetForward
  <2>1. UNCHANGED <<phase, seen, since, queue, passed, free>>
    BY <1>2 DEF Tick, SetBack, SetForward
  <2>2. SlotsConserved' /\ GatesBounded' /\ ReadersUnpermitted'
    BY <2>1 DEF IInv, SlotsConserved, Holders, Holds, GatesBounded, ReadersUnpermitted
  <2>3. time' \in Nat /\ lag' \in 0..MaxLag /\ lead' \in 0..MaxLead
    BY <1>2, QuotaAssumption DEF Tick, SetBack, SetForward, IInv, TypeOK
  <2>4. TypeOK'
    BY <2>1, <2>3 DEF IInv, TypeOK
  <2> QED BY <2>2, <2>4 DEF IInv
<1>3. CASE \E r \in Requests :
             \/ Observe(r) \/ RequestGate(r) \/ AcquireSlot(r) \/ JournalGate(r)
             \/ Unwind(r) \/ Finish(r)
  BY <1>3, RequestStep
<1> QED BY <1>1, <1>2, <1>3 DEF Next

\* Every variable keeps its type; in particular free stays within 0..Slots
\* (the Semaphore of EndpointQuota::new).
THEOREM QuotaTypeCorrect == Spec => []TypeOK
<1>1. IInv => TypeOK
  BY DEF IInv
<1> QED BY <1>1, InitInv, StepInv, PTL DEF Spec

\* No permit is lost or made up, whatever the interleaving of refusals,
\* completions and dropped tasks (EndpointQuota::admit, EndpointAdmission).
THEOREM PermitsNeverLeak == Spec => []SlotsConserved
<1>1. IInv => SlotsConserved
  BY DEF IInv
<1> QED BY <1>1, InitInv, StepInv, PTL DEF Spec

\* A gate never remembers more admissions than its maximum, in whatever order
\* connections reach it and however the clock is set (SlidingAdmission::admit).
THEOREM GatesStayBounded == Spec => []GatesBounded
<1>1. IInv => GatesBounded
  BY DEF IInv
<1> QED BY <1>1, InitInv, StepInv, PTL DEF Spec

(***************************************************************************)
(* The sliding window.                                                     *)
(*                                                                         *)
(* Whatever passed a gate recently is still in its queue, at a place of    *)
(* its own, so the length of the queue bounds how many there are.  An      *)
(* admission is popped when a later reader of the clock finds it expired;  *)
(* that reader's clock and the admission's differ by real time, by how far *)
(* the clock was set, and by which of the two was read first.              *)
(***************************************************************************)
\* The clock is never set back by a whole window of a gate.  Without this a
\* request that read the clock before it was set back pops, right after they
\* were admitted, requests that read it since.
SetBackWithinWindow == \A g \in Gates : MaxLag < Window[g]

Read(r) == phase[r] # "new"

\* How a reading of the clock compares with the clock now.
Clocked ==
  \A r \in Requests : Read(r) =>
    /\ since[r] <= time
    /\ Wall - seen[r] <= (time - since[r]) + lead
    /\ seen[r] - Wall <= lag

\* How two readings of the clock compare, according to which came first.
Compared ==
  \A s, r \in Requests : Read(s) /\ Read(r) =>
    \/ since[s] <= since[r] /\ seen[r] - seen[s] <= (since[r] - since[s]) + MaxLead
    \/ since[r] <= since[s] /\ seen[r] - seen[s] <= MaxLag

Underway == {"observed", "rated", "holding"}

Prompt == \A r \in Requests : phase[r] \in Underway => time - since[r] <= MaxDelay

Passed ==
  \A g \in Gates : \A r \in Requests : passed[g][r] # Never =>
    Read(r) /\ passed[g][r] <= time /\ passed[g][r] <= since[r] + MaxDelay

\* A request has passed neither gate before it consults it.
Unpassed ==
  \A r \in Requests :
    /\ phase[r] \in {"new", "observed"} => passed["request"][r] = Never
    /\ phase[r] \in {"new"} \cup Underway => passed["journal"][r] = Never

ClockInv == Clocked /\ Compared /\ Prompt /\ Passed /\ Unpassed

\* What passed the gate within the last window, shortened as WindowBound says.
Recent(g) ==
  {s \in Requests : /\ passed[g][s] # Never
                    /\ time < passed[g][s] + Window[g] - MaxDelay - MaxLead}

\* f gives each recent request a place of its own in the gate's queue.
Places(g, f) ==
  /\ f \in Injection(Recent(g), 1..Len(queue[g]))
  /\ \A s \in Recent(g) : queue[g][f[s]] = seen[s]

Remembered == \A g \in Gates : \E f : Places(g, f)

\* The numbers of the clock, as the provers need them.
LEMMA ClockTypes ==
  ASSUME TypeOK
  PROVE  /\ MaxLag \in Nat /\ MaxLead \in Nat /\ MaxDelay \in Nat
         /\ time \in Nat /\ lag \in Nat /\ lead \in Nat /\ lag <= MaxLag /\ lead <= MaxLead
         /\ Wall \in Nat /\ Wall = MaxLag + time + lead - lag
         /\ \A r \in Requests : seen[r] \in Nat /\ since[r] \in Nat
         /\ \A g \in Gates : Window[g] \in Nat \ {0} /\ Limit[g] \in Nat
<1>1. /\ MaxLag \in Nat /\ MaxLead \in Nat /\ MaxDelay \in Nat
      /\ time \in Nat /\ lag \in Nat /\ lead \in Nat /\ lag <= MaxLag /\ lead <= MaxLead
  BY QuotaAssumption DEF TypeOK
<1>2. Wall \in Nat /\ Wall = MaxLag + time + lead - lag
  BY <1>1 DEF Wall
<1>3. \A r \in Requests : seen[r] \in Nat /\ since[r] \in Nat
  BY DEF TypeOK
<1>4. \A g \in Gates : Window[g] \in Nat \ {0} /\ Limit[g] \in Nat
  BY QuotaAssumption
<1>. QED  BY <1>1, <1>2, <1>3, <1>4

LEMMA InitClock == Init => ClockInv
<1> SUFFICES ASSUME Init PROVE ClockInv
  OBVIOUS
<1>1. Clocked /\ Compared /\ Prompt
  BY DEF Init, Clocked, Compared, Prompt, Read, Underway
<1>2. Passed /\ Unpassed
  BY DEF Init, Passed, Unpassed, Gates
<1>. QED  BY <1>1, <1>2 DEF ClockInv

\* Reading the clock: the new reading comes after all others.
LEMMA ObserveClock ==
  ASSUME TypeOK, ClockInv, NEW r \in Requests, Observe(r)
  PROVE  ClockInv'
<1>0. /\ MaxLag \in Nat /\ MaxLead \in Nat /\ MaxDelay \in Nat
      /\ time \in Nat /\ lag \in Nat /\ lead \in Nat /\ lag <= MaxLag /\ lead <= MaxLead
      /\ Wall \in Nat
      /\ \A q \in Requests : seen[q] \in Nat /\ since[q] \in Nat
  BY ClockTypes
<1>1. /\ phase[r] = "new" /\ phase' = [phase EXCEPT ![r] = "observed"]
      /\ seen' = [seen EXCEPT ![r] = Wall] /\ since' = [since EXCEPT ![r] = time]
      /\ UNCHANGED <<time, lag, lead, queue, passed, free>>
  BY DEF Observe, Move
<1>2. /\ phase'[r] = "observed" /\ seen'[r] = Wall /\ since'[r] = time
      /\ \A q \in Requests \ {r} :
           phase'[q] = phase[q] /\ seen'[q] = seen[q] /\ since'[q] = since[q]
  BY <1>1 DEF TypeOK
<1>3. Wall' = Wall
  BY <1>1 DEF Wall
<1>4. Clocked'
  <2> SUFFICES ASSUME NEW q \in Requests, Read(q)'
               PROVE  /\ since'[q] <= time'
                      /\ Wall' - seen'[q] <= (time' - since'[q]) + lead'
                      /\ seen'[q] - Wall' <= lag'
    BY DEF Clocked
  <2>1. CASE q = r
    BY <1>0, <1>1, <1>2, <1>3, <2>1
  <2>2. CASE q # r
    BY <1>1, <1>2, <1>3, <2>2 DEF ClockInv, Clocked, Read
  <2>. QED  BY <2>1, <2>2
<1>5. Compared'
  <2> SUFFICES
        ASSUME NEW s \in Requests, NEW q \in Requests, Read(s)', Read(q)'
        PROVE  \/ since'[s] <= since'[q] /\ seen'[q] - seen'[s] <= (since'[q] - since'[s]) + MaxLead
               \/ since'[q] <= since'[s] /\ seen'[q] - seen'[s] <= MaxLag
    BY DEF Compared
  <2>1. CASE s = r /\ q = r
    BY <1>0, <1>2, <2>1
  <2>2. CASE s # r /\ q # r
    BY <1>1, <1>2, <2>2 DEF ClockInv, Compared, Read
  <2>3. CASE s # r /\ q = r
    <3>1. since[s] <= time /\ Wall - seen[s] <= (time - since[s]) + lead
      BY <1>2, <2>3 DEF ClockInv, Clocked, Read
    <3>2. since'[s] = since[s] /\ seen'[s] = seen[s] /\ since'[q] = time /\ seen'[q] = Wall
      BY <1>2, <2>3
    <3>. QED  BY <1>0, <3>1, <3>2
  <2>4. CASE s = r /\ q # r
    <3>1. since[q] <= time /\ seen[q] - Wall <= lag
      BY <1>2, <2>4 DEF ClockInv, Clocked, Read
    <3>2. since'[q] = since[q] /\ seen'[q] = seen[q] /\ since'[s] = time /\ seen'[s] = Wall
      BY <1>2, <2>4
    <3>. QED  BY <1>0, <3>1, <3>2
  <2>. QED  BY <2>1, <2>2, <2>3, <2>4
<1>6. Prompt'
  <2>1. time - time <= MaxDelay
    BY <1>0
  <2>. QED  BY <1>1, <1>2, <2>1 DEF ClockInv, Prompt
<1>7. Passed' /\ Unpassed'
  <2>1. passed["request"][r] = Never /\ passed["journal"][r] = Never
    BY <1>1 DEF ClockInv, Unpassed
  <2>. QED  BY <1>1, <1>2, <2>1 DEF ClockInv, Passed, Unpassed, Read, Underway, Gates
<1>. QED  BY <1>4, <1>5, <1>6, <1>7 DEF ClockInv

\* A request past its reading consults a gate, takes a permit or ends.
LEMMA MoveClock ==
  ASSUME TypeOK, ClockInv, NEW r \in Requests,
         RequestGate(r) \/ AcquireSlot(r) \/ JournalGate(r) \/ Unwind(r) \/ Finish(r)
  PROVE  ClockInv'
<1>1. /\ UNCHANGED <<time, lag, lead, seen, since>>
      /\ phase[r] # "new" /\ phase'[r] # "new"
      /\ phase'[r] \in Underway => phase[r] \in Underway
      /\ \A q \in Requests \ {r} : phase'[q] = phase[q]
  BY DEF RequestGate, AcquireSlot, JournalGate, Unwind, Finish, Move, TypeOK, Underway
<1>2. Clocked' /\ Compared' /\ Prompt'
  <2>1. Wall' = Wall
    BY <1>1 DEF Wall
  <2>2. \A q \in Requests : Read(q)' <=> Read(q)
    BY <1>1 DEF Read
  <2>3. Clocked'
    BY <1>1, <2>1, <2>2 DEF ClockInv, Clocked
  <2>4. Compared'
    BY <1>1, <2>2 DEF ClockInv, Compared
  <2>5. Prompt'
    BY <1>1 DEF ClockInv, Prompt
  <2>. QED  BY <2>3, <2>4, <2>5
<1>3. \/ passed' = passed
      \/ \E g \in Gates : phase[r] \in Underway /\ passed' = [passed EXCEPT ![g][r] = time]
  BY DEF RequestGate, AcquireSlot, JournalGate, Unwind, Finish, Accept, Refuse, Underway, Gates
<1>4. Passed'
  <2> SUFFICES ASSUME NEW g \in Gates, NEW q \in Requests, passed'[g][q] # Never
               PROVE  Read(q)' /\ passed'[g][q] <= time' /\ passed'[g][q] <= since'[q] + MaxDelay
    BY DEF Passed
  <2>1. CASE passed'[g][q] = passed[g][q]
    BY <1>1, <2>1 DEF ClockInv, Passed, Read
  <2>2. CASE passed'[g][q] # passed[g][q]
    <3>1. q = r /\ passed'[g][q] = time /\ phase[r] \in Underway
      <4>1. PICK f \in Gates : phase[r] \in Underway /\ passed' = [passed EXCEPT ![f][r] = time]
        BY <1>3, <2>2
      <4>2. passed \in [Gates -> [Requests -> Nat \cup {Never}]]
        BY DEF TypeOK
      <4>. QED  BY <2>2, <4>1, <4>2
    <3>2. time - since[r] <= MaxDelay
      BY <3>1 DEF ClockInv, Prompt
    <3>3. time <= since[r] + MaxDelay
      BY <3>2, ClockTypes
    <3>4. time <= time
      BY ClockTypes
    <3>. QED  BY <1>1, <3>1, <3>3, <3>4 DEF Read
  <2>. QED  BY <2>1, <2>2
<1>5. Unpassed'
  <2>1. ASSUME NEW q \in Requests \ {r}, NEW g \in Gates PROVE passed'[g][q] = passed[g][q]
    <3>1. passed \in [Gates -> [Requests -> Nat \cup {Never}]]
      BY DEF TypeOK
    <3>. QED  BY <1>3, <3>1
  <2>2. \A q \in Requests \ {r} :
          /\ phase'[q] \in {"new", "observed"} => passed'["request"][q] = Never
          /\ phase'[q] \in {"new"} \cup Underway => passed'["journal"][q] = Never
    BY <1>1, <2>1 DEF ClockInv, Unpassed, Gates
  <2>3. phase'[r] \notin {"new", "observed"}
    BY DEF RequestGate, AcquireSlot, JournalGate, Unwind, Finish, Move, TypeOK
  <2>4. phase'[r] \in {"new"} \cup Underway => passed'["journal"][r] = Never
    <3>1. passed["journal"][r] = Never \/ phase'[r] \notin {"new"} \cup Underway
      BY <1>1 DEF ClockInv, Unpassed, Underway
    <3>2. passed'["journal"][r] = passed["journal"][r] \/ phase'[r] \notin {"new"} \cup Underway
      BY DEF RequestGate, AcquireSlot, JournalGate, Unwind, Finish, Move, Accept, Refuse, TypeOK,
         Underway, Gates
    <3>. QED  BY <3>1, <3>2
  <2>. QED  BY <2>2, <2>3, <2>4 DEF Unpassed
<1>. QED  BY <1>2, <1>4, <1>5 DEF ClockInv

LEMMA TimeClock ==
  ASSUME TypeOK, ClockInv, Tick \/ SetBack \/ SetForward
  PROVE  ClockInv'
<1>0. /\ MaxLag \in Nat /\ MaxLead \in Nat /\ MaxDelay \in Nat
      /\ time \in Nat /\ lag \in Nat /\ lead \in Nat
      /\ Wall \in Nat
      /\ \A r \in Requests : seen[r] \in Nat /\ since[r] \in Nat
  BY ClockTypes
<1>1. UNCHANGED <<phase, seen, since, queue, passed, free>>
  BY DEF Tick, SetBack, SetForward
<1>2. \/ time' = time + 1 /\ lag' = lag /\ lead' = lead /\ Wall' = Wall + 1
      \/ time' = time /\ lag' = lag + 1 /\ lead' = lead /\ Wall' = Wall - 1
      \/ time' = time /\ lag' = lag /\ lead' = lead + 1 /\ Wall' = Wall + 1
  BY <1>0 DEF Tick, SetBack, SetForward, Wall
<1>3. Clocked'
  <2> SUFFICES ASSUME NEW r \in Requests, Read(r)
               PROVE  /\ since[r] <= time'
                      /\ Wall' - seen[r] <= (time' - since[r]) + lead'
                      /\ seen[r] - Wall' <= lag'
    BY <1>1 DEF Clocked, Read
  <2>1. /\ since[r] <= time /\ Wall - seen[r] <= (time - since[r]) + lead
        /\ seen[r] - Wall <= lag /\ seen[r] \in Nat /\ since[r] \in Nat
    BY <1>0 DEF ClockInv, Clocked
  <2>. QED  BY <1>0, <1>2, <2>1
<1>4. Compared'
  BY <1>1 DEF ClockInv, Compared, Read
<1>5. Prompt'
  <2> SUFFICES ASSUME NEW r \in Requests, phase[r] \in Underway PROVE time' - since[r] <= MaxDelay
    BY <1>1 DEF Prompt
  <2>1. CASE Tick
    <3>1. time - since[r] < MaxDelay /\ time' = time + 1
      BY <2>1 DEF Tick, Underway
    <3>. QED  BY <1>0, <3>1
  <2>2. CASE time' = time
    BY <2>2 DEF ClockInv, Prompt
  <2>. QED  BY <2>1, <2>2 DEF SetBack, SetForward
<1>6. Passed'
  <2> SUFFICES ASSUME NEW g \in Gates, NEW r \in Requests, passed[g][r] # Never
               PROVE  Read(r) /\ passed[g][r] <= time' /\ passed[g][r] <= since[r] + MaxDelay
    BY <1>1 DEF Passed, Read
  <2>1. Read(r) /\ passed[g][r] <= time /\ passed[g][r] <= since[r] + MaxDelay
    BY DEF ClockInv, Passed
  <2>2. passed[g][r] \in Nat
    BY DEF TypeOK
  <2>. QED  BY <1>0, <1>2, <2>1, <2>2
<1>7. Unpassed'
  BY <1>1 DEF ClockInv, Unpassed
<1>. QED  BY <1>3, <1>4, <1>5, <1>6, <1>7 DEF ClockInv

LEMMA StepClock == TypeOK /\ ClockInv /\ [Next]_vars => ClockInv'
<1> SUFFICES ASSUME TypeOK, ClockInv, [Next]_vars PROVE ClockInv'
  OBVIOUS
<1>1. CASE UNCHANGED vars
  BY <1>1 DEF vars, ClockInv, Clocked, Compared, Prompt, Passed, Unpassed, Read, Wall
<1>. QED  BY <1>1, ObserveClock, MoveClock, TimeClock DEF Next

\* Pruning a gate drops k admissions from its front, and none in the window.
Drops(g, now, k) ==
  /\ k \in Nat
  /\ Len(Pruned(g, now)) + k = Len(queue[g])
  /\ \A i \in 1..Len(queue[g]) : ~ Expired(g, queue[g][i], now) =>
       i - k \in 1..Len(Pruned(g, now)) /\ Pruned(g, now)[i - k] = queue[g][i]

\* What is still in the window when a gate is pruned keeps its place, counted
\* from where the queue now begins.
LEMMA PrunedKeeps ==
  ASSUME TypeOK, NEW g \in Gates, NEW now
  PROVE  \E k : Drops(g, now, k)
<1> DEFINE q == queue[g]
           n == Len(q)
           popped == {i \in 1..n : \A j \in 1..i : Expired(g, q[j], now)}
           k == Cardinality(popped)
<1>1. q \in Seq(Nat) /\ n \in Nat
  BY DEF TypeOK
<1>2. ASSUME NEW m \in Nat, popped \subseteq 1..m PROVE k \in Nat /\ k <= m
  <2>1. IsFiniteSet(1..m) /\ Cardinality(1..m) = m
    BY <1>2, FS_Interval
  <2>2. IsFiniteSet(popped) /\ k <= m
    BY <1>2, <2>1, FS_Subset
  <2>. QED  BY <2>2, FS_CardinalityType
<1>3. k \in Nat /\ k <= n
  BY <1>1, <1>2
<1>4. ASSUME NEW i \in 1..n, ~ Expired(g, q[i], now) PROVE k < i
  <2>1. i - 1 \in Nat /\ i \in Nat
    BY <1>1
  <2>2. ASSUME NEW p \in popped PROVE p \in 1..(i - 1)
    <3>1. p \in 1..n /\ p \in Nat /\ 1 <= p
      BY <1>1
    <3>2. ~ i \in 1..p
      BY <1>4
    <3>. QED  BY <2>1, <3>1, <3>2
  <2>3. k \in Nat /\ k <= i - 1
    BY <1>2, <2>1, <2>2
  <2>. QED  BY <2>1, <2>3
<1>5. Pruned(g, now) = SubSeq(q, k + 1, n)
  BY DEF Pruned
<1> HIDE DEF q, n, popped, k
<1>6. k + 1 \in 1..n + 1 /\ n \in k + 1 - 1 .. n
  BY <1>1, <1>3
<1>7. /\ Len(SubSeq(q, k + 1, n)) = n - k
      /\ \A j \in 1..(n - k) : SubSeq(q, k + 1, n)[j] = q[k + j]
  <2>1. Len(SubSeq(q, k + 1, n)) = IF k + 1 <= n THEN n - (k + 1) + 1 ELSE 0
    BY <1>1, <1>3, <1>6, SubSeqProperties DEF n
  <2>2. Len(SubSeq(q, k + 1, n)) = n - k
    BY <1>1, <1>3, <2>1
  <2>3. ASSUME NEW j \in 1..(n - k) PROVE SubSeq(q, k + 1, n)[j] = q[k + j]
    <3>1. j \in 1..(n - (k + 1) + 1) /\ (k + 1) + j - 1 = k + j
      BY <1>1, <1>3
    <3>2. SubSeq(q, k + 1, n)[j] = q[(k + 1) + j - 1]
      BY <1>1, <1>3, <1>6, <3>1, SubSeqProperties DEF n
    <3>. QED  BY <3>1, <3>2
  <2>. QED  BY <2>2, <2>3
<1>8. ASSUME NEW i \in 1..n, ~ Expired(g, q[i], now)
      PROVE  i - k \in 1..(n - k) /\ SubSeq(q, k + 1, n)[i - k] = q[i]
  <2>1. k < i /\ i <= n /\ i \in Nat
    BY <1>1, <1>4, <1>8
  <2>2. i - k \in 1..(n - k) /\ k + (i - k) = i
    BY <1>1, <1>3, <2>1
  <2>. QED  BY <1>7, <2>2
<1>9. (n - k) + k = n
  BY <1>1, <1>3
<1>10. Drops(g, now, k)
  BY <1>3, <1>5, <1>7, <1>8, <1>9 DEF Drops, q, n
<1>. QED  BY <1>10

\* No reader of the clock finds a recent admission expired.
LEMMA RecentUnexpired ==
  ASSUME TypeOK, ClockInv, SetBackWithinWindow, NEW g \in Gates, NEW s \in Recent(g),
         NEW r \in Requests, Read(r)
  PROVE  ~ Expired(g, seen[s], seen[r])
<1> SUFFICES ASSUME seen[s] + Window[g] <= seen[r] PROVE FALSE
  BY DEF Expired
<1>0. /\ s \in Requests /\ MaxLag \in Nat /\ MaxLead \in Nat /\ MaxDelay \in Nat /\ time \in Nat
      /\ seen[s] \in Nat /\ seen[r] \in Nat /\ since[s] \in Nat /\ since[r] \in Nat
      /\ Window[g] \in Nat
  BY ClockTypes DEF Recent
<1>1. /\ passed[g][s] # Never /\ passed[g][s] \in Nat
      /\ time < passed[g][s] + Window[g] - MaxDelay - MaxLead
  BY <1>0 DEF Recent, TypeOK
<1>2. Read(s) /\ passed[g][s] <= since[s] + MaxDelay
  BY <1>0, <1>1 DEF ClockInv, Passed
<1>3. since[r] <= time
  BY DEF ClockInv, Clocked
<1>4. \/ since[s] <= since[r] /\ seen[r] - seen[s] <= (since[r] - since[s]) + MaxLead
      \/ since[r] <= since[s] /\ seen[r] - seen[s] <= MaxLag
  BY <1>0, <1>2 DEF ClockInv, Compared
<1>5. MaxLag < Window[g]
  BY DEF SetBackWithinWindow
<1>. QED  BY <1>0, <1>1, <1>2, <1>3, <1>4, <1>5

\* A request that consults a gate leaves every recent one its place.
LEMMA GateRemembers ==
  ASSUME TypeOK, ClockInv, SetBackWithinWindow, NEW g \in Gates, NEW r \in Requests, Read(r),
         passed[g][r] = Never, Accept(g, r) \/ Refuse(g, r), UNCHANGED <<time, seen>>,
         NEW f, Places(g, f)
  PROVE  \E e : Places(g, e)'
<1> DEFINE q == queue[g]
           P == Pruned(g, seen[r])
<1>0. /\ q \in Seq(Nat) /\ P \in Seq(Nat) /\ Len(q) \in Nat /\ Len(P) \in Nat
      /\ queue \in [Gates -> Seq(Nat)]
      /\ passed \in [Gates -> [Requests -> Nat \cup {Never}]]
      /\ seen[r] \in Nat
  BY PrunedShorter DEF TypeOK
<1>a. PICK k : Drops(g, seen[r], k)
  BY PrunedKeeps
<1>1. /\ k \in Nat /\ Len(P) + k = Len(q)
      /\ \A i \in 1..Len(q) : ~ Expired(g, q[i], seen[r]) =>
           i - k \in 1..Len(P) /\ P[i - k] = q[i]
  BY <1>a DEF Drops
<1> HIDE DEF q, P
<1>2. /\ f \in [Recent(g) -> 1..Len(q)]
      /\ \A a, b \in Recent(g) : f[a] = f[b] => a = b
      /\ \A s \in Recent(g) : q[f[s]] = seen[s]
  BY DEF Places, Injection, IsInjective, q
<1>3. \A s \in Recent(g) : f[s] \in Nat /\ f[s] - k \in 1..Len(P) /\ P[f[s] - k] = seen[s]
  <2> SUFFICES ASSUME NEW s \in Recent(g)
               PROVE  f[s] \in Nat /\ f[s] - k \in 1..Len(P) /\ P[f[s] - k] = seen[s]
    OBVIOUS
  <2>1. f[s] \in 1..Len(q) /\ q[f[s]] = seen[s]
    BY <1>2
  <2>2. ~ Expired(g, q[f[s]], seen[r])
    BY <2>1, RecentUnexpired
  <2>3. f[s] - k \in 1..Len(P) /\ P[f[s] - k] = q[f[s]]
    BY <1>1, <2>1, <2>2
  <2>. QED  BY <1>0, <2>1, <2>3
<1>4. CASE Refuse(g, r)
  <2>1. queue'[g] = P /\ passed' = passed
    BY <1>0, <1>4 DEF Refuse, P
  <2>2. Recent(g)' = Recent(g)
    BY <2>1 DEF Recent
  <2>a. PICK e : e = [s \in Recent(g) |-> f[s] - k]
    OBVIOUS
  <2>3. e \in [Recent(g) -> 1..Len(P)]
    BY <1>3, <2>a
  <2>4. ASSUME NEW a \in Recent(g), NEW b \in Recent(g), e[a] = e[b] PROVE a = b
    <3>1. f[a] - k = f[b] - k /\ f[a] \in Nat /\ f[b] \in Nat
      BY <1>3, <2>a, <2>4
    <3>2. f[a] = f[b]
      BY <1>1, <3>1
    <3>. QED  BY <1>2, <3>2
  <2>5. \A s \in Recent(g) : P[e[s]] = seen[s]
    BY <1>3, <2>a
  <2>6. Places(g, e)'
    BY <2>1, <2>2, <2>3, <2>4, <2>5 DEF Places, Injection, IsInjective
  <2>. QED  BY <2>6
<1>5. CASE Accept(g, r)
  <2>1. /\ queue'[g] = Append(P, seen[r]) /\ passed' = [passed EXCEPT ![g][r] = time]
        /\ Append(P, seen[r]) \in Seq(Nat) /\ Len(Append(P, seen[r])) = Len(P) + 1
        /\ \A i \in 1..Len(P) : Append(P, seen[r])[i] = P[i]
        /\ Append(P, seen[r])[Len(P) + 1] = seen[r]
    BY <1>0, <1>5, AppendProperties DEF Accept, P
  <2>2. \A s \in Requests \ {r} : passed'[g][s] = passed[g][s]
    BY <1>0, <2>1
  <2>3. r \notin Recent(g)
    BY DEF Recent
  <2>4. Recent(g)' \subseteq Recent(g) \cup {r}
    BY <2>2 DEF Recent
  <2>a. PICK e : e = [s \in Recent(g)' |-> IF s = r THEN Len(P) + 1 ELSE f[s] - k]
    OBVIOUS
  <2>5. e \in [Recent(g)' -> 1..(Len(P) + 1)]
    <3> SUFFICES ASSUME NEW s \in Recent(g)' PROVE e[s] \in 1..(Len(P) + 1)
      BY <2>a
    <3>1. CASE s = r
      BY <1>0, <2>a, <3>1
    <3>2. CASE s # r
      <4>1. f[s] - k \in 1..Len(P)
        BY <1>3, <2>4, <3>2
      <4>. QED  BY <1>0, <2>a, <3>2, <4>1
    <3>. QED  BY <3>1, <3>2
  <2>6. ASSUME NEW a \in Recent(g)', NEW b \in Recent(g)', e[a] = e[b] PROVE a = b
    <3>1. CASE a = r /\ b = r
      BY <3>1
    <3>2. CASE a # r /\ b = r
      <4>1. f[a] - k \in 1..Len(P)
        BY <1>3, <2>4, <3>2
      <4>. QED  BY <1>0, <2>a, <2>6, <3>2, <4>1
    <3>3. CASE a = r /\ b # r
      <4>1. f[b] - k \in 1..Len(P)
        BY <1>3, <2>4, <3>3
      <4>. QED  BY <1>0, <2>a, <2>6, <3>3, <4>1
    <3>4. CASE a # r /\ b # r
      <4>1. a \in Recent(g) /\ b \in Recent(g) /\ f[a] - k = f[b] - k
        BY <2>a, <2>4, <2>6, <3>4
      <4>2. f[a] = f[b]
        BY <1>1, <1>3, <4>1
      <4>. QED  BY <1>2, <4>1, <4>2
    <3>. QED  BY <3>1, <3>2, <3>3, <3>4
  <2>7. ASSUME NEW s \in Recent(g)' PROVE Append(P, seen[r])[e[s]] = seen[s]
    <3>1. CASE s = r
      BY <2>a, <2>1, <3>1
    <3>2. CASE s # r
      <4>1. f[s] - k \in 1..Len(P) /\ P[f[s] - k] = seen[s]
        BY <1>3, <2>4, <3>2
      <4>. QED  BY <2>a, <2>1, <3>2, <4>1
    <3>. QED  BY <3>1, <3>2
  <2>8. Places(g, e)'
    BY <2>1, <2>5, <2>6, <2>7 DEF Places, Injection, IsInjective
  <2>. QED  BY <2>8
<1>. QED  BY <1>4, <1>5

\* A gate whose queue and admissions stay, while time may pass, remembers.
LEMMA StillRemembers ==
  ASSUME TypeOK, NEW g \in Gates, queue'[g] = queue[g], passed'[g] = passed[g],
         time' = time \/ time' = time + 1,
         \A s \in Requests : passed[g][s] # Never => seen'[s] = seen[s],
         NEW f, Places(g, f)
  PROVE  \E e : Places(g, e)'
<1>1. time \in Nat /\ Window[g] \in Nat /\ MaxDelay \in Nat /\ MaxLead \in Nat
  BY ClockTypes
<1>2. Recent(g)' \subseteq Recent(g)
  <2> SUFFICES ASSUME NEW s \in Requests, passed[g][s] # Never,
                      time' < passed[g][s] + Window[g] - MaxDelay - MaxLead
               PROVE  time < passed[g][s] + Window[g] - MaxDelay - MaxLead
    BY DEF Recent
  <2>1. passed[g][s] \in Nat
    BY DEF TypeOK
  <2>. QED  BY <1>1, <2>1
<1>3. /\ f \in [Recent(g) -> 1..Len(queue[g])]
      /\ \A a, b \in Recent(g) : f[a] = f[b] => a = b
      /\ \A s \in Recent(g) : queue[g][f[s]] = seen[s]
  BY DEF Places, Injection, IsInjective
<1>4. \A s \in Recent(g) : s \in Requests /\ passed[g][s] # Never
  BY DEF Recent
<1>a. PICK e : e = [s \in Recent(g)' |-> f[s]]
  OBVIOUS
<1>5. /\ e \in [Recent(g)' -> 1..Len(queue'[g])]
      /\ \A a, b \in Recent(g)' : e[a] = e[b] => a = b
      /\ \A s \in Recent(g)' : queue'[g][e[s]] = seen'[s]
  BY <1>a, <1>2, <1>3, <1>4
<1>6. Places(g, e)'
  BY <1>5 DEF Places, Injection, IsInjective
<1>. QED  BY <1>6

LEMMA StepRemembered ==
  ASSUME TypeOK, ClockInv, SetBackWithinWindow, Remembered, Next
  PROVE  Remembered'
<1> SUFFICES ASSUME NEW g \in Gates PROVE \E e : Places(g, e)'
  BY DEF Remembered
<1>0. PICK f : Places(g, f)
  BY DEF Remembered
<1>1. ASSUME NEW r \in Requests, NEW h \in Gates, Accept(h, r) \/ Refuse(h, r), Read(r),
             passed[h][r] = Never, UNCHANGED <<time, seen>>
      PROVE  \E e : Places(g, e)'
  <2>1. CASE h = g
    BY <1>0, <1>1, <2>1, GateRemembers
  <2>2. CASE h # g
    <3>1. queue'[g] = queue[g] /\ passed'[g] = passed[g]
      BY <1>1, <2>2 DEF Accept, Refuse, TypeOK
    <3>. QED  BY <1>0, <1>1, <3>1, StillRemembers
  <2>. QED  BY <2>1, <2>2
<1>2. ASSUME NEW r \in Requests, RequestGate(r) PROVE \E e : Places(g, e)'
  <2>1. /\ "request" \in Gates /\ Read(r) /\ passed["request"][r] = Never
        /\ Accept("request", r) \/ Refuse("request", r)
        /\ UNCHANGED <<time, seen>>
    BY <1>2 DEF RequestGate, Gates, Read, ClockInv, Unpassed
  <2>. QED  BY <1>1, <2>1
<1>3. ASSUME NEW r \in Requests, JournalGate(r) PROVE \E e : Places(g, e)'
  <2>1. /\ "journal" \in Gates /\ Read(r) /\ passed["journal"][r] = Never
        /\ Accept("journal", r) \/ Refuse("journal", r)
        /\ UNCHANGED <<time, seen>>
    BY <1>3 DEF JournalGate, Gates, Read, ClockInv, Unpassed, Underway
  <2>. QED  BY <1>1, <2>1
<1>4. ASSUME NEW r \in Requests, Observe(r) PROVE \E e : Places(g, e)'
  <2>1. passed[g][r] = Never
    BY <1>4 DEF Observe, ClockInv, Unpassed, Gates
  <2>2. \A s \in Requests : passed[g][s] # Never => seen'[s] = seen[s]
    BY <1>4, <2>1 DEF Observe, TypeOK
  <2>. QED  BY <1>0, <1>4, <2>2, StillRemembers DEF Observe
<1>5. ASSUME NEW r \in Requests, AcquireSlot(r) \/ Unwind(r) \/ Finish(r)
      PROVE  \E e : Places(g, e)'
  BY <1>0, <1>5, StillRemembers DEF AcquireSlot, Unwind, Finish
<1>6. CASE Tick \/ SetBack \/ SetForward
  BY <1>0, <1>6, StillRemembers DEF Tick, SetBack, SetForward
<1>. QED  BY <1>2, <1>3, <1>4, <1>5, <1>6 DEF Next

\* Places of their own among n bound how many there are.
LEMMA PlacesBound ==
  ASSUME NEW R, NEW n \in Nat, NEW m \in Nat, n <= m, NEW f \in Injection(R, 1..n)
  PROVE  Cardinality(R) <= m
<1>1. IsFiniteSet(1..n) /\ Cardinality(1..n) = n
  BY FS_Interval
<1>2. IsFiniteSet(R) /\ Cardinality(R) <= n
  BY <1>1, FS_Injection
<1>. QED  BY <1>2, FS_CardinalityType

\* The requests WindowBound counts for r.
Around(g, r) ==
  {s \in Requests : /\ passed[g][s] # Never
                    /\ passed[g][s] <= passed[g][r]
                    /\ passed[g][r] < passed[g][s] + Window[g] - MaxDelay - MaxLead}

\* Only a request that passes now changes what is counted, and then only for
\* the requests that pass now: for them it is what passed recently.
LEMMA StepWindow ==
  ASSUME TypeOK, ClockInv, WindowBound, TypeOK', ClockInv', GatesBounded', Remembered', Next
  PROVE  WindowBound'
<1> SUFFICES ASSUME NEW g \in Gates, NEW r \in Requests, passed'[g][r] # Never
             PROVE  Cardinality(Around(g, r)') <= Limit[g]
  BY DEF WindowBound, Around
<1>1. time \in Nat /\ \A s \in Requests : passed[g][s] \in Nat \cup {Never}
  BY DEF TypeOK
<1>2. CASE passed'[g][r] = time'
  <2>1. \A s \in Requests : passed'[g][s] # Never => passed'[g][s] <= time'
    BY DEF ClockInv, Passed
  <2>2. Around(g, r)' = Recent(g)'
    BY <1>2, <2>1 DEF Around, Recent
  <2>3. PICK f : f \in Injection(Recent(g)', 1..Len(queue'[g]))
    BY DEF Remembered, Places
  <2>4. Len(queue'[g]) \in Nat /\ Limit[g] \in Nat /\ Len(queue'[g]) <= Limit[g]
    BY QuotaAssumption DEF TypeOK, GatesBounded
  <2>5. Cardinality(Recent(g)') <= Limit[g]
    BY <2>3, <2>4, PlacesBound
  <2>. QED  BY <2>2, <2>5
<1>3. CASE passed'[g][r] # time'
  <2>1. \/ passed' = passed
        \/ /\ time' = time
           /\ \E h \in Gates : \E q \in Requests :
                passed[h][q] = Never /\ passed' = [passed EXCEPT ![h][q] = time]
    BY DEF Next, Observe, RequestGate, AcquireSlot, JournalGate, Unwind, Finish, Tick, SetBack,
       SetForward, Accept, Refuse, Gates, ClockInv, Unpassed, Underway
  <2>2. CASE passed' = passed
    BY <2>2 DEF WindowBound, Around
  <2>3. ASSUME NEW h \in Gates, NEW q \in Requests, time' = time, passed[h][q] = Never,
               passed' = [passed EXCEPT ![h][q] = time]
        PROVE  Cardinality(Around(g, r)') <= Limit[g]
    <3>1. passed \in [Gates -> [Requests -> Nat \cup {Never}]]
      BY DEF TypeOK
    <3>2. passed[g][r] # Never /\ passed'[g][r] = passed[g][r]
      BY <1>3, <2>3, <3>1
    <3>3. passed[g][r] \in Nat /\ passed[g][r] < time
      <4>1. passed[g][r] <= time
        BY <3>2 DEF ClockInv, Passed
      <4>. QED  BY <1>1, <1>3, <2>3, <3>2, <4>1
    <3>4. Around(g, r)' = Around(g, r)
      <4>1. ASSUME NEW s \in Requests
            PROVE  \/ passed'[g][s] = passed[g][s]
                   \/ passed[g][s] = Never /\ passed'[g][s] = time
        BY <2>3, <3>1
      <4>. QED  BY <1>1, <3>2, <3>3, <4>1 DEF Around
    <3>. QED  BY <3>2, <3>4 DEF WindowBound, Around
  <2>. QED  BY <2>1, <2>2, <2>3
<1>. QED  BY <1>2, <1>3

\* In real time, no window shortened by MaxDelay and by the clock's forward
\* steps ever sees more than Limit admissions through a gate, for any requests,
\* limits, windows and order of the connections (SlidingAdmission::admit), as
\* long as the clock is not set back by a whole window.
THEOREM WindowStaysBounded ==
  ASSUME SetBackWithinWindow
  PROVE  Spec => []WindowBound
<1> DEFINE WInv == IInv /\ ClockInv /\ Remembered /\ WindowBound
<1>1. Init => WInv
  <2> SUFFICES ASSUME Init PROVE WInv
    OBVIOUS
  <2>1. \A g \in Gates : Recent(g) = {}
    BY DEF Init, Recent
  <2>2. Remembered
    <3> SUFFICES ASSUME NEW g \in Gates PROVE \E f : Places(g, f)
      BY DEF Remembered
    <3> DEFINE f == [s \in Recent(g) |-> 1]
    <3>1. Places(g, f)
      BY <2>1 DEF Places, Injection, IsInjective
    <3>. QED  BY <3>1
  <2>3. WindowBound
    BY DEF Init, WindowBound
  <2>. QED  BY <2>2, <2>3, InitInv, InitClock
<1>2. WInv /\ [Next]_vars => WInv'
  <2> SUFFICES ASSUME WInv, [Next]_vars PROVE WInv'
    OBVIOUS
  <2>1. IInv' /\ ClockInv'
    BY StepInv, StepClock DEF IInv
  <2>2. CASE Next
    <3>1. Remembered'
      BY <2>2, StepRemembered DEF IInv
    <3>2. WindowBound'
      BY <2>1, <2>2, <3>1, StepWindow DEF IInv
    <3>. QED  BY <2>1, <3>1, <3>2
  <2>3. CASE UNCHANGED vars
    <3>1. UNCHANGED <<time, seen, queue, passed>>
      BY <2>3 DEF vars
    <3>2. \A g \in Gates : Recent(g)' = Recent(g)
      BY <3>1 DEF Recent
    <3>3. Remembered'
      BY <3>1, <3>2 DEF Remembered, Places
    <3>4. WindowBound'
      BY <3>1 DEF WindowBound
    <3>. QED  BY <2>1, <3>3, <3>4
  <2>. QED  BY <2>2, <2>3
<1>3. WInv => WindowBound
  OBVIOUS
<1> HIDE DEF WInv
<1>. QED  BY <1>1, <1>2, <1>3, PTL DEF Spec
=============================================================================
