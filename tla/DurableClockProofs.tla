------------------------- MODULE DurableClockProofs -------------------------
(***************************************************************************)
(* Proofs, for any unit, step, number of calls and boots: saved effective  *)
(* time never goes back, whether or not calls are serialized; if they are, *)
(* a rollback is reported of a clock that was set back, and time moves     *)
(* forward by what the anchor counted and what the guard admits.           *)
(***************************************************************************)
EXTENDS DurableClock, TLAPS

(***************************************************************************)
(* Arithmetic of the conversion to milliseconds.                           *)
(***************************************************************************)
\* Quotient and rest of a natural number.
LEMMA DivMod ==
  ASSUME NEW x \in Nat, NEW m \in Nat \ {0}
  PROVE  x \div m \in Nat /\ x % m \in 0..m - 1 /\ x = m * (x \div m) + (x % m)
OBVIOUS

\* They are the only ones.
LEMMA DivUnique ==
  ASSUME NEW m \in Nat \ {0}, NEW k \in Nat, NEW t \in 0..m - 1
  PROVE  (m * k + t) \div m = k /\ (m * k + t) % m = t
OBVIOUS

\* A time below the end of millisecond u is in a millisecond no later than u.
LEMMA DivBound ==
  ASSUME NEW u \in Nat, NEW m \in Nat \ {0}, NEW x \in 0..(u + 1) * m - 1
  PROVE  x \div m \in 0..u
OBVIOUS

\* Carrying the rest of y over to x loses and adds nothing.
LEMMA DivCarry ==
  ASSUME NEW x \in Nat, NEW y \in Nat, NEW m \in Nat \ {0}
  PROVE  /\ (y \div m) + ((x + (y % m)) \div m) = (x + y) \div m
         /\ (x + (y % m)) % m = (x + y) % m
<1> DEFINE q == y \div m
           s == y % m
           p == (x + s) \div m
           t == (x + s) % m
<1>1. y = m * q + s /\ q \in Nat /\ s \in 0..m - 1
  BY DivMod
<1>2. x + s = m * p + t /\ p \in Nat /\ t \in 0..m - 1
  <2>1. x + s \in Nat
    BY <1>1
  <2> QED BY <2>1, DivMod
<1> HIDE DEF q, s, p, t
<1>3. x + y = m * (q + p) + t
  BY <1>1, <1>2
<1>4. (x + y) \div m = q + p /\ (x + y) % m = t
  <2>1. q + p \in Nat
    BY <1>1, <1>2
  <2> QED BY <1>2, <1>3, <2>1, DivUnique
<1> QED BY <1>4 DEF q, s, p, t

(***************************************************************************)
(* The invariant: the sampler's anchor lies between its first one and the  *)
(* clock, so nothing it reports is negative, and what it has reported and  *)
(* kept is exactly the time since that first anchor.                       *)
(***************************************************************************)
SamplerBehind == sampler # NoSample => origin.first <= sampler.anchor /\ sampler.anchor <= mono

IInv == TypeOK /\ SamplerBehind /\ SamplerExact

LEMMA InitInv == Init => IInv
<1> SUFFICES ASSUME Init PROVE IInv
  OBVIOUS
<1>1. wall \in 0..WallMax /\ wall \div Ms \in Times
  BY ClockAssumption, DivBound DEF Init, WallMax, Times
<1>2. saved \in [last : Times, anchor : Nat, epoch : Epochs] \cup {NoState}
  BY <1>1, ClockAssumption DEF Init, Times, Epochs
<1>3. TypeOK
  <2>1. /\ serialized \in BOOLEAN
        /\ mono \in Nat /\ boot \in Boots /\ epoch \in Epochs
        /\ sampler \in [anchor : Nat, rest : 0..Ms - 1] \cup {NoSample}
        /\ held \in [boot : Boots, anchor : Nat] /\ origin \in [first : Nat, reported : Nat]
        /\ sets \in Nat /\ setBack \in BOOLEAN /\ verdict \in Verdicts
    BY ClockAssumption DEF Init, Epochs, Verdicts
  <2>2. req \in [Requests -> [phase : {"idle", "anchored", "read"}, anchor : Nat,
                             elapsed : Nat, utc : Times]]
    BY ClockAssumption DEF Init, Idle, Times
  <2> QED BY <1>1, <1>2, <2>1, <2>2 DEF TypeOK
<1>4. SamplerBehind /\ SamplerExact
  BY DEF Init, SamplerBehind, SamplerExact
<1> QED BY <1>3, <1>4 DEF IInv

\* A process that has just started satisfies the invariant whatever it was before.
LEMMA StartInv ==
  ASSUME TypeOK, NEW b \in Boots, Start(b),
         mono' \in Nat, wall' \in 0..WallMax, boot' \in Boots,
         UNCHANGED <<serialized, saved, held, sets, setBack>>
  PROVE  IInv'
<1>1. TypeOK'
  <2>1. req' \in [Requests -> [phase : {"idle", "anchored", "read"}, anchor : Nat,
                              elapsed : Nat, utc : Times]]
    BY ClockAssumption DEF Start, Idle, Times
  <2>2. /\ epoch' \in Epochs /\ verdict' \in Verdicts /\ sampler' = NoSample
        /\ origin' \in [first : Nat, reported : Nat]
    BY DEF Start, Epochs, Verdicts
  <2> QED BY <2>1, <2>2 DEF TypeOK
<1>2. SamplerBehind' /\ SamplerExact'
  BY DEF Start, SamplerBehind, SamplerExact
<1> QED BY <1>1, <1>2 DEF IInv

\* Taking an anchor keeps the sampler exact.
LEMMA SampleAnchorInv ==
  ASSUME IInv, NEW r \in Requests, SampleAnchor(r)
  PROVE  IInv'
<1> USE DEF IInv
<1>1. UNCHANGED <<serialized, mono, wall, boot, epoch, saved, held, sets, setBack, verdict>>
  BY DEF SampleAnchor, clock
<1>2. mono \in Nat /\ Ms \in Nat \ {0} /\ NoSample \notin [anchor : Nat, rest : Nat]
  BY ClockAssumption DEF TypeOK
<1>3. CASE sampler = NoSample
  <2>1. Rest = 0 /\ Reported = 0
    BY <1>3 DEF Rest, Reported
  <2>2. /\ sampler' = [anchor |-> mono, rest |-> 0]
        /\ origin' = [first |-> mono, reported |-> 0]
        /\ req' = [req EXCEPT ![r] =
                     [phase |-> "anchored", anchor |-> mono, elapsed |-> 0, utc |-> 0]]
    BY <1>3, <2>1 DEF SampleAnchor
  <2>3. TypeOK'
    BY <1>1, <1>2, <2>2, ClockAssumption DEF TypeOK, Times
  <2>4. SamplerBehind'
    BY <1>1, <1>2, <2>2 DEF SamplerBehind
  <2>5. 0 \div Ms = 0 /\ 0 % Ms = 0
    BY <1>2
  <2>6. SamplerExact'
    BY <1>2, <2>2, <2>5 DEF SamplerExact
  <2> QED BY <2>3, <2>4, <2>6
<1>4. CASE sampler # NoSample
  <2> DEFINE x == mono - sampler.anchor
             y == sampler.anchor - origin.first
  <2>1. /\ sampler \in [anchor : Nat, rest : 0..Ms - 1]
        /\ origin \in [first : Nat, reported : Nat]
        /\ x \in Nat /\ y \in Nat /\ x + y = mono - origin.first
    BY <1>2, <1>4 DEF TypeOK, SamplerBehind
  <2>2. origin.reported = y \div Ms /\ sampler.rest = y % Ms
    BY <1>4 DEF SamplerExact
  <2>3. Rest = (x + (y % Ms)) % Ms /\ Reported = (x + (y % Ms)) \div Ms
    BY <1>4, <2>2 DEF Rest, Reported, Unreported
  <2>4. /\ sampler' = [anchor |-> mono, rest |-> Rest]
        /\ origin' = [origin EXCEPT !.reported = @ + Reported]
        /\ req' = [req EXCEPT ![r] =
                     [phase |-> "anchored", anchor |-> mono, elapsed |-> Reported, utc |-> 0]]
    BY <1>4 DEF SampleAnchor
  <2> HIDE DEF x, y
  <2>5. x + (y % Ms) \in Nat
    BY <1>2, <2>1, DivMod
  <2>6. Rest \in 0..Ms - 1 /\ Reported \in Nat
    BY <1>2, <2>3, <2>5, DivMod
  <2>7. TypeOK'
    <3>1. sampler' \in [anchor : Nat, rest : 0..Ms - 1]
      BY <1>2, <2>4, <2>6
    <3>2. origin' \in [first : Nat, reported : Nat]
      BY <2>1, <2>4, <2>6
    <3>3. req' \in [Requests -> [phase : {"idle", "anchored", "read"}, anchor : Nat,
                                elapsed : Nat, utc : Times]]
      BY <1>2, <2>4, <2>6, ClockAssumption DEF TypeOK, Times
    <3> QED BY <1>1, <3>1, <3>2, <3>3 DEF TypeOK
  <2>8. SamplerBehind'
    BY <1>1, <1>2, <1>4, <2>1, <2>4 DEF SamplerBehind
  <2>9. /\ origin.reported + Reported = (x + y) \div Ms
        /\ Rest = (x + y) % Ms
    <3>1. /\ (y \div Ms) + ((x + (y % Ms)) \div Ms) = (x + y) \div Ms
          /\ (x + (y % Ms)) % Ms = (x + y) % Ms
      BY <1>2, <2>1, DivCarry
    <3> QED BY <2>2, <2>3, <3>1
  <2>10. SamplerExact'
    BY <1>1, <2>1, <2>4, <2>9 DEF SamplerExact
  <2> QED BY <2>7, <2>8, <2>10
<1> QED BY <1>3, <1>4

(***************************************************************************)
(* Deciding.                                                               *)
(***************************************************************************)
\* What is decided is a time, and not before the time saved.
LEMMA DecisionForward ==
  ASSUME TypeOK, NEW r \in Requests, ~ Overflows(saved, req[r])
  PROVE  /\ Decision(saved, req[r]).effective \in Times
         /\ Decision(saved, req[r]).condition \in Verdicts
         /\ saved # NoState => Decision(saved, req[r]).effective >= saved.last
<1> DEFINE rd == req[r]
<1>1. rd.utc \in Times /\ rd.elapsed \in Nat /\ rd.anchor \in Nat
  BY DEF TypeOK
<1>2. saved # NoState => saved.last \in Times /\ saved.anchor \in Nat
  BY DEF TypeOK
<1>3. U64Max \in Nat /\ Ms \in Nat \ {0} /\ MaxStep \in Nat
  BY ClockAssumption
<1> HIDE DEF rd
<1>4. CASE ~ Established(saved)
  <2>1. Decision(saved, rd) = [effective |-> rd.utc, condition |-> "Healthy"]
    BY <1>4 DEF Decision, RolledBack, JumpedForward, HealthyTime
  <2> QED BY <1>1, <1>2, <1>3, <1>4, <2>1 DEF Established, Times, Verdicts, rd
<1>5. CASE Established(saved)
  <2>1. saved # NoState /\ saved.last \in Times /\ saved.anchor \in Nat
    BY <1>2, <1>5 DEF Established
  <2>2. Elapsed(saved, rd) \in Nat
    <3>1. rd.anchor >= saved.anchor => (rd.anchor - saved.anchor) \div Ms \in Nat
      BY <1>1, <1>3, <2>1, DivMod
    <3> QED BY <1>1, <3>1 DEF Elapsed, Larger
  <2>3. MonotonicNow(saved, rd) \in Times /\ MonotonicNow(saved, rd) >= saved.last
    BY <1>3, <1>5, <2>1, <2>2 DEF Overflows, MonotonicNow, Times, rd
  <2>4. CASE RolledBack(saved, rd)
    BY <1>3, <2>1, <2>4 DEF Decision, Times, Verdicts, rd
  <2>5. CASE ~ RolledBack(saved, rd) /\ JumpedForward(saved, rd)
    BY <2>1, <2>3, <2>5 DEF Decision, Verdicts, rd
  <2>6. CASE ~ RolledBack(saved, rd) /\ ~ JumpedForward(saved, rd)
    <3>1. Decision(saved, rd) = [effective |-> rd.utc, condition |-> "Healthy"]
      BY <2>6 DEF Decision, HealthyTime
    <3>2. rd.utc >= saved.last
      BY <1>1, <1>5, <2>1, <2>6 DEF RolledBack, Times
    <3> QED BY <1>1, <3>1, <3>2 DEF Verdicts, rd
  <2> QED BY <2>4, <2>5, <2>6
<1> QED BY <1>4, <1>5

LEMMA StepInv == IInv /\ [Next]_vars => IInv'
<1> SUFFICES ASSUME IInv, [Next]_vars PROVE IInv'
  OBVIOUS
<1>1. TypeOK /\ SamplerBehind /\ SamplerExact
  BY DEF IInv
<1>2. ASSUME NEW r \in Requests, SampleAnchor(r) PROVE IInv'
  BY <1>2, SampleAnchorInv
<1>3. ASSUME NEW r \in Requests, SampleWall(r) PROVE IInv'
  <2>1. wall \div Ms \in Times
    BY <1>1, ClockAssumption, DivBound DEF TypeOK, WallMax, Times
  <2>2. TypeOK'
    BY <1>1, <1>3, <2>1 DEF SampleWall, TypeOK, clock
  <2> QED BY <1>1, <1>3, <2>2 DEF SampleWall, IInv, SamplerBehind, SamplerExact, clock
<1>4. ASSUME NEW r \in Requests, Decide(r) PROVE IInv'
  <2>1. /\ Decision(saved, req[r]).effective \in Times
        /\ Decision(saved, req[r]).condition \in Verdicts
    BY <1>1, <1>4, DecisionForward DEF Decide
  <2>2. verdict' \in Verdicts
    BY <1>4, <2>1 DEF Decide
  <2>3. /\ req' = [req EXCEPT ![r] = Idle]
        /\ UNCHANGED <<serialized, mono, wall, boot, epoch, sampler, origin, sets, setBack>>
    BY <1>4 DEF Decide, clock
  <2>4. /\ saved' \in [last : Times, anchor : Nat, epoch : Epochs] \cup {NoState}
        /\ held' \in [boot : Boots, anchor : Nat]
    BY <1>1, <1>4, <2>1 DEF Decide, TypeOK
  <2>5. TypeOK'
    BY <1>1, <2>2, <2>3, <2>4, ClockAssumption DEF TypeOK, Idle, Times
  <2> QED BY <1>1, <2>3, <2>5 DEF IInv, SamplerBehind, SamplerExact
<1>5. ASSUME NEW r \in Requests, SampleFails(r) \/ DecideOverflow(r) PROVE IInv'
  <2>1. TypeOK'
    BY <1>1, <1>5, ClockAssumption
       DEF SampleFails, DecideOverflow, TypeOK, Verdicts, Idle, Times, clock
  <2> QED BY <1>1, <1>5, <2>1
          DEF SampleFails, DecideOverflow, IInv, SamplerBehind, SamplerExact, clock
<1>6. CASE Tick
  <2>1. wall' \in 0..WallMax /\ mono' \in Nat /\ mono' >= mono
    BY <1>1, <1>6 DEF Tick, TypeOK
  <2>2. TypeOK'
    BY <1>1, <1>6, <2>1 DEF Tick, TypeOK
  <2>3. SamplerBehind'
    BY <1>1, <1>6, <2>1 DEF Tick, TypeOK, SamplerBehind
  <2> QED BY <1>1, <1>6, <2>2, <2>3 DEF Tick, IInv, SamplerExact
<1>7. CASE SetWall
  <2>1. TypeOK'
    BY <1>1, <1>7 DEF SetWall, TypeOK
  <2> QED BY <1>1, <1>7, <2>1 DEF SetWall, IInv, SamplerBehind, SamplerExact
<1>8. CASE Restart
  BY <1>1, <1>8, StartInv DEF Restart, TypeOK, clock
<1>9. CASE Reboot
  <2>1. boot + 1 \in Boots /\ wall' \in 0..WallMax /\ mono' \in Nat
    BY <1>1, <1>9, ClockAssumption DEF Reboot, TypeOK
  <2> QED BY <1>1, <1>9, <2>1, StartInv DEF Reboot
<1>10. CASE UNCHANGED vars
  BY <1>1, <1>10 DEF vars, clock, IInv, TypeOK, SamplerBehind, SamplerExact
<1> QED BY <1>2, <1>3, <1>4, <1>5, <1>6, <1>7, <1>8, <1>9, <1>10 DEF Next

(***************************************************************************)
(* Calls one at a time.  A reading under way is not older than what is     *)
(* saved, as nothing is saved between its steps: its wall clock is not     *)
(* behind the saved time unless the clock was set back, its anchor is not  *)
(* behind the saved one in the same boot, and it reports no more than the  *)
(* time since then and the sampler's rest.                                 *)
(***************************************************************************)
OneAtATime ==
  serialized => \A r, s \in Requests : req[r].phase # "idle" /\ req[s].phase # "idle" => r = s

\* What is saved was decided in the boot the history says, or in a boot not known.
HeldMatches ==
  /\ held.boot <= boot /\ epoch \in {boot, NoEpoch}
  /\ held.boot = boot =>
       /\ held.anchor <= mono
       /\ sampler # NoSample => held.anchor <= sampler.anchor
  /\ saved # NoState => /\ saved.epoch \in {held.boot, NoEpoch}
                        /\ saved.epoch # NoEpoch => saved.anchor = held.anchor

AnchorsAhead ==
  \A r \in Requests : req[r].phase # "idle" =>
    /\ sampler # NoSample /\ req[r].anchor <= sampler.anchor
    /\ serialized /\ held.boot = boot =>
         /\ held.anchor <= req[r].anchor
         /\ req[r].elapsed <= (req[r].anchor - held.anchor) \div Ms + 1

\* Unless the wall clock was set back, saved time and every reading are behind it.
WallAhead ==
  ~ setBack =>
    /\ saved # NoState => saved.last <= wall \div Ms
    /\ \A r \in Requests : req[r].phase = "read" =>
         /\ req[r].utc <= wall \div Ms
         /\ serialized /\ saved # NoState => saved.last <= req[r].utc

Readings == OneAtATime /\ HeldMatches /\ AnchorsAhead /\ WallAhead /\ NoSpuriousRollback

\* Milliseconds of a later time are no fewer.
LEMMA DivMonotone ==
  ASSUME NEW m \in Nat \ {0}, NEW x \in Nat, NEW y \in Nat, x <= y
  PROVE  x \div m <= y \div m
<1>1. /\ x = m * (x \div m) + (x % m) /\ x \div m \in Nat /\ x % m \in 0..m - 1
      /\ y = m * (y \div m) + (y % m) /\ y \div m \in Nat /\ y % m \in 0..m - 1
  BY DivMod
<1> DEFINE p == x \div m
           q == y \div m
<1>2. SUFFICES ASSUME p > q PROVE FALSE
  BY <1>1
<1> HIDE DEF p, q
<1>3. m * p >= m * q + m
  BY <1>1, <1>2 DEF p, q
<1> QED BY <1>1, <1>3 DEF p, q

\* A rest carried over adds at most one millisecond.
LEMMA DivCarryBound ==
  ASSUME NEW m \in Nat \ {0}, NEW x \in Nat, NEW t \in 0..m - 1
  PROVE  (x + t) \div m <= x \div m + 1
<1> DEFINE q == x \div m
           s == x % m
<1>1. x = m * q + s /\ q \in Nat /\ s \in 0..m - 1
  BY DivMod
<1> HIDE DEF q, s
<1>2. x + t <= m * (q + 1) + (m - 1) /\ m * (q + 1) \in Nat
  BY <1>1
<1>3. (x + t) \div m <= (m * (q + 1) + (m - 1)) \div m
  BY <1>1, <1>2, DivMonotone
<1>4. (m * (q + 1) + (m - 1)) \div m = q + 1
  BY <1>1, DivUnique
<1> QED BY <1>3, <1>4 DEF q

LEMMA ClockNumbers ==
  ASSUME IInv
  PROVE  /\ wall \in Nat /\ Ms \in Nat \ {0} /\ MaxStep \in Nat /\ wall \div Ms \in Nat
         /\ wall \in 0..WallMax
         /\ saved # NoState => saved.last \in Nat /\ saved.anchor \in Nat
         /\ \A r \in Requests :
              req[r].utc \in Nat /\ req[r].elapsed \in Nat /\ req[r].anchor \in Nat
<1>1. wall \in Nat /\ wall \in 0..WallMax /\ Ms \in Nat \ {0} /\ MaxStep \in Nat
  BY ClockAssumption DEF IInv, TypeOK, WallMax
<1>2. wall \div Ms \in Nat
  BY <1>1, DivMod
<1>3. saved # NoState => saved.last \in Nat /\ saved.anchor \in Nat
  BY DEF IInv, TypeOK, Times
<1>4. \A r \in Requests :
        req[r].utc \in Nat /\ req[r].elapsed \in Nat /\ req[r].anchor \in Nat
  BY DEF IInv, TypeOK, Times
<1> QED BY <1>1, <1>2, <1>3, <1>4

LEMMA InitReadings == Init => Readings
<1> SUFFICES ASSUME Init PROVE Readings
  OBVIOUS
<1>1. OneAtATime /\ HeldMatches /\ AnchorsAhead /\ NoSpuriousRollback
  BY DEF Init, Idle, OneAtATime, HeldMatches, AnchorsAhead, NoSpuriousRollback
<1>2. WallAhead
  <2>1. wall \div Ms \in Nat
    BY ClockAssumption, DivBound DEF Init, WallMax
  <2> QED BY <2>1 DEF Init, Idle, WallAhead
<1> QED BY <1>1, <1>2 DEF Readings

\* Starting again leaves no reading and no sample behind.
LEMMA StartReadings ==
  ASSUME IInv, Readings, NEW b \in Boots, Start(b), boot' = b,
         \/ boot' = boot /\ mono' = mono
         \/ boot' = boot + 1 /\ mono' = 1,
         wall' \in 0..WallMax, wall <= wall',
         UNCHANGED <<serialized, saved, held, sets, setBack>>
  PROVE  Readings'
<1> USE DEF Start, Idle
<1>1. OneAtATime' /\ AnchorsAhead' /\ NoSpuriousRollback'
  BY DEF OneAtATime, AnchorsAhead, NoSpuriousRollback
<1>2. boot \in Nat /\ held.boot \in Nat
  BY ClockAssumption DEF IInv, TypeOK
<1>3. HeldMatches'
  BY <1>2 DEF HeldMatches, Readings
<1>4. WallAhead'
  <2>1. wall \in Nat /\ wall' \in Nat /\ Ms \in Nat \ {0}
    BY ClockAssumption DEF IInv, TypeOK, WallMax
  <2>2. wall \div Ms <= wall' \div Ms /\ wall \div Ms \in Nat /\ wall' \div Ms \in Nat
    BY <2>1, DivMonotone, DivMod
  <2>3. saved # NoState => saved.last \in Nat
    BY DEF IInv, TypeOK, Times
  <2> QED BY <2>2, <2>3 DEF WallAhead, Readings
<1> QED BY <1>1, <1>3, <1>4 DEF Readings

LEMMA SampleAnchorReadings ==
  ASSUME IInv, Readings, NEW r \in Requests, SampleAnchor(r)
  PROVE  Readings'
<1>1. /\ UNCHANGED <<serialized, mono, wall, boot, epoch, saved, held, sets, setBack, verdict>>
      /\ serialized => \A s \in Requests : req[s].phase = "idle"
      /\ sampler' = [anchor |-> mono, rest |-> Rest]
      /\ req' = [req EXCEPT ![r] =
                   [phase |-> "anchored", anchor |-> mono, elapsed |-> Reported, utc |-> 0]]
  BY DEF SampleAnchor, clock
<1>2. sampler' # NoSample /\ sampler'.anchor = mono /\ mono \in Nat
  <2>1. sampler' \in [anchor : Nat, rest : 0..Ms - 1] \cup {NoSample}
    BY SampleAnchorInv DEF IInv, TypeOK
  <2>2. Rest \in Nat
    <3>1. CASE sampler = NoSample
      BY <3>1 DEF Rest
    <3>2. CASE sampler # NoSample
      <4>1. Unreported \in Nat
        BY <3>2, ClockAssumption DEF IInv, TypeOK, SamplerBehind, Unreported
      <4> QED BY <3>2, <4>1, ClockAssumption, DivMod DEF Rest
    <3> QED BY <3>1, <3>2
  <2>3. sampler' \in [anchor : Nat, rest : Nat]
    BY <1>1, <2>2 DEF IInv, TypeOK
  <2> QED BY <1>1, <2>3, ClockAssumption DEF IInv, TypeOK
<1>3. req'[r] = [phase |-> "anchored", anchor |-> mono, elapsed |-> Reported, utc |-> 0]
      /\ \A s \in Requests \ {r} : req'[s] = req[s]
  BY <1>1 DEF IInv, TypeOK
<1>4. OneAtATime'
  BY <1>1, <1>3 DEF OneAtATime
<1>5. HeldMatches'
  BY <1>1, <1>2 DEF HeldMatches, Readings
<1>6. AnchorsAhead'
  <2> SUFFICES ASSUME NEW s \in Requests, req'[s].phase # "idle"
               PROVE  /\ req'[s].anchor <= mono
                      /\ serialized /\ held.boot = boot =>
                           /\ held.anchor <= req'[s].anchor
                           /\ req'[s].elapsed <= (req'[s].anchor - held.anchor) \div Ms + 1
    BY <1>1, <1>2 DEF AnchorsAhead
  <2>1. CASE s = r
    <3>1. SUFFICES ASSUME held.boot = boot
                   PROVE  held.anchor <= mono /\ Reported <= (mono - held.anchor) \div Ms + 1
      BY <1>2, <1>3, <2>1
    <3> DEFINE x == mono - held.anchor
    <3>2. held.anchor \in Nat /\ held.anchor <= mono /\ x \in Nat /\ Ms \in Nat \ {0}
      BY <1>2, <3>1, ClockAssumption DEF HeldMatches, Readings, IInv, TypeOK
    <3>3. x \div Ms \in Nat
      BY <3>2, DivMod
    <3>4. CASE sampler = NoSample
      BY <3>2, <3>3, <3>4 DEF Reported
    <3>5. CASE sampler # NoSample
      <4>1. /\ held.anchor <= sampler.anchor /\ sampler.anchor <= mono
            /\ sampler.anchor \in Nat /\ sampler.rest \in 0..Ms - 1
        BY <3>1, <3>5 DEF HeldMatches, Readings, IInv, TypeOK, SamplerBehind
      <4>2. Unreported \in Nat /\ x + sampler.rest \in Nat /\ Unreported <= x + sampler.rest
        BY <1>2, <3>2, <4>1 DEF Unreported
      <4> HIDE DEF x
      <4>3. /\ Unreported \div Ms <= (x + sampler.rest) \div Ms
            /\ (x + sampler.rest) \div Ms <= x \div Ms + 1
        BY <3>2, <4>1, <4>2, DivMonotone, DivCarryBound
      <4>4. Unreported \div Ms \in Nat /\ (x + sampler.rest) \div Ms \in Nat
        BY <3>2, <4>2, DivMod
      <4> QED BY <3>2, <3>3, <3>5, <4>3, <4>4 DEF Reported, x
    <3> QED BY <3>4, <3>5
  <2>2. CASE s # r
    <3>1. req'[s] = req[s] /\ ~ serialized
      BY <1>1, <1>3, <2>2
    <3>2. sampler # NoSample /\ req[s].anchor <= sampler.anchor
      BY <3>1 DEF AnchorsAhead, Readings
    <3>3. req[s].anchor \in Nat /\ sampler.anchor \in Nat /\ sampler.anchor <= mono
      BY <3>2 DEF IInv, TypeOK, SamplerBehind
    <3> QED BY <1>2, <3>1, <3>2, <3>3
  <2> QED BY <2>1, <2>2
<1>7. WallAhead' /\ NoSpuriousRollback'
  BY <1>1, <1>3 DEF WallAhead, NoSpuriousRollback, Readings
<1> QED BY <1>4, <1>5, <1>6, <1>7 DEF Readings

LEMMA SampleWallReadings ==
  ASSUME IInv, Readings, NEW r \in Requests, SampleWall(r)
  PROVE  Readings'
<1>1. /\ UNCHANGED <<serialized, mono, wall, boot, epoch, sampler, saved, held, sets, setBack,
                     verdict>>
      /\ req[r].phase = "anchored"
      /\ req' = [req EXCEPT ![r].phase = "read", ![r].utc = wall \div Ms]
  BY DEF SampleWall, clock
<1>2. /\ req'[r].phase = "read" /\ req'[r].utc = wall \div Ms
      /\ req'[r].anchor = req[r].anchor /\ req'[r].elapsed = req[r].elapsed
      /\ \A s \in Requests \ {r} : req'[s] = req[s]
  BY <1>1 DEF IInv, TypeOK
<1>3. \A s \in Requests :
        /\ req'[s].phase # "idle" <=> req[s].phase # "idle"
        /\ req'[s].anchor = req[s].anchor /\ req'[s].elapsed = req[s].elapsed
  BY <1>1, <1>2
<1>4. OneAtATime' /\ HeldMatches' /\ NoSpuriousRollback'
  BY <1>1, <1>3 DEF OneAtATime, HeldMatches, NoSpuriousRollback, Readings
<1>5. AnchorsAhead'
  BY <1>1, <1>3 DEF AnchorsAhead, Readings
<1>6. WallAhead'
  <2> SUFFICES ASSUME ~ setBack, NEW s \in Requests
               PROVE  /\ saved # NoState => saved.last <= wall \div Ms
                      /\ req'[s].phase = "read" =>
                           /\ req'[s].utc <= wall \div Ms
                           /\ serialized /\ saved # NoState => saved.last <= req'[s].utc
    BY <1>1 DEF WallAhead
  <2>1. wall \div Ms \in Nat
    BY ClockNumbers
  <2>2. saved # NoState => saved.last <= wall \div Ms
    BY DEF WallAhead, Readings
  <2>3. CASE s = r
    BY <1>2, <2>1, <2>2, <2>3
  <2>4. CASE s # r
    BY <1>2, <2>2, <2>4 DEF WallAhead, Readings
  <2> QED BY <2>3, <2>4
<1> QED BY <1>4, <1>5, <1>6 DEF Readings

\* While calls come one at a time and the clock was not set back, what is decided is
\* no rollback; whatever happens, a decision saved is behind the wall clock.
LEMMA DecisionBehindWall ==
  ASSUME IInv, Readings, NEW r \in Requests, req[r].phase = "read",
         ~ Overflows(saved, req[r]), ~ setBack
  PROVE  /\ Decision(saved, req[r]).effective <= wall \div Ms
         /\ serialized => Decision(saved, req[r]).condition # "RollbackFrozen"
<1> DEFINE rd == req[r]
<1>1. /\ rd.utc \in Nat /\ rd.elapsed \in Nat /\ rd.anchor \in Nat
      /\ saved # NoState => saved.last \in Nat /\ saved.anchor \in Nat
      /\ wall \div Ms \in Nat /\ Ms \in Nat \ {0} /\ MaxStep \in Nat
  BY ClockNumbers
<1>2. /\ rd.utc <= wall \div Ms
      /\ saved # NoState => saved.last <= wall \div Ms
      /\ serialized /\ saved # NoState => saved.last <= rd.utc
  BY DEF WallAhead, Readings
<1> HIDE DEF rd
<1>3. CASE RolledBack(saved, rd)
  <2>1. ~ serialized
    BY <1>1, <1>2, <1>3 DEF RolledBack, Established
  <2> QED BY <1>2, <1>3, <2>1 DEF Decision, RolledBack, Established, rd
<1>4. CASE ~ RolledBack(saved, rd) /\ JumpedForward(saved, rd)
  <2>1. saved # NoState
    BY <1>4 DEF JumpedForward, Established
  <2>2. Elapsed(saved, rd) \in Nat
    <3>1. rd.anchor >= saved.anchor => (rd.anchor - saved.anchor) \div Ms \in Nat
      BY <1>1, <2>1, DivMod
    <3> QED BY <1>1, <3>1 DEF Elapsed, Larger
  <2>3. MonotonicNow(saved, rd) \in Nat
    BY <1>1, <2>1, <2>2 DEF MonotonicNow
  <2>4. Decision(saved, rd).effective = MonotonicNow(saved, rd)
        /\ Decision(saved, rd).condition = "ForwardJumpRejected"
    BY <1>4 DEF Decision
  <2>5. MonotonicNow(saved, rd) < rd.utc
    BY <1>1, <1>4, <2>3 DEF JumpedForward
  <2> QED BY <1>1, <1>2, <2>3, <2>4, <2>5 DEF rd
<1>5. CASE ~ RolledBack(saved, rd) /\ ~ JumpedForward(saved, rd)
  BY <1>2, <1>5 DEF Decision, HealthyTime, rd
<1> QED BY <1>3, <1>4, <1>5

LEMMA DecideReadings ==
  ASSUME IInv, Readings, NEW r \in Requests, Decide(r) \/ DecideOverflow(r) \/ SampleFails(r)
  PROVE  Readings'
<1> DEFINE d == Decision(saved, req[r])
<1>1. /\ req[r].phase \in {"anchored", "read"}
      /\ req' = [req EXCEPT ![r] = Idle]
      /\ UNCHANGED <<serialized, mono, wall, boot, epoch, sampler, origin, sets, setBack>>
  BY DEF Decide, DecideOverflow, SampleFails, clock
<1>2. \/ Decide(r) /\ saved' = [last |-> d.effective, anchor |-> req[r].anchor, epoch |-> epoch]
                   /\ held' = [boot |-> boot, anchor |-> req[r].anchor]
      \/ UNCHANGED <<saved, held>>
  BY DEF Decide, DecideOverflow, SampleFails
<1>3. req'[r].phase = "idle" /\ \A s \in Requests \ {r} : req'[s] = req[s]
  BY <1>1 DEF IInv, TypeOK, Idle
<1>4. serialized => \A s \in Requests : req'[s].phase = "idle"
  BY <1>1, <1>3 DEF OneAtATime, Readings
<1>5. OneAtATime'
  BY <1>1, <1>4 DEF OneAtATime
<1>6. HeldMatches'
  <2>1. CASE UNCHANGED <<saved, held>>
    BY <1>1, <2>1 DEF HeldMatches, Readings
  <2>2. CASE /\ saved' = [last |-> d.effective, anchor |-> req[r].anchor, epoch |-> epoch]
             /\ held' = [boot |-> boot, anchor |-> req[r].anchor]
    <3>1. /\ sampler # NoSample /\ req[r].anchor <= sampler.anchor /\ sampler.anchor <= mono
          /\ req[r].anchor \in Nat /\ sampler.anchor \in Nat /\ mono \in Nat /\ boot \in Nat
      BY <1>1, ClockAssumption DEF AnchorsAhead, Readings, IInv, TypeOK, SamplerBehind
    <3>2. epoch \in {boot, NoEpoch}
      BY DEF HeldMatches, Readings
    <3> HIDE DEF d
    <3> QED BY <1>1, <2>2, <3>1, <3>2 DEF HeldMatches
  <2> QED BY <1>2, <2>1, <2>2
<1>7. AnchorsAhead'
  BY <1>1, <1>3, <1>4 DEF AnchorsAhead, Readings
<1>8. WallAhead'
  <2> SUFFICES ASSUME ~ setBack
               PROVE  /\ saved' # NoState => saved'.last <= wall \div Ms
                      /\ \A s \in Requests : req'[s].phase = "read" =>
                           /\ req'[s].utc <= wall \div Ms
                           /\ serialized /\ saved' # NoState => saved'.last <= req'[s].utc
    BY <1>1 DEF WallAhead
  <2>1. saved' # NoState => saved'.last <= wall \div Ms
    <3>1. CASE UNCHANGED <<saved, held>>
      BY <3>1 DEF WallAhead, Readings
    <3>2. CASE Decide(r) /\ saved' = [last |-> d.effective, anchor |-> req[r].anchor,
                                      epoch |-> epoch]
      BY <1>1, <3>2, DecisionBehindWall DEF Decide
    <3> QED BY <1>2, <3>1, <3>2
  <2>2. \A s \in Requests : req'[s].phase = "read" => req'[s].utc <= wall \div Ms
    BY <1>3 DEF WallAhead, Readings
  <2> QED BY <1>4, <2>1, <2>2
<1>9. NoSpuriousRollback'
  <2>1. CASE Decide(r)
    <3>1. verdict' = d.condition /\ ~ Overflows(saved, req[r])
      BY <2>1 DEF Decide
    <3>2. serialized /\ ~ setBack => d.condition # "RollbackFrozen"
      BY <1>1, <2>1, <3>1, DecisionBehindWall DEF Decide
    <3> QED BY <1>1, <3>1, <3>2 DEF NoSpuriousRollback
  <2>2. CASE DecideOverflow(r) \/ SampleFails(r)
    BY <2>2 DEF DecideOverflow, SampleFails, NoSpuriousRollback, Readings
  <2> QED BY <2>1, <2>2
<1> QED BY <1>5, <1>6, <1>7, <1>8, <1>9 DEF Readings

LEMMA StepReadings == IInv /\ Readings /\ [Next]_vars => Readings'
<1> SUFFICES ASSUME IInv, Readings, [Next]_vars PROVE Readings'
  OBVIOUS
<1>1. /\ wall \in 0..WallMax /\ Ms \in Nat \ {0} /\ wall \in Nat /\ wall \div Ms \in Nat
      /\ saved # NoState => saved.last \in Nat
      /\ \A r \in Requests : req[r].utc \in Nat
  BY ClockNumbers
<1>2. CASE Tick
  <2>1. /\ UNCHANGED <<serialized, boot, epoch, sampler, req, saved, held, sets, setBack, verdict>>
        /\ mono' = mono + 1 /\ wall' \in Nat /\ wall <= wall'
    BY <1>1, <1>2 DEF Tick
  <2>2. wall \div Ms <= wall' \div Ms /\ wall' \div Ms \in Nat
    BY <1>1, <2>1, DivMonotone, DivMod
  <2>3. WallAhead'
    BY <1>1, <2>1, <2>2 DEF WallAhead, Readings
  <2>4. HeldMatches'
    BY <2>1 DEF HeldMatches, Readings, IInv, TypeOK
  <2> QED BY <2>1, <2>3, <2>4 DEF Readings, OneAtATime, AnchorsAhead, NoSpuriousRollback
<1>3. CASE SetWall
  <2>1. /\ UNCHANGED <<serialized, mono, boot, epoch, sampler, req, saved, held, verdict>>
        /\ wall' \in Nat /\ setBack' = (setBack \/ wall' < wall)
    BY <1>1, <1>3 DEF SetWall
  <2>2. WallAhead'
    <3>1. CASE wall' < wall
      BY <2>1, <3>1 DEF WallAhead
    <3>2. CASE wall <= wall'
      <4>1. wall \div Ms <= wall' \div Ms /\ wall' \div Ms \in Nat
        BY <1>1, <2>1, <3>2, DivMonotone, DivMod
      <4>2. setBack' = setBack
        BY <1>1, <2>1, <3>2 DEF IInv, TypeOK
      <4>3. CASE setBack
        BY <4>2, <4>3 DEF WallAhead
      <4>4. CASE ~ setBack
        <5>1. /\ saved # NoState => saved.last <= wall \div Ms
              /\ \A r \in Requests : req[r].phase = "read" =>
                   /\ req[r].utc <= wall \div Ms
                   /\ serialized /\ saved # NoState => saved.last <= req[r].utc
          BY <4>4 DEF WallAhead, Readings
        <5>2. /\ saved # NoState => saved.last <= wall' \div Ms
              /\ \A r \in Requests : req[r].phase = "read" => req[r].utc <= wall' \div Ms
          BY <1>1, <4>1, <5>1
        <5> QED BY <2>1, <5>1, <5>2 DEF WallAhead
      <4> QED BY <4>3, <4>4
    <3> QED BY <1>1, <2>1, <3>1, <3>2
  <2>3. NoSpuriousRollback'
    BY <2>1 DEF NoSpuriousRollback, Readings
  <2> QED BY <2>1, <2>2, <2>3 DEF Readings, OneAtATime, AnchorsAhead, HeldMatches
<1>4. CASE Restart
  <2>1. /\ Start(boot) /\ boot' = boot /\ mono' = mono /\ wall' = wall
        /\ UNCHANGED <<serialized, saved, held, sets, setBack>>
    BY <1>4 DEF Restart, clock
  <2>2. boot \in Boots /\ wall' \in 0..WallMax /\ wall <= wall'
    BY <1>1, <2>1 DEF IInv, TypeOK
  <2> QED BY <2>1, <2>2, StartReadings
<1>5. CASE Reboot
  <2>1. wall' \in 0..WallMax /\ wall <= wall' /\ boot + 1 \in Boots
    BY <1>1, <1>5 DEF Reboot
  <2> QED BY <1>5, <2>1, StartReadings DEF Reboot
<1>6. CASE UNCHANGED vars
  BY <1>6 DEF vars, clock, Readings, OneAtATime, HeldMatches, AnchorsAhead, WallAhead,
              NoSpuriousRollback
<1> QED BY <1>2, <1>3, <1>4, <1>5, <1>6, SampleAnchorReadings, SampleWallReadings, DecideReadings
        DEF Next

(***************************************************************************)
(* Theorems.                                                               *)
(***************************************************************************)
\* Every variable keeps its type, in particular saved time stays a u64.
THEOREM ClockTypeCorrect == Spec => []TypeOK
<1>1. IInv => TypeOK
  BY DEF IInv
<1> QED BY <1>1, InitInv, StepInv, PTL DEF Spec

\* The sampler reports every whole millisecond exactly once (advance_sample_state).
THEOREM SamplerStaysExact == Spec => []SamplerExact
<1>1. IInv => SamplerExact
  BY DEF IInv
<1> QED BY <1>1, InitInv, StepInv, PTL DEF Spec

\* Saved effective time never goes back (evaluate_durable_clock and the caller
\* that saves its decision).
THEOREM SavedTimeNeverDecreases == Spec => FloorNeverDecreases
<1> DEFINE Forward == saved # NoState => saved' # NoState /\ saved'.last >= saved.last
<1>1. IInv /\ [Next]_vars => [Forward]_vars
  <2> SUFFICES ASSUME TypeOK, Next, saved # NoState PROVE Forward
    BY DEF IInv
  <2>1. saved \in [last : Times, anchor : Nat, epoch : Epochs]
    BY DEF TypeOK
  <2>2. ASSUME NEW r \in Requests, Decide(r) PROVE Forward
    <3> DEFINE e == Decision(saved, req[r]).effective
    <3>1. e \in Times /\ e >= saved.last
      BY <2>2, DecisionForward DEF Decide
    <3>2. CASE saved' = saved
      BY <2>1, <3>2 DEF Times
    <3>3. CASE saved' = [last |-> e, anchor |-> req[r].anchor, epoch |-> epoch]
      <4>1. saved' \in [last : Nat, anchor : Nat, epoch : Boots \cup {NoEpoch}]
        BY <3>1, <3>3 DEF TypeOK, Times, Epochs
      <4> QED BY <3>1, <3>3, <4>1, ClockAssumption
    <3> QED BY <2>2, <3>2, <3>3 DEF Decide
  <2>3. ASSUME saved' = saved PROVE Forward
    BY <2>1, <2>3 DEF Times
  <2>4. \/ \E r \in Requests :
             SampleAnchor(r) \/ SampleWall(r) \/ SampleFails(r) \/ DecideOverflow(r)
        \/ Tick \/ SetWall \/ Restart \/ Reboot
        => saved' = saved
    BY DEF SampleAnchor, SampleWall, SampleFails, DecideOverflow, Tick, SetWall, Restart, Reboot
  <2> QED BY <2>2, <2>3, <2>4 DEF Next
<1> QED BY <1>1, InitInv, StepInv, PTL DEF Spec, FloorNeverDecreases

\* While calls come one at a time, a wall clock that was never set back, however it is
\* slewed and through restarts and reboots, is never reported as rolled back
\* (evaluate_durable_clock freezes only on a reading behind the saved time).
THEOREM RollbacksAreReal == Spec => []NoSpuriousRollback
<1>1. Readings => NoSpuriousRollback
  BY DEF Readings
<1> QED BY <1>1, InitInv, StepInv, InitReadings, StepReadings, PTL DEF Spec

\* While calls come one at a time, one save within a boot moves effective time by no more
\* than the time that passed, one permitted step and the sampler's rest: neither an unknown
\* epoch nor a restart waives the forward guard of evaluate_durable_clock.
THEOREM ForwardStaysBounded == Spec => ForwardBounded
<1> DEFINE Bounded ==
             serialized /\ saved' # saved /\ Established(saved) /\ held.boot = boot =>
               saved'.last <= saved.last + Passed + MaxStep + 1
<1>1. IInv /\ Readings /\ [Next]_vars => [Bounded]_vars
  <2> SUFFICES ASSUME IInv, Readings, Next, serialized, saved' # saved, Established(saved),
                      held.boot = boot
               PROVE  saved'.last <= saved.last + Passed + MaxStep + 1
    OBVIOUS
  <2>1. PICK r \in Requests : Decide(r)
    BY DEF Next, SampleAnchor, SampleWall, SampleFails, DecideOverflow, Tick, SetWall, Restart,
           Reboot
  <2> DEFINE rd == req[r]
             now == MonotonicNow(saved, rd)
             passed == (rd.anchor - held.anchor) \div Ms
  <2>2. /\ rd.phase = "read" /\ held' = [boot |-> boot, anchor |-> rd.anchor]
        /\ saved' = [last |-> Decision(saved, rd).effective, anchor |-> rd.anchor,
                     epoch |-> epoch]
    BY <2>1 DEF Decide
  <2>3. /\ rd.utc \in Nat /\ rd.elapsed \in Nat /\ rd.anchor \in Nat /\ held.anchor \in Nat
        /\ saved # NoState /\ saved.last \in Nat /\ saved.anchor \in Nat
        /\ Ms \in Nat \ {0} /\ MaxStep \in Nat
    BY ClockAssumption DEF Established, IInv, TypeOK, Times
  <2>4. held.anchor <= rd.anchor /\ rd.elapsed <= passed + 1
    BY <2>2 DEF Readings, AnchorsAhead
  <2>5. passed \in Nat
    BY <2>3, <2>4, DivMod
  <2>6. Passed = passed
    <3>1. CASE rd.anchor = held.anchor
      <4>1. rd.anchor - held.anchor = 0 /\ 0 \div Ms = 0
        BY <2>3, <3>1
      <4> QED BY <2>2, <2>3, <3>1, <4>1 DEF Passed
    <3>2. CASE rd.anchor > held.anchor
      BY <2>2, <3>2 DEF Passed
    <3> QED BY <2>3, <2>4, <3>1, <3>2
  <2>7. saved.epoch \in {boot, NoEpoch} /\ (saved.epoch # NoEpoch => saved.anchor = held.anchor)
        /\ epoch \in {boot, NoEpoch}
    BY <2>3 DEF Readings, HeldMatches
  <2>8. ~ DifferentBoot(saved)
    BY <2>7 DEF DifferentBoot
  <2>9. Elapsed(saved, rd) \in Nat /\ Elapsed(saved, rd) <= passed + 1
    <3>1. SameBoot(saved) => (rd.anchor - saved.anchor) \div Ms = passed
      BY <2>7 DEF SameBoot
    <3> HIDE DEF rd, passed
    <3> QED BY <2>3, <2>4, <2>5, <3>1 DEF Elapsed, Larger
  <2>10. now \in Nat /\ now <= saved.last + passed + 1
    BY <2>3, <2>5, <2>9 DEF MonotonicNow
  <2>11. Decision(saved, rd).effective <= saved.last + passed + MaxStep + 1
    <3> HIDE DEF rd, now, passed
    <3>1. CASE RolledBack(saved, rd)
      BY <2>3, <2>5, <3>1 DEF Decision
    <3>2. CASE ~ RolledBack(saved, rd) /\ JumpedForward(saved, rd)
      BY <2>3, <2>5, <2>10, <3>2 DEF Decision, now
    <3>3. CASE ~ RolledBack(saved, rd) /\ ~ JumpedForward(saved, rd)
      <4>1. rd.utc <= now + MaxStep
        BY <2>3, <2>8, <2>10, <3>3 DEF JumpedForward, now
      <4>2. Decision(saved, rd).effective = rd.utc
        BY <3>3 DEF Decision, HealthyTime
      <4> QED BY <2>3, <2>5, <2>10, <4>1, <4>2
    <3> QED BY <3>1, <3>2, <3>3
  <2> QED BY <2>2, <2>6, <2>11
<1> QED BY <1>1, InitInv, StepInv, InitReadings, StepReadings, PTL DEF Spec, ForwardBounded
=============================================================================
