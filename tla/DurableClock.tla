---------------------------- MODULE DurableClock ----------------------------
(***************************************************************************)
(* Authority time of a Linux service: PlatformTimeSampler takes a suspend- *)
(* aware anchor and then the wall clock, evaluate_durable_clock turns such *)
(* a reading into an effective time, and the service saves that time with  *)
(* the anchor and the boot it was sampled in.                              *)
(*                                                                         *)
(* The wall clock may run slow or fast and may be set; the process may     *)
(* restart, the machine may reboot (the anchor starts over), the boot may  *)
(* be unknown, and what was decided may fail to be saved.                  *)
(*                                                                         *)
(* The service that samples, saves and passes the boot epoch is not part   *)
(* of the repository: those steps follow the documented use.               *)
(***************************************************************************)
EXTENDS Integers

CONSTANTS
  Requests,    \* calls that need the time
  Ms,          \* units of the anchor in a millisecond (1,000,000 in the code)
  MaxStep,     \* max_forward_step_ms
  U64Max,      \* the greatest time in milliseconds
  Boots,       \* bound: boots of the machine, 1..n
  MaxUp,       \* bound on the anchor in one boot
  MaxSets,     \* bound on how often the wall clock is set
  NoState,     \* nothing has been saved
  NoSample,    \* the process has taken no sample
  NoEpoch      \* the boot is not known

ASSUME ClockAssumption ==
  /\ Ms \in Nat \ {0} /\ MaxStep \in Nat /\ U64Max \in Nat \ {0}
  /\ MaxUp \in Nat /\ MaxSets \in Nat
  /\ Boots \subseteq Nat /\ 1 \in Boots /\ NoEpoch \notin Boots
  /\ NoState \notin [last : Nat, anchor : Nat, epoch : Boots \cup {NoEpoch}]
  /\ NoSample \notin [anchor : Nat, rest : Nat]

VARIABLES
  serialized,  \* whether the service samples, decides and saves under one lock
  mono,      \* CLOCK_BOOTTIME, in units of the anchor
  wall,      \* the wall clock, in the same units
  boot,      \* the boot the machine is in
  epoch,     \* the boot as the process knows it
  sampler,   \* sample_state of the process
  req,       \* the calls under way and their readings
  saved,     \* PersistedClockState, or NoState
  held,      \* boot and anchor of the reading that was saved (history)
  origin,    \* first anchor and milliseconds reported since (history)
  sets,      \* times the wall clock was set (bound)
  setBack,   \* the wall clock was once set back (history)
  verdict    \* condition of the last decision

clock == <<mono, wall, boot>>
vars  == <<serialized, clock, epoch, sampler, req, saved, held, origin, sets, setBack, verdict>>

Idle == [phase |-> "idle", anchor |-> 0, elapsed |-> 0, utc |-> 0]

WallMax == (U64Max + 1) * Ms - 1

Init ==
  /\ serialized \in BOOLEAN
  /\ mono = 1 /\ wall \in 0..WallMax /\ boot = 1
  /\ epoch \in {1, NoEpoch}
  /\ sampler = NoSample
  /\ req = [r \in Requests |-> Idle]
  \* Nothing, no time established yet, or a state of before anchors and epochs.
  /\ saved \in {NoState, [last |-> 0, anchor |-> 0, epoch |-> NoEpoch],
                [last |-> wall \div Ms, anchor |-> 0, epoch |-> NoEpoch]}
  /\ held = [boot |-> 1, anchor |-> 1]
  /\ origin = [first |-> 0, reported |-> 0]
  /\ sets = 0 /\ setBack = FALSE
  /\ verdict = "none"

(***************************************************************************)
(* PlatformTimeSampler.                                                    *)
(***************************************************************************)
\* Units since the prior sample, with the rest that sample did not report.
Unreported == mono - sampler.anchor + sampler.rest

\* advance_sample_state: the new state, and the milliseconds it reports.
Rest_Dropped == 0
Rest_Whole == IF sampler = NoSample THEN 0 ELSE Unreported
Rest == IF sampler = NoSample THEN 0 ELSE Unreported % Ms

Reported == IF sampler = NoSample THEN 0 ELSE Unreported \div Ms

\* The mutex makes the anchor and the state one step.
SampleAnchor(r) ==
  /\ req[r].phase = "idle"
  /\ serialized => \A s \in Requests : req[s].phase = "idle"
  /\ sampler' = [anchor |-> mono, rest |-> Rest]
  /\ origin' = IF sampler = NoSample THEN [first |-> mono, reported |-> 0]
               ELSE [origin EXCEPT !.reported = @ + Reported]
  /\ req' = [req EXCEPT ![r] =
               [phase |-> "anchored", anchor |-> mono, elapsed |-> Reported, utc |-> 0]]
  /\ UNCHANGED <<serialized, clock, epoch, saved, held, sets, setBack, verdict>>

\* SystemTime::now, after the mutex was released.
SampleWall(r) ==
  /\ req[r].phase = "anchored"
  /\ req' = [req EXCEPT ![r].phase = "read", ![r].utc = wall \div Ms]
  /\ UNCHANGED <<serialized, clock, epoch, sampler, saved, held, origin, sets, setBack, verdict>>

\* WallClockRange: the wall clock reads before the epoch or past U64Max.  The anchor is
\* taken, and the milliseconds it accounts for are lost with the call.
SampleFails(r) ==
  /\ req[r].phase = "anchored"
  /\ req' = [req EXCEPT ![r] = Idle]
  /\ UNCHANGED <<serialized, clock, epoch, sampler, saved, held, origin, sets, setBack, verdict>>

(***************************************************************************)
(* evaluate_durable_clock.                                                 *)
(***************************************************************************)
SameBoot(prev) == prev.epoch # NoEpoch /\ epoch # NoEpoch /\ prev.epoch = epoch

DifferentBoot_Unknown(prev) == prev.epoch # epoch
DifferentBoot(prev) == prev.epoch # NoEpoch /\ epoch # NoEpoch /\ prev.epoch # epoch

Larger(a, b) == IF a > b THEN a ELSE b

\* Milliseconds since prev was saved; only a confirmed boot makes anchors comparable.
Elapsed(prev, rd) ==
  IF SameBoot(prev) /\ prev.anchor # 0 /\ rd.anchor >= prev.anchor
  THEN Larger((rd.anchor - prev.anchor) \div Ms, rd.elapsed)
  ELSE rd.elapsed

MonotonicNow(prev, rd) == prev.last + Elapsed(prev, rd)

Established(prev) == prev # NoState /\ prev.last # 0

Overflows(prev, rd) == Established(prev) /\ MonotonicNow(prev, rd) > U64Max

RolledBack_Ignored(prev, rd) == FALSE
RolledBack(prev, rd) == Established(prev) /\ rd.utc < prev.last

\* saturating_add leaves the comparison as it is: no time exceeds U64Max.
JumpedForward(prev, rd) ==
  /\ Established(prev)
  /\ ~ DifferentBoot(prev)
  /\ rd.utc > MonotonicNow(prev, rd) + MaxStep

\* The effective time of a healthy reading is the wall clock's, never the estimate.
HealthyTime_Estimate(prev, rd) ==
  IF Established(prev) THEN Larger(rd.utc, MonotonicNow(prev, rd)) ELSE rd.utc
HealthyTime(prev, rd) == rd.utc

Decision(prev, rd) ==
  IF RolledBack(prev, rd)
  THEN [effective |-> prev.last, condition |-> "RollbackFrozen"]
  ELSE IF JumpedForward(prev, rd)
  THEN [effective |-> MonotonicNow(prev, rd), condition |-> "ForwardJumpRejected"]
  ELSE [effective |-> HealthyTime(prev, rd), condition |-> "Healthy"]

\* The service saves what was decided, or fails to.
Decide(r) ==
  /\ req[r].phase = "read"
  /\ ~ Overflows(saved, req[r])
  /\ LET d == Decision(saved, req[r])
     IN /\ verdict' = d.condition
        /\ \/ /\ saved' = [last |-> d.effective, anchor |-> req[r].anchor, epoch |-> epoch]
              /\ held' = [boot |-> boot, anchor |-> req[r].anchor]
           \/ UNCHANGED <<saved, held>>
  /\ req' = [req EXCEPT ![r] = Idle]
  /\ UNCHANGED <<serialized, clock, epoch, sampler, origin, sets, setBack>>

\* ArithmeticOverflow: nothing is decided.
DecideOverflow(r) ==
  /\ req[r].phase = "read"
  /\ Overflows(saved, req[r])
  /\ verdict' = "ArithmeticOverflow"
  /\ req' = [req EXCEPT ![r] = Idle]
  /\ UNCHANGED <<serialized, clock, epoch, sampler, saved, held, origin, sets, setBack>>

(***************************************************************************)
(* The machine.                                                            *)
(***************************************************************************)
\* Time passes; a wall clock that is slewed stands still or runs twice as fast.
Tick ==
  /\ mono < MaxUp
  /\ mono' = mono + 1
  /\ \E slew \in 0..2 : wall' = wall + slew /\ wall' <= WallMax
  /\ UNCHANGED <<serialized, boot, epoch, sampler, req, saved, held, origin, sets, setBack, verdict>>

\* The wall clock is set.
SetWall ==
  /\ sets < MaxSets
  /\ sets' = sets + 1
  /\ \E w \in 0..WallMax \ {wall} : wall' = w /\ setBack' = (setBack \/ w < wall)
  /\ UNCHANGED <<serialized, mono, boot, epoch, sampler, req, saved, held, origin, verdict>>

\* The process is gone; the next one may or may not learn the boot.
Start(b) ==
  /\ epoch' \in {b, NoEpoch}
  /\ sampler' = NoSample
  /\ req' = [r \in Requests |-> Idle]
  /\ origin' = [first |-> 0, reported |-> 0]
  /\ verdict' = "none"

Restart == Start(boot) /\ UNCHANGED <<serialized, clock, saved, held, sets, setBack>>

\* The anchor starts over; the wall clock shows some of the time powered off.
Reboot ==
  /\ boot + 1 \in Boots
  /\ boot' = boot + 1
  /\ mono' = 1
  /\ wall' \in {w \in {wall, wall + Ms} : w <= WallMax}
  /\ Start(boot + 1)
  /\ UNCHANGED <<serialized, saved, held, sets, setBack>>

Next ==
  \/ \E r \in Requests :
       \/ SampleAnchor(r) \/ SampleWall(r) \/ SampleFails(r)
       \/ Decide(r) \/ DecideOverflow(r)
  \/ Tick \/ SetWall \/ Restart \/ Reboot

Spec == Init /\ [][Next]_vars

(***************************************************************************)
(* Correctness.                                                            *)
(***************************************************************************)
Times == 0..U64Max
Epochs == Boots \cup {NoEpoch}
Verdicts == {"none", "Healthy", "RollbackFrozen", "ForwardJumpRejected", "ArithmeticOverflow"}

\* Every variable has its type; the sampler's rest is below a millisecond.
TypeOK ==
  /\ serialized \in BOOLEAN
  /\ mono \in Nat /\ wall \in 0..WallMax /\ boot \in Boots
  /\ epoch \in Epochs
  /\ sampler \in [anchor : Nat, rest : 0..Ms - 1] \cup {NoSample}
  /\ req \in [Requests -> [phase : {"idle", "anchored", "read"}, anchor : Nat,
                           elapsed : Nat, utc : Times]]
  /\ saved \in [last : Times, anchor : Nat, epoch : Epochs] \cup {NoState}
  /\ held \in [boot : Boots, anchor : Nat]
  /\ origin \in [first : Nat, reported : Nat]
  /\ sets \in Nat /\ setBack \in BOOLEAN
  /\ verdict \in Verdicts

\* Saved effective time never goes back, through clock changes, restarts, reboots,
\* lost saves and readings decided out of the order they were sampled in ("this
\* transition only moves authority time forward").
FloorNeverDecreases ==
  [][saved # NoState => saved' # NoState /\ saved'.last >= saved.last]_vars

\* Milliseconds that passed between the saved reading and the one now saved.
Passed == IF held'.anchor > held.anchor THEN (held'.anchor - held.anchor) \div Ms ELSE 0

\* While calls come one at a time, within one boot a save moves effective time by no
\* more than the time that passed and one permitted step (and the sampler's rest): an
\* unknown epoch, a state of before epochs or a restart must not waive the guard.
ForwardBounded ==
  [][serialized /\ saved' # saved /\ Established(saved) /\ held.boot = boot =>
       saved'.last <= saved.last + Passed + MaxStep + 1]_vars

\* While calls come one at a time, a clock that was never set back is never reported as
\* rolled back, however it is slewed ("a rollback that never happened").
NoSpuriousRollback == serialized /\ verdict = "RollbackFrozen" => setBack

\* The milliseconds a process's samples account for since the first are the whole ones
\* that passed: fractions are carried, never lost or counted twice, whichever
\* calls sample concurrently.
SamplerExact ==
  sampler # NoSample =>
    /\ origin.reported = (sampler.anchor - origin.first) \div Ms
    /\ sampler.rest = (sampler.anchor - origin.first) % Ms
=============================================================================
