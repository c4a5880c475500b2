-------------------------- MODULE ContainmentGuard --------------------------
(***************************************************************************)
(* The guard that believes a packet filter is up because a root-owned      *)
(* status file said so lately (NetworkContainmentGuard of                  *)
(* crates/bloom-platform-containment).                                     *)
(*                                                                         *)
(* A root process, external, looks at the filter, stamps what it saw and   *)
(* replaces the file.  A check inspects the file, reads the clock, reads   *)
(* the file and compares: each is a step, and the file may be replaced and *)
(* time pass between any two.  An administrator may set the clock back.    *)
(***************************************************************************)
EXTENDS Integers

CONSTANTS
  Checks,      \* concurrent checks of one service
  MaximumAge,  \* maximum_age_ms
  Skew,        \* MAX_FUTURE_SKEW_MS
  MaxTime,     \* bound on time
  MaxSetback   \* bound on how far the clock is set back in all

\* What the constants must be.
GuardAssumption == {MaximumAge, Skew, MaxTime, MaxSetback} \subseteq Nat /\ MaximumAge > 0

VARIABLES
  prompt,   \* whether the root process keeps the file fresh and a check reads the
            \* file within Skew of the clock
  time,     \* elapsed time
  setback,  \* how far the clock is behind it
  filter,   \* "ours", "theirs" (of another build or user) or "off"
  wasOurs,  \* the last moment the filter was ours
  seen,     \* what the root process saw and has not written yet, or NoStatus
  status,   \* the status file, or NoStatus
  state,    \* where each check is
  clock,    \* the clock each check read
  began     \* when it read it

vars == <<prompt, time, setback, filter, wasOurs, seen, status, state, clock, began>>
host == <<prompt, time, setback, filter, wasOurs, seen, status>>

NoStatus == [of |-> "none", at |-> -1]
Now == time - setback

Init ==
  /\ prompt \in BOOLEAN
  /\ time = 0 /\ setback = 0
  /\ filter = "ours" /\ wasOurs = 0
  /\ seen = NoStatus /\ status \in {NoStatus, [of |-> "ours", at |-> 0]}
  /\ state = [c \in Checks |-> "idle"]
  /\ clock = [c \in Checks |-> 0] /\ began = [c \in Checks |-> 0]

Set(c, to) == state' = [state EXCEPT ![c] = to]

\* symlink_metadata
Inspect(c) ==
  /\ state[c] = "idle"
  /\ Set(c, IF status = NoStatus THEN "refused" ELSE "inspected")
  /\ UNCHANGED <<host, clock, began>>

ReadClock(c) ==
  /\ state[c] = "inspected"
  /\ clock' = [clock EXCEPT ![c] = Now]
  /\ began' = [began EXCEPT ![c] = time]
  /\ Set(c, "timed")
  /\ UNCHANGED host

Acceptable_NoSkew(s, now) ==
  /\ s.of = "ours" /\ s.at <= now
  /\ now - s.at <= MaximumAge

\* validate_status: saturating_sub takes a status of the future for a fresh one, within
\* the skew that is checked first.
Acceptable(s, now) ==
  /\ s.of = "ours" /\ s.at <= now + Skew
  /\ now - s.at <= MaximumAge

ReadStatus(c) ==
  /\ state[c] = "timed"
  /\ Set(c, IF Acceptable(status, clock[c]) THEN "passed" ELSE "refused")
  /\ UNCHANGED <<host, clock, began>>

\* The result was used; the service checks again.
Again(c) ==
  /\ state[c] \in {"passed", "refused"}
  /\ Set(c, "idle")
  /\ clock' = [clock EXCEPT ![c] = 0] /\ began' = [began EXCEPT ![c] = 0]
  /\ UNCHANGED host

\* The root process looks at the filter, and writes what it saw.
Look ==
  /\ seen' = [of |-> filter, at |-> Now]
  /\ UNCHANGED <<prompt, time, setback, filter, wasOurs, status, state, clock, began>>

Publish ==
  /\ seen # NoStatus
  /\ status' = seen /\ seen' = NoStatus
  /\ UNCHANGED <<prompt, time, setback, filter, wasOurs, state, clock, began>>

Change(to) ==
  /\ filter # to
  /\ filter' = to
  /\ wasOurs' = IF to = "ours" THEN time ELSE wasOurs
  /\ UNCHANGED <<prompt, time, setback, seen, status, state, clock, began>>

\* Time does not pass while it would make a prompt host late.
Tick ==
  /\ time < MaxTime
  /\ prompt => /\ \A s \in {seen, status} \ {NoStatus} : Now < s.at + MaximumAge
               /\ \A c \in Checks : state[c] = "timed" => Now < clock[c] + Skew
  /\ time' = time + 1
  /\ wasOurs' = IF filter = "ours" THEN time + 1 ELSE wasOurs
  /\ UNCHANGED <<prompt, setback, filter, seen, status, state, clock, began>>

SetBack ==
  /\ setback < MaxSetback /\ Now > 0
  /\ setback' = setback + 1
  /\ UNCHANGED <<prompt, time, filter, wasOurs, seen, status, state, clock, began>>

Next ==
  \/ \E c \in Checks : Inspect(c) \/ ReadClock(c) \/ ReadStatus(c) \/ Again(c)
  \/ Look \/ Publish \/ Tick \/ SetBack
  \/ \E to \in {"ours", "theirs", "off"} : Change(to)

Spec == Init /\ [][Next]_vars

(***************************************************************************)
(* Correctness.                                                            *)
(***************************************************************************)
Statuses == [of : {"ours", "theirs", "off"}, at : Int] \cup {NoStatus}

\* Every variable has its type, and a check goes on only with a file it inspected.
TypeOK ==
  /\ prompt \in BOOLEAN
  /\ time \in 0..MaxTime /\ setback \in 0..MaxSetback
  /\ filter \in {"ours", "theirs", "off"} /\ wasOurs \in 0..time
  /\ seen \in Statuses /\ status \in Statuses
  /\ state \in [Checks -> {"idle", "inspected", "timed", "passed", "refused"}]
  /\ \A c \in Checks : state[c] \in {"inspected", "timed", "passed"} => status # NoStatus
  /\ clock \in [Checks -> Int] /\ began \in [Checks -> 0..MaxTime]

\* A check passes only if this build's filter was up for this user at some moment no
\* longer than the maximum age before the check read the clock, plus whatever the clock
\* was set back: a delay in writing the file, in reading it, or between clock and file
\* never makes old evidence pass.
FreshWhenPassed ==
  \A c \in Checks : state[c] = "passed" => wasOurs + MaximumAge + setback >= began[c]

\* While the filter stays up, the file is kept fresh and the clock is not set, no check
\* is refused: neither a status written after the clock was read, nor one at the very
\* end of its age, counts as untrue.
RefusedRightly(c) ==
  state[c] = "timed" /\ state'[c] = "refused" =>
    status.of # "ours" \/ setback > 0 \/ ~ prompt
=============================================================================
