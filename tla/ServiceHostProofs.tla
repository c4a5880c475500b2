-------------------------- MODULE ServiceHostProofs --------------------------
(***************************************************************************)
(* Proofs about what the runtime gives a service on its host, for any      *)
(* starts, environment, takes, processes, events, checks and limits: the   *)
(* directory of its endpoint stays in order, an adopted descriptor has one *)
(* owner and the name announced for it, a name announced is found, the log *)
(* holds each event once and beside it only what failed writes left, the   *)
(* packet-filter guard passes on fresh evidence and refuses none, and what *)
(* is read of the wire is read of its one encoding.                        *)
(***************************************************************************)
EXTENDS ServiceHost, WireEncodingProofs, FiniteSetTheorems

\* Each part counts with the Cardinality of its own, which is the one of FiniteSets.
LEMMA SameCardinality ==
  \A S : Activation!Cardinality(S) = Cardinality(S) /\ Log!Cardinality(S) = Cardinality(S)
<1>1. \A S : Activation!Cardinality(S) = Cardinality(S)
  BY DEF Activation!Cardinality, Cardinality
<1>2. \A S : Log!Cardinality(S) = Cardinality(S)
  BY DEF Log!Cardinality, Cardinality
<1> QED BY <1>1, <1>2

(***************************************************************************)
(* Listeners of the service manager.                                       *)
(***************************************************************************)
\* Nothing happens before the set is loaded, and that happens once.
Untouched ==
  activation = "unset" =>
    /\ table = {} /\ closed = {}
    /\ adoptions = [fd \in Activation!Fds |-> 0]
    /\ \A t \in Threads : got[t] = 0 /\ takes[t] \in {"new", "refused"}

\* The environment was found sound if anything of it can be, or was, taken.
SoundEnv == env.pid /\ 1..env.count \subseteq env.open /\ Len(env.names) = env.count
Sound == (table # {} \/ \E t \in Threads : got[t] # 0) => SoundEnv

\* What the table holds, and what was taken from it, stands under its name.
Named ==
  /\ \A entry \in table : env.names[entry[2]] = entry[1]
  /\ \A t \in Threads : got[t] # 0 => env.names[got[t]] = NameOf[t]

\* A take has no descriptor before it takes one, and none is had twice.
Owned ==
  /\ \A fd \in Activation!Fds : adoptions[fd] <= 1
  /\ \A t \in Threads : takes[t] \in {"new", "loaded"} => got[t] = 0
  /\ \A t \in Threads : Activation!Holds(t) => got[t] \in Activation!Fds \ closed
  /\ \A t, u \in Threads : got[t] # 0 /\ got[t] = got[u] => t = u
  /\ \A entry \in table : entry[2] \notin closed /\ \A t \in Threads : got[t] # entry[2]

TakesInv == Activation!TypeOK /\ Untouched /\ Sound /\ Named /\ Owned

USE DEF Activation!Fds

\* As many descriptors adopted as were announced are all that were announced.
LEMMA AllAdopted ==
  ASSUME env.count \in Nat, Activation!Cardinality(Activation!Adopted) = env.count
  PROVE  1..env.count \subseteq env.open
<1>1. IsFiniteSet(1..env.count) /\ Cardinality(1..env.count) = env.count
  <2>1. /\ IsFiniteSet(1..env.count)
        /\ Cardinality(1..env.count) = IF 1 > env.count THEN 0 ELSE env.count - 1 + 1
    BY FS_Interval
  <2> QED BY <2>1
<1>2. Activation!Adopted \subseteq 1..env.count
  BY DEF Activation!Adopted
<1>3. Activation!Adopted = 1..env.count
  BY <1>1, <1>2, FS_Subset, SameCardinality
<1> QED BY <1>3 DEF Activation!Adopted

LEMMA TakesInit == Activation!ActivationAssumption /\ Activation!Init => TakesInv
<1> SUFFICES ASSUME Activation!ActivationAssumption, Activation!Init PROVE TakesInv
  OBVIOUS
<1> USE DEF Activation!ActivationAssumption, Activation!Init
<1>1. Activation!TypeOK
  <2>1. takes \in [Threads -> {"new"}] /\ got \in [Threads -> {0}]
    OBVIOUS
  <2>2. adoptions \in [Activation!Fds -> Nat]
    OBVIOUS
  <2> QED BY <2>1, <2>2 DEF Activation!TypeOK
<1>2. Untouched /\ Sound /\ Named
  BY DEF Untouched, Sound, Named
<1>3. Owned
  BY DEF Owned, Activation!Holds
<1> QED BY <1>1, <1>2, <1>3 DEF TakesInv

LEMMA TakesStep ==
  ASSUME Activation!ActivationAssumption, TakesInv, [Activation!Next]_takeVars
  PROVE  TakesInv'
<1> USE DEF Activation!ActivationAssumption, TakesInv, Activation!TypeOK, Untouched, Sound, SoundEnv, Named, Owned, Activation!Holds,
            Activation!Goes
<1>1. ASSUME NEW t \in Threads, Activation!Load(t) PROVE TakesInv'
  <2> USE <1>1 DEF Activation!Load
  <2>1. CASE ~ Activation!Announced
    BY <2>1
  <2>2. CASE Activation!Announced
    <3>1. env.count \in Nat /\ env.count <= MaxCount /\ env.pid /\ Len(env.names) = env.count
      BY <2>2 DEF Activation!Announced
    <3>2. Activation!Adopted \subseteq Activation!Fds
      BY <3>1 DEF Activation!Adopted
    <3>3. adoptions' = [fd \in Activation!Fds |-> IF fd \in Activation!Adopted THEN 1 ELSE 0]
      BY <2>2 DEF Activation!Adopts
    <3>4. CASE Activation!Cardinality(Activation!Adopted) = env.count /\ Activation!WellNamed
      <4>1. /\ activation' = "ready" /\ closed' = closed
            /\ table' = {<<env.names[i], i>> : i \in 1..env.count}
        BY <2>2, <3>4
      <4>2. 1..env.count \subseteq env.open
        BY <3>1, <3>4, AllAdopted
      <4>3. \A i \in 1..env.count : env.names[i] \in ListenerNames \cup {Invalid} /\ i \in Activation!Fds
        BY <3>1
      <4>4. \A entry \in table' :
              entry[2] \in Activation!Fds /\ entry[1] = env.names[entry[2]]
        BY <4>1, <4>3
      <4>5. table' \subseteq (ListenerNames \cup {Invalid}) \X Activation!Fds
        BY <4>1, <4>3
      <4>6. Activation!TypeOK'
        BY <3>3, <4>1, <4>5
      <4>7. Untouched' /\ Sound' /\ Named'
        BY <3>1, <4>1, <4>2, <4>4
      <4>8. Owned'
        BY <3>3, <4>1, <4>4
      <4> QED BY <4>6, <4>7, <4>8
    <3>5. CASE ~ (Activation!Cardinality(Activation!Adopted) = env.count /\ Activation!WellNamed)
      <4>1. activation' = "failed" /\ closed' = Activation!Adopted /\ table' = {}
        BY <2>2, <3>5
      <4>2. Activation!TypeOK'
        BY <3>2, <3>3, <4>1
      <4>3. Untouched' /\ Sound' /\ Named'
        BY <4>1
      <4>4. Owned'
        BY <3>3, <4>1
      <4> QED BY <4>2, <4>3, <4>4
    <3> QED BY <3>4, <3>5
  <2> QED BY <2>1, <2>2
<1>2. ASSUME NEW t \in Threads, Activation!RefuseName(t) \/ Activation!Get(t) \/ Activation!Configure(t) PROVE TakesInv'
  <2>1. /\ UNCHANGED <<env, table, adoptions, closed, got, unconfigured, activation>>
        /\ \/ takes[t] = "new" /\ takes' = [takes EXCEPT ![t] = "refused"]
           \/ /\ activation = "ready" /\ takes[t] = "new"
              /\ takes' = [takes EXCEPT ![t] = "loaded"]
           \/ takes[t] = "taken" /\ takes' = [takes EXCEPT ![t] = "listening"]
    <3>1. CASE Activation!RefuseName(t) BY <3>1 DEF Activation!RefuseName
    <3>2. CASE Activation!Get(t) BY <3>2 DEF Activation!Get
    <3>3. CASE Activation!Configure(t) BY <3>3 DEF Activation!Configure
    <3> QED BY <1>2, <3>1, <3>2, <3>3
  <2>2. Activation!TypeOK'
    BY <2>1
  <2>3. Untouched' /\ Sound' /\ Named'
    BY <2>1
  <2>4. Owned'
    BY <2>1
  <2> QED BY <2>2, <2>3, <2>4
<1>3. ASSUME NEW t \in Threads, Activation!Take(t) PROVE TakesInv'
  <2> USE <1>3 DEF Activation!Take
  <2>1. ASSUME NEW entry \in table,
               entry[1] = NameOf[t],
               table' = table \ {entry},
               got' = [got EXCEPT ![t] = entry[2]],
               Activation!Goes(t, "taken")
        PROVE  TakesInv'
    <3> USE <2>1
    <3>1. entry[2] \in Activation!Fds /\ entry = <<entry[1], entry[2]>>
      OBVIOUS
    <3>2. \A other \in table' : other[2] # entry[2]
      OBVIOUS
    <3>3. Activation!TypeOK'
      BY <3>1
    <3>4. Untouched' /\ Sound' /\ Named'
      BY <3>1
    <3>5. Owned'
      BY <3>1, <3>2
    <3> QED BY <3>3, <3>4, <3>5
  <2>2. CASE Activation!Goes(t, "refused") /\ UNCHANGED <<table, got>>
    BY <2>2
  <2> QED BY <2>1, <2>2
<1>4. ASSUME NEW t \in Threads, Activation!ConfigureFails(t) \/ Activation!Drop(t) PROVE TakesInv'
  <2>1. /\ closed' = closed \cup {got[t]} /\ UNCHANGED <<env, activation, table, adoptions, got>>
        /\ unconfigured' \in 0..MaxUnconfigured
        /\ \E to \in {"refused", "dropped"} : takes' = [takes EXCEPT ![t] = to]
    <3>1. CASE Activation!ConfigureFails(t) BY <3>1 DEF Activation!ConfigureFails
    <3>2. CASE Activation!Drop(t) BY <3>2 DEF Activation!Drop
    <3> QED BY <1>4, <3>1, <3>2
  <2>2. Activation!Holds(t) /\ got[t] \in Activation!Fds
    BY <1>4 DEF Activation!ConfigureFails, Activation!Drop
  <2>3. Activation!TypeOK'
    <3>1. closed' \subseteq Activation!Fds
      BY <2>1, <2>2
    <3>2. takes' \in [Threads -> {"new", "loaded", "taken", "listening", "dropped", "refused"}]
      BY <2>1
    <3> QED BY <2>1, <3>1, <3>2
  <2>4. Untouched' /\ Sound' /\ Named'
    BY <2>1, <2>2
  <2>5. Owned'
    BY <2>1, <2>2
  <2> QED BY <2>3, <2>4, <2>5
<1>5. CASE UNCHANGED takeVars
  BY <1>5 DEF takeVars
<1> QED BY <1>1, <1>2, <1>3, <1>4, <1>5 DEF Activation!Next, Activation!Step

\* The environment is sound: ours, complete, open, and with a name of its own for each.
Complete == Activation!Announced /\ Activation!Adopted = 1..env.count /\ Activation!WellNamed

Taken(name) == \E u \in Threads : NameOf[u] = name /\ got[u] # 0

\* A take of an announced name is refused only if a take of that name had its descriptor.
AnnouncedFound ==
  Complete => \A t \in Threads, i \in 1..env.count :
                takes[t] = "refused" /\ env.names[i] = NameOf[t] => Taken(NameOf[t])

\* Of a sound environment each descriptor waits in the table until a take has it.
KeptForOne ==
  Complete =>
    /\ activation # "failed"
    /\ activation = "ready" =>
         \A i \in 1..env.count :
           <<env.names[i], i>> \in table \/ \E u \in Threads : got[u] = i

WaitsInv == TakesInv /\ KeptForOne /\ AnnouncedFound

LEMMA WaitsInit == Activation!ActivationAssumption /\ Activation!Init => WaitsInv
BY TakesInit DEF Activation!Init, WaitsInv, KeptForOne, AnnouncedFound

LEMMA WaitsStep ==
  ASSUME Activation!ActivationAssumption, WaitsInv, [Activation!Next]_takeVars
  PROVE  WaitsInv'
<1>1. TakesInv /\ TakesInv'
  BY TakesStep DEF WaitsInv
<1>2. env' = env /\ (Complete' <=> Complete)
  <2>1. env' = env
    BY DEF Activation!Next, Activation!Step, takeVars, Activation!RefuseName, Activation!Load,
           Activation!Get, Activation!Take, Activation!Configure, Activation!ConfigureFails,
           Activation!Drop
  <2> QED BY <2>1 DEF Complete, Activation!Announced, Activation!Adopted, Activation!WellNamed
<1> SUFFICES ASSUME Complete PROVE KeptForOne' /\ AnnouncedFound'
  BY <1>1, <1>2 DEF WaitsInv, KeptForOne, AnnouncedFound
<1>3. /\ env.count \in Nat
      /\ Activation!Cardinality(Activation!Adopted) = env.count
      /\ \A i \in 1..env.count : env.names[i] # Invalid /\ i # 0
  <2>1. env.count \in Nat
    BY <1>1 DEF TakesInv, Activation!TypeOK, Activation!ActivationAssumption
  <2>2. Cardinality(1..env.count) = IF 1 > env.count THEN 0 ELSE env.count - 1 + 1
    BY <2>1, FS_Interval
  <2>3. Cardinality(1..env.count) = env.count
    BY <2>1, <2>2
  <2> QED BY <2>1, <2>3, SameCardinality DEF Complete, Activation!WellNamed
<1> USE DEF WaitsInv, TakesInv, Activation!TypeOK, Untouched, Named, KeptForOne, AnnouncedFound,
            Taken, Activation!Goes
<1>4. ASSUME NEW t \in Threads, Activation!RefuseName(t) PROVE KeptForOne' /\ AnnouncedFound'
  <2>1. /\ UNCHANGED <<env, activation, table, got>> /\ NameOf[t] = Invalid
        /\ takes' = [takes EXCEPT ![t] = "refused"]
    BY <1>4 DEF Activation!RefuseName
  <2> QED BY <1>1, <1>2, <1>3, <2>1
<1>5. ASSUME NEW t \in Threads, Activation!Load(t) PROVE KeptForOne' /\ AnnouncedFound'
  <2>1. /\ UNCHANGED <<env, takes, got>> /\ activation' = "ready"
        /\ table' = {<<env.names[i], i>> : i \in 1..env.count}
    BY <1>3, <1>5 DEF Activation!Load, Complete
  <2> QED BY <1>1, <1>2, <2>1
<1>6. ASSUME NEW t \in Threads, Activation!Get(t) PROVE KeptForOne' /\ AnnouncedFound'
  <2>1. /\ UNCHANGED <<env, activation, table, got>>
        /\ takes' = [takes EXCEPT ![t] = "loaded"]
    BY <1>1, <1>6 DEF Activation!Get
  <2> QED BY <1>1, <1>2, <2>1
<1>7. ASSUME NEW t \in Threads, Activation!Take(t) PROVE KeptForOne' /\ AnnouncedFound'
  <2>1. activation = "ready" /\ activation' = activation /\ got[t] = 0
    BY <1>1, <1>7 DEF Activation!Take, Owned
  <2>2. ASSUME NEW entry \in table, entry[1] = NameOf[t], table' = table \ {entry},
               got' = [got EXCEPT ![t] = entry[2]],
               takes' = [takes EXCEPT ![t] = "taken"]
        PROVE  KeptForOne' /\ AnnouncedFound'
    <3>1. entry[2] \in Activation!Fds /\ entry = <<entry[1], entry[2]>>
      BY <1>1, <2>2
    <3>2. got'[t] = entry[2] /\ \A u \in Threads : got[u] # 0 => got'[u] = got[u]
      BY <1>1, <2>1, <2>2
    <3>3. KeptForOne'
      BY <1>1, <1>2, <1>3, <2>1, <2>2, <3>1, <3>2
    <3>4. AnnouncedFound'
      BY <1>1, <1>2, <2>2, <3>2
    <3> QED BY <3>3, <3>4
  <2>3. CASE /\ \A entry \in table : entry[1] # NameOf[t]
             /\ takes' = [takes EXCEPT ![t] = "refused"] /\ UNCHANGED <<table, got>>
    <3>1. ASSUME NEW i \in 1..env.count, env.names[i] = NameOf[t] PROVE Taken(NameOf[t])
      <4>1. PICK u \in Threads : got[u] = i
        BY <2>1, <2>3, <3>1
      <4> QED BY <1>1, <1>3, <3>1, <4>1
    <3> QED BY <1>1, <1>2, <2>1, <2>3, <3>1
  <2> QED BY <1>7, <2>2, <2>3 DEF Activation!Take
<1>8. ASSUME NEW t \in Threads, Activation!Configure(t) \/ Activation!ConfigureFails(t) \/ Activation!Drop(t)
      PROVE  KeptForOne' /\ AnnouncedFound'
  <2>1. /\ UNCHANGED <<env, activation, table, got>> /\ Activation!Holds(t)
        /\ \E to \in {"listening", "refused", "dropped"} : takes' = [takes EXCEPT ![t] = to]
    <3>1. CASE Activation!Configure(t) BY <3>1 DEF Activation!Configure, Activation!Holds
    <3>2. CASE Activation!ConfigureFails(t) BY <3>2 DEF Activation!ConfigureFails, Activation!Holds
    <3>3. CASE Activation!Drop(t) BY <3>3 DEF Activation!Drop, Activation!Holds
    <3> QED BY <1>8, <3>1, <3>2, <3>3
  <2>2. got[t] # 0
    BY <1>1, <2>1 DEF Owned
  <2> QED BY <1>1, <1>2, <2>1, <2>2
<1>9. CASE UNCHANGED takeVars
  BY <1>1, <1>2, <1>9 DEF takeVars
<1> QED BY <1>4, <1>5, <1>6, <1>7, <1>8, <1>9 DEF Activation!Next, Activation!Step

(***************************************************************************)
(* The packet-filter guard.                                                *)
(***************************************************************************)
\* What the root process has seen or written of a filter that was ours, it saw when
\* the filter was ours; and the clock never runs ahead of time.
Evidence ==
  /\ filter = "ours" => wasOurs = time
  /\ \A s \in {seen, status} \ {Guard!NoStatus} :
       s.at <= time /\ (s.of = "ours" => s.at <= wasOurs)

\* A check that has read the clock, and has yet to read the file, read it no later than
\* the clock it got and what the clock was set back.
Timed ==
  /\ \A c \in Checks : checks[c] = "timed" => clock[c] <= time /\ began[c] <= clock[c] + setback
  /\ Guard!FreshWhenPassed

\* On a prompt host whose clock was not set, nothing is older than the maximum age and
\* no check waits longer than the skew.
Prompt ==
  prompt /\ setback = 0 =>
    /\ \A s \in {seen, status} \ {Guard!NoStatus} : time <= s.at + MaximumAge
    /\ \A c \in Checks : checks[c] = "timed" => time <= clock[c] + Skew

GuardInv == Guard!TypeOK /\ Evidence /\ Timed /\ Prompt

LEMMA GuardInit == Guard!GuardAssumption /\ Guard!Init => GuardInv
BY DEF Guard!GuardAssumption, Guard!Init, GuardInv, Guard!TypeOK, Guard!Statuses, Guard!NoStatus,
       Evidence, Timed, Guard!FreshWhenPassed, Prompt

LEMMA GuardStep ==
  ASSUME Guard!GuardAssumption, GuardInv, [Guard!Next]_guardVars
  PROVE  GuardInv'
<1> USE DEF Guard!GuardAssumption, GuardInv, Guard!TypeOK, Guard!Statuses, Guard!NoStatus,
            Evidence, Timed, Guard!FreshWhenPassed, Prompt, Guard!Now, Guard!Set, Guard!host
<1>1. ASSUME NEW c \in Checks, Guard!Inspect(c) PROVE GuardInv'
  BY <1>1 DEF Guard!Inspect
<1>2. ASSUME NEW c \in Checks, Guard!ReadClock(c) PROVE GuardInv'
  BY <1>2 DEF Guard!ReadClock
<1>3. ASSUME NEW c \in Checks, Guard!ReadStatus(c) PROVE GuardInv'
  BY <1>3 DEF Guard!ReadStatus, Guard!Acceptable
<1>4. ASSUME NEW c \in Checks, Guard!Again(c) PROVE GuardInv'
  BY <1>4 DEF Guard!Again
<1>5. CASE Guard!Look
  BY <1>5 DEF Guard!Look
<1>6. CASE Guard!Publish
  BY <1>6 DEF Guard!Publish
<1>7. CASE Guard!Tick
  BY <1>7 DEF Guard!Tick
<1>8. CASE Guard!SetBack
  BY <1>8 DEF Guard!SetBack
<1>9. ASSUME NEW to \in {"ours", "theirs", "off"}, Guard!Change(to) PROVE GuardInv'
  BY <1>9 DEF Guard!Change
<1>10. CASE UNCHANGED guardVars
  BY <1>10 DEF guardVars
<1> QED
  BY <1>1, <1>2, <1>3, <1>4, <1>5, <1>6, <1>7, <1>8, <1>9, <1>10 DEF Guard!Next

\* Only a check that reads the file refuses for what is in it, and then it is not ours,
\* or the host is not prompt.
LEMMA RefusalsAreRight ==
  ASSUME Guard!GuardAssumption, GuardInv, [Guard!Next]_guardVars, NEW c \in Checks
  PROVE  Guard!RefusedRightly(c)
<1> USE DEF Guard!GuardAssumption, GuardInv, Guard!TypeOK, Guard!Statuses, Guard!NoStatus, Guard!Set
<1> SUFFICES ASSUME checks[c] = "timed", checks'[c] = "refused",
                    status.of = "ours", setback = 0, prompt
             PROVE  FALSE
  BY DEF Guard!RefusedRightly
<1>1. Guard!ReadStatus(c)
  <2>1. ASSUME NEW d \in Checks, Guard!Inspect(d) \/ Guard!ReadClock(d) \/ Guard!Again(d) PROVE FALSE
    BY <2>1 DEF Guard!Inspect, Guard!ReadClock, Guard!Again
  <2>2. ASSUME NEW d \in Checks, Guard!ReadStatus(d) PROVE d = c
    BY <2>2 DEF Guard!ReadStatus
  <2>3. checks' # checks
    OBVIOUS
  <2> QED
    BY <2>1, <2>2, <2>3
    DEF Guard!Next, guardVars, Guard!Look, Guard!Publish, Guard!Tick, Guard!SetBack, Guard!Change
<1>2. ~ Guard!Acceptable(status, clock[c])
  BY <1>1 DEF Guard!ReadStatus
<1>3. status # Guard!NoStatus /\ clock[c] \in Int /\ status.at \in Int /\ time \in Int
  OBVIOUS
<1>4. status.at <= clock[c] + Skew /\ clock[c] - status.at <= MaximumAge
  BY <1>3 DEF Evidence, Timed, Prompt
<1> QED BY <1>2, <1>4 DEF Guard!Acceptable

(***************************************************************************)
(* The service log.                                                        *)
(***************************************************************************)
\* The types that the steps below work with.
LogTyped ==
  /\ files \in 1..MaxFiles /\ linked \in BOOLEAN /\ badWrites \in 0..MaxBadWrites
  /\ writers \in [Events -> Log!Flushing \cup {"new", "dropped", "done", "lost"}]
  /\ opened \in [Events -> 1..MaxFiles] /\ tries \in [Events -> 0..2]
  /\ lock \in [Processes -> Events \cup {Log!Free}]

Fragment == [ev : Events, part : 1..2]

\* The lock of a process is held by the one event it flushes; an event is flushed at most
\* twice, and a file it opened was the newest.
Locked ==
  /\ \A p \in Processes : lock[p] # Log!Free => ProcOf[lock[p]] = p
  /\ \A e \in Events : writers[e] \in Log!Flushing <=> lock[ProcOf[e]] = e
  /\ \A e \in Events : /\ writers[e] = "new" => tries[e] = 0
                       /\ writers[e] = "dropped" => tries[e] = 1
                       /\ opened[e] <= files
  /\ ~ linked => files < MaxFiles

\* A file that the path names no more, and never will again.
Gone(f) == f < files \/ (f = files /\ ~ linked)

\* An event that was late to a file was of the one flush of its process that had the
\* file open when it was renamed.
LateOnes ==
  \A f \in Log!Files : \A e \in Events : <<f, e>> \in late =>
    /\ Gone(f)
    /\ \A d \in Events :
         /\ ProcOf[d] = ProcOf[e]
         /\ <<f, d>> \in late \/ (writers[d] \in {"opened", "valid", "half"} /\ opened[d] = f)
         => d = e

\* In the log l, of whose places those of t are torn, the last that the process of e
\* wrote to f before place i is a beginning of e that is not torn.
Begun(l, t, e, f, i) ==
  \E j \in 1..i - 1 :
    /\ l[f][j] = Log!Part(e, 1) /\ <<f, j>> \notin t
    /\ \A k \in j + 1..i - 1 : ProcOf[l[f][k].ev] # ProcOf[e]

\* An end follows its beginning, and what is half written waits for its end.
Whole ==
  /\ \A f \in Log!Files : \A i \in 1..Len(log[f]) :
       log[f][i].part = 2 => Begun(log, torn, log[f][i].ev, f, i)
  /\ \A e \in Events :
       writers[e] = "half" => Begun(log, torn, e, opened[e], Len(log[opened[e]]) + 1)

\* Fragment n of e is at place i of file f in the log l, and not of those of t.
At(l, t, e, n, f, i) ==
  f \in Log!Files /\ i \in 1..Len(l[f]) /\ l[f][i] = Log!Part(e, n) /\ <<f, i>> \notin t

\* Fragment n of e is written, and belongs to the one event that is logged.
Has(e, n) == writers[e] = "done" \/ (n = 1 /\ writers[e] = "half")

\* A fragment that an event has is there once, and one that it has not, torn or nowhere.
Once ==
  \A e \in Events, n \in 1..2 :
    /\ ~ Has(e, n) => \A f, i : ~ At(log, torn, e, n, f, i)
    /\ Has(e, n) => \E f, i : /\ At(log, torn, e, n, f, i)
                              /\ \A g, j : At(log, torn, e, n, g, j) => g = f /\ j = i

\* Only beginnings are torn.
TornBeginnings ==
  \A f, i : <<f, i>> \in torn => f \in Log!Files /\ i \in 1..Len(log[f]) /\ log[f][i].part = 1

\* Of each event as many beginnings are torn as flushes of it may have failed.
Left(e) == Log!Copies(e, 1) \cap torn
Failed(e) == IF writers[e] \in Log!Flushing \cup {"done"} THEN tries[e] - 1 ELSE tries[e]
LeftByFailures == \A e \in Events : IsFiniteSet(Left(e)) /\ Cardinality(Left(e)) <= Failed(e)

LogInv ==
  /\ LogTyped /\ Locked /\ LateOnes /\ Whole /\ Once
  /\ torn \subseteq Log!Files \X Nat /\ TornBeginnings /\ LeftByFailures
  /\ log \in [Log!Files -> Seq(Fragment)]
  /\ valid \subseteq Log!Files /\ late \subseteq Log!Files \X Events

\* The types and the locks are what TypeOK says.
LEMMA LogTypeCorrect == Log!LogAssumption /\ LogInv => Log!TypeOK
<1> SUFFICES ASSUME Log!LogAssumption, LogInv PROVE Log!TypeOK
  OBVIOUS
<1>1. ASSUME NEW p \in Processes
      PROVE  {e \in Events : ProcOf[e] = p /\ writers[e] \in Log!Flushing} =
               IF lock[p] = Log!Free THEN {} ELSE {lock[p]}
  BY DEF Log!LogAssumption, LogInv, LogTyped, Locked, Log!Free
<1> QED BY <1>1 DEF LogInv, LogTyped, Log!TypeOK, Log!Files, Fragment

LEMMA LogInit == Log!LogAssumption /\ Log!Init => LogInv
<1> SUFFICES ASSUME Log!LogAssumption, Log!Init PROVE LogInv
  OBVIOUS
<1> USE DEF Log!LogAssumption, Log!Init, Log!Free, Log!Files, Log!Flushing
<1>1. \A f \in Log!Files : log[f] = <<>> /\ Len(log[f]) = 0 /\ log[f] \in Seq(Fragment)
  OBVIOUS
<1>2. LogTyped /\ Locked /\ LateOnes
  BY DEF LogTyped, Locked, LateOnes
<1>3. Whole /\ Once
  BY <1>1 DEF Whole, Once, At, Has
<1>4. torn = {} /\ TornBeginnings
  BY DEF TornBeginnings
<1>5. LeftByFailures
  <2>1. \A e \in Events : Left(e) = {} /\ Failed(e) = 0
    BY <1>4 DEF Left, Failed
  <2> SUFFICES ASSUME NEW e \in Events PROVE IsFiniteSet(Left(e)) /\ Cardinality(Left(e)) <= Failed(e)
    BY DEF LeftByFailures
  <2>2. Left(e) = {} /\ Failed(e) = 0
    BY <2>1
  <2>3. IsFiniteSet({}) /\ Cardinality({}) = 0
    BY FS_EmptySet
  <2>4. IsFiniteSet(Left(e)) /\ Cardinality(Left(e)) = 0
    BY <2>2, <2>3
  <2> QED BY <2>2, <2>4
<1> QED BY <1>1, <1>2, <1>3, <1>4, <1>5 DEF LogInv

\* One event of a process is flushed at a time.
LEMMA OneFlush ==
  ASSUME Locked, NEW d \in Events, NEW e \in Events, ProcOf[d] = ProcOf[e],
         writers[d] \in Log!Flushing, writers[e] \in Log!Flushing
  PROVE  d = e
BY DEF Locked

\* What neither writes nor fails to leaves the log as it is: it begins, goes on with or
\* ends a flush without making it half written or done, or it moves the path.
LEMMA QuietKeeps ==
  ASSUME Whole, Once, TornBeginnings, LeftByFailures, log' = log, torn' = torn,
         \A e \in Events : /\ writers'[e] = "done" <=> writers[e] = "done"
                           /\ writers'[e] = "half" <=> writers[e] = "half"
                           /\ writers'[e] = "half" => opened'[e] = opened[e]
                           /\ Failed(e)' \in Int /\ Failed(e) \in Int /\ Failed(e)' >= Failed(e)
  PROVE  Whole' /\ Once' /\ TornBeginnings' /\ LeftByFailures'
<1>1. Whole'
  BY DEF Whole
<1>2. Once'
  <2>1. \A e \in Events, n \in 1..2 : Has(e, n)' <=> Has(e, n)
    BY DEF Has
  <2> QED BY <2>1 DEF Once
<1>3. TornBeginnings'
  BY DEF TornBeginnings
<1>4. LeftByFailures'
  <2>1. \A e \in Events : Left(e)' = Left(e)
    BY DEF Left, Log!Copies, Log!Places
  <2>2. \A e \in Events : Cardinality(Left(e)) \in Nat
    BY FS_CardinalityType DEF LeftByFailures
  <2> QED BY <2>1, <2>2 DEF LeftByFailures
<1> QED BY <1>1, <1>2, <1>3, <1>4

\* Where the beginnings of e are in f.
LEMMA PlacesOf ==
  ASSUME LogInv, NEW e \in Events, NEW n \in 1..2, NEW f \in Log!Files
  PROVE  /\ \A g, i : <<g, i>> \in Log!Places(e, n, f) <=>
                        g = f /\ i \in 1..Len(log[f]) /\ log[f][i] = Log!Part(e, n)
         /\ Log!Places(e, n, f) \subseteq Log!Files \X Nat
<1>1. DOMAIN log[f] = 1..Len(log[f]) /\ Len(log[f]) \in Nat
  BY DEF LogInv
<1> QED BY <1>1 DEF Log!Places

\* A write that fails leaves no beginning of its event but torn ones, one more at most.
LEMMA FailKeeps ==
  ASSUME Log!LogAssumption, LogInv, NEW e \in Events, Log!WriteFails(e)
  PROVE  /\ Whole' /\ Once' /\ TornBeginnings' /\ LeftByFailures'
         /\ torn' \subseteq Log!Files \X Nat
<1> DEFINE f == opened[e]
           P == Log!Places(e, 1, f)
<1>1. /\ log' = log /\ opened' = opened /\ tries' = tries /\ torn' = torn \cup P
      /\ writers[e] \in {"valid", "half"} /\ f \in Log!Files
      /\ \E to \in {"dropped", "lost"} : writers' = [writers EXCEPT ![e] = to]
      /\ writers \in [Events -> Log!Flushing \cup {"new", "dropped", "done", "lost"}]
  BY DEF LogInv, LogTyped, Log!Files, Log!WriteFails, Log!Errs, Log!Goes, Log!rotation
<1>2. /\ \A g, i : <<g, i>> \in P <=>
                     g = f /\ i \in 1..Len(log[f]) /\ log[f][i] = Log!Part(e, 1)
      /\ P \subseteq Log!Files \X Nat
  BY <1>1, PlacesOf
<1>3. writers'[e] \in {"dropped", "lost"} /\ \A d \in Events \ {e} : writers'[d] = writers[d]
  BY <1>1
<1>4. \A d \in Events, n \in 1..2 : Has(d, n)' <=> d # e /\ Has(d, n)
  BY <1>1, <1>3 DEF Has
<1> HIDE DEF P
<1>5. \A g, i : At(log, torn, e, 1, g, i) => g = f
  <2>1. CASE writers[e] = "valid"
    BY <2>1 DEF LogInv, Once, Has
  <2>2. CASE writers[e] = "half"
    <3>1. Begun(log, torn, e, f, Len(log[f]) + 1) /\ Len(log[f]) \in Nat
      BY <1>1, <2>2 DEF LogInv, Whole
    <3>2. \E j : At(log, torn, e, 1, f, j)
      BY <1>1, <3>1 DEF Begun, At
    <3>3. \E g, i : \A h, j : At(log, torn, e, 1, h, j) => h = g /\ j = i
      BY <2>2 DEF LogInv, Once, Has
    <3> QED BY <3>2, <3>3
  <2> QED BY <1>1, <2>1, <2>2
<1>6. \A g, i : ~ At(log, torn', e, 1, g, i)
  BY <1>1, <1>2, <1>5 DEF At
<1>7. ASSUME NEW d \in Events, NEW n \in 1..2, d # e \/ n = 2, NEW g, NEW i
      PROVE  At(log, torn', d, n, g, i) <=> At(log, torn, d, n, g, i)
  BY <1>1, <1>2, <1>7 DEF At, Log!Part
<1>8. Once'
  <2>1. ASSUME NEW d \in Events, NEW n \in 1..2, ~ Has(d, n)', NEW g, NEW i
        PROVE  ~ At(log, torn', d, n, g, i)
    <3>1. CASE d = e /\ n = 1
      BY <1>6, <3>1
    <3>2. CASE ~ (d = e /\ n = 1)
      <4>1. ~ Has(d, n) /\ (d # e \/ n = 2)
        BY <1>1, <1>4, <2>1, <3>2 DEF Has
      <4>2. ~ At(log, torn, d, n, g, i)
        BY <4>1 DEF LogInv, Once
      <4> QED BY <1>7, <4>1, <4>2
    <3> QED BY <3>1, <3>2
  <2>2. ASSUME NEW d \in Events, NEW n \in 1..2, Has(d, n)'
        PROVE  \E g, i : /\ At(log, torn', d, n, g, i)
                         /\ \A h, j : At(log, torn', d, n, h, j) => h = g /\ j = i
    <3>1. d # e /\ Has(d, n)
      BY <1>4, <2>2
    <3>2. \E g, i : /\ At(log, torn, d, n, g, i)
                    /\ \A h, j : At(log, torn, d, n, h, j) => h = g /\ j = i
      BY <3>1 DEF LogInv, Once
    <3> QED BY <1>7, <3>1, <3>2
  <2>3. log' = log
    BY <1>1
  <2> QED BY <2>1, <2>2, <2>3 DEF Once
<1>9. \A d \in Events : \A g, i : d # e /\ Begun(log, torn, d, g, i) => Begun(log, torn', d, g, i)
  BY <1>1, <1>2 DEF Begun, Log!Part
<1>10. Whole'
  <2>1. ASSUME NEW g \in Log!Files, NEW i \in 1..Len(log[g]), log[g][i].part = 2
        PROVE  Begun(log, torn', log[g][i].ev, g, i)
    <3>1. log[g][i] \in Fragment /\ log[g][i] = Log!Part(log[g][i].ev, 2)
      <4>1. log[g] \in Seq(Fragment)
        BY DEF LogInv
      <4>2. log[g][i] \in Fragment
        BY <4>1
      <4> QED BY <2>1, <4>2 DEF Fragment, Log!Part
    <3>2. <<g, i>> \notin torn
      BY <2>1 DEF LogInv, TornBeginnings
    <3>3. At(log, torn, log[g][i].ev, 2, g, i) /\ log[g][i].ev \in Events
      BY <3>1, <3>2 DEF At, Fragment
    <3>4. log[g][i].ev # e
      BY <1>1, <3>3 DEF LogInv, Once, Has
    <3> QED BY <1>9, <2>1, <3>3, <3>4 DEF LogInv, Whole
  <2>2. ASSUME NEW d \in Events, writers'[d] = "half"
        PROVE  Begun(log, torn', d, opened[d], Len(log[opened[d]]) + 1)
    BY <1>3, <1>9, <2>2 DEF LogInv, Whole
  <2> QED BY <1>1, <2>1, <2>2 DEF Whole
<1>11. TornBeginnings' /\ torn' \subseteq Log!Files \X Nat
  BY <1>1, <1>2 DEF LogInv, TornBeginnings, Log!Part
\* At most one beginning is torn that was not, and it is of e.
<1>12. ASSUME NEW d \in Events PROVE IsFiniteSet(Left(d)') /\ Cardinality(Left(d)') <= Failed(d)'
  <2>1. /\ IsFiniteSet(Left(d)) /\ Cardinality(Left(d)) \in Nat
        /\ Cardinality(Left(d)) <= Failed(d)
    BY FS_CardinalityType DEF LogInv, LeftByFailures
  <2>2. tries[d] \in Nat
    <3>1. tries \in [Events -> 0..2]
      BY DEF LogInv, LogTyped
    <3> QED BY <3>1
  <2>3. Left(d)' = Left(d) \cup (Log!Copies(d, 1) \cap P)
    BY <1>1 DEF Left, Log!Copies, Log!Places
  <2>4. \A g, i : <<g, i>> \in Log!Copies(d, 1) <=>
                    g \in Log!Files /\ i \in 1..Len(log[g]) /\ log[g][i] = Log!Part(d, 1)
    <3>1. \A x : x \in Log!Copies(d, 1) <=> \E h \in Log!Files : x \in Log!Places(d, 1, h)
      BY DEF Log!Copies
    <3>2. 1 \in 1..2
      OBVIOUS
    <3>3. ASSUME NEW h \in Log!Files, NEW g, NEW i
          PROVE  <<g, i>> \in Log!Places(d, 1, h) <=>
                   g = h /\ i \in 1..Len(log[h]) /\ log[h][i] = Log!Part(d, 1)
      BY <3>2, PlacesOf
    <3>4. ASSUME NEW g, NEW i
          PROVE  <<g, i>> \in Log!Copies(d, 1) <=>
                   g \in Log!Files /\ i \in 1..Len(log[g]) /\ log[g][i] = Log!Part(d, 1)
      <4>1. <<g, i>> \in Log!Copies(d, 1) <=> \E h \in Log!Files : <<g, i>> \in Log!Places(d, 1, h)
        BY <3>1
      <4> QED BY <3>3, <4>1
    <3> QED BY <3>4
  <2>5. CASE d # e
    <3>1. Left(d)' = Left(d)
      BY <1>2, <2>3, <2>4, <2>5 DEF Log!Part
    <3>2. Failed(d)' = Failed(d)
      BY <1>1, <1>3, <2>5 DEF Failed
    <3> QED BY <2>1, <3>1, <3>2
  <2>6. CASE d = e
    <3>1. Failed(d) = tries[d] - 1 /\ Failed(d)' = tries[d]
      BY <1>1, <1>3, <2>6 DEF Failed, Log!Flushing
    <3>2. Left(d)' = Left(d) \cup P
      <4>1. P \subseteq Log!Copies(d, 1)
        BY <1>1, <1>2, <2>4, <2>6
      <4> QED BY <2>3, <4>1
    <3>3. ASSUME NEW x \in P \ Left(d), NEW y \in P \ Left(d) PROVE x = y
      <4>1. x = <<x[1], x[2]>> /\ y = <<y[1], y[2]>>
        BY <1>2
      <4>2. At(log, torn, e, 1, x[1], x[2]) /\ At(log, torn, e, 1, y[1], y[2])
        BY <1>1, <1>2, <2>4, <2>6, <4>1 DEF At, Left
      <4>3. Has(e, 1)
        BY <4>2 DEF LogInv, Once
      <4> QED BY <4>1, <4>2, <4>3 DEF LogInv, Once
    <3>4. CASE P \ Left(d) = {}
      <4>1. Left(d)' = Left(d)
        BY <3>2, <3>4
      <4> QED BY <2>1, <2>2, <3>1, <4>1
    <3>5. CASE P \ Left(d) # {}
      <4>1. PICK x : x \in P \ Left(d)
        BY <3>5
      <4>2. Left(d)' = Left(d) \cup {x} /\ x \notin Left(d)
        BY <3>2, <3>3, <4>1
      <4>3. IsFiniteSet(Left(d) \cup {x}) /\ Cardinality(Left(d) \cup {x}) = Cardinality(Left(d)) + 1
        BY <2>1, <4>2, FS_AddElement
      <4> QED BY <2>1, <2>2, <3>1, <4>2, <4>3
    <3> QED BY <3>4, <3>5
  <2> QED BY <2>5, <2>6
<1>13. LeftByFailures'
  BY <1>12 DEF LeftByFailures
<1> QED BY <1>8, <1>10, <1>11, <1>13

\* As long as no event comes to have a file open that is gone, none is late there.
LEMMA QuietLate ==
  ASSUME LogTyped, LateOnes, late' = late,
         \A f \in Log!Files : Gone(f) => Gone(f)',
         \A e \in Events :
           writers'[e] \in {"opened", "valid", "half"} /\ Gone(opened'[e]) =>
             writers[e] \in {"opened", "valid", "half"} /\ opened'[e] = opened[e]
  PROVE  LateOnes'
BY DEF LateOnes

LEMMA QuietSteps ==
  ASSUME Log!LogAssumption, LogInv,
         \/ \E e \in Events : Log!Begin(e) \/ Log!Open(e) \/ Log!Validate(e)
         \/ Log!Rename \/ Log!Create \/ Log!SetMode
  PROVE  LogInv'
<1> DEFINE Quiet ==
      /\ UNCHANGED <<log, late, torn>> /\ LogTyped' /\ Locked' /\ valid' \subseteq Log!Files
      /\ \A f \in Log!Files : Gone(f) => Gone(f)'
      /\ \A e \in Events :
           /\ writers'[e] = "done" <=> writers[e] = "done"
           /\ writers'[e] = "half" <=> writers[e] = "half"
           /\ writers'[e] = "half" => opened'[e] = opened[e]
           /\ Failed(e)' \in Int /\ Failed(e) \in Int /\ Failed(e)' >= Failed(e)
           /\ writers'[e] \in {"opened", "valid", "half"} /\ Gone(opened'[e]) =>
                writers[e] \in {"opened", "valid", "half"} /\ opened'[e] = opened[e]
<1> USE DEF Log!LogAssumption, Log!Goes, Log!Locks, Log!Unlocks, Log!Errs, Log!rotation,
            LogTyped, Locked, Log!Flushing, Log!Free, Log!Files, Gone, Failed
<1>1. LogTyped /\ Locked /\ valid \subseteq Log!Files
  BY DEF LogInv
<1>2. ASSUME NEW e \in Events, Log!Begin(e) PROVE Quiet
  <2> USE <1>1, <1>2 DEF Log!Begin
  <2>1. LogTyped'
    OBVIOUS
  <2>2. Locked'
    OBVIOUS
  <2> QED BY <2>1, <2>2
<1>3. ASSUME NEW e \in Events, Log!Open(e) PROVE Quiet
  <2> USE <1>1, <1>3 DEF Log!Open
  <2>1. LogTyped'
    OBVIOUS
  <2>2. Locked'
    OBVIOUS
  <2> QED BY <2>1, <2>2
<1>4. ASSUME NEW e \in Events, Log!Validate(e) PROVE Quiet
  <2> USE <1>1, <1>4 DEF Log!Validate
  <2>1. LogTyped'
    OBVIOUS
  <2>2. Locked'
    OBVIOUS
  <2> QED BY <2>1, <2>2
<1>6. ASSUME Log!Rename PROVE Quiet
  <2> USE <1>1, <1>6 DEF Log!Rename
  <2>1. LogTyped'
    OBVIOUS
  <2>2. Locked'
    OBVIOUS
  <2> QED BY <2>1, <2>2
<1>7. ASSUME Log!Create PROVE Quiet
  <2> USE <1>1, <1>7 DEF Log!Create
  <2>1. LogTyped'
    OBVIOUS
  <2>2. Locked'
    OBVIOUS
  <2> QED BY <2>1, <2>2
<1>8. ASSUME Log!SetMode PROVE Quiet
  <2> USE <1>1, <1>8 DEF Log!SetMode
  <2>1. LogTyped'
    OBVIOUS
  <2>2. Locked'
    OBVIOUS
  <2> QED BY <2>1, <2>2
<1>9. Quiet
  BY <1>2, <1>3, <1>4, <1>6, <1>7, <1>8
<1>10. Whole' /\ Once' /\ TornBeginnings' /\ LeftByFailures'
  BY <1>9, QuietKeeps DEF LogInv
<1>11. LateOnes'
  BY <1>9, QuietLate DEF LogInv
<1> QED BY <1>9, <1>10, <1>11 DEF LogInv

LEMMA FailStep ==
  ASSUME Log!LogAssumption, LogInv, NEW e \in Events, Log!WriteFails(e)
  PROVE  LogInv'
<1> USE DEF Log!LogAssumption, Log!WriteFails, Log!Goes, Log!Unlocks, Log!Errs, Log!rotation,
            Log!Flushing, Log!Free, Log!Files
<1>1. LogTyped /\ Locked
  BY DEF LogInv
<1>2. LogTyped'
  BY <1>1 DEF LogTyped
<1>3. Locked'
  BY <1>1 DEF LogTyped, Locked
<1>4. LateOnes'
  <2>1. late' = late /\ \A f \in Log!Files : Gone(f)' <=> Gone(f)
    BY DEF Gone
  <2>2. \A d \in Events : writers'[d] \in {"opened", "valid", "half"} =>
                           writers[d] \in {"opened", "valid", "half"} /\ opened'[d] = opened[d]
    BY <1>1 DEF LogTyped
  <2> QED BY <1>1, <2>1, <2>2, QuietLate DEF LogInv
<1>5. Whole' /\ Once' /\ TornBeginnings' /\ LeftByFailures' /\ torn' \subseteq Log!Files \X Nat
  BY FailKeeps
<1> QED BY <1>2, <1>3, <1>4, <1>5 DEF LogInv

\* Appending to a file adds at its end and changes no other.
LEMMA Appended ==
  ASSUME LogInv, NEW f \in Log!Files, NEW parts \in Seq(Fragment),
         log' = [log EXCEPT ![f] = @ \o parts]
  PROVE  /\ log' \in [Log!Files -> Seq(Fragment)]
         /\ Len(log'[f]) = Len(log[f]) + Len(parts)
         /\ \A i \in 1..Len(parts) : log'[f][Len(log[f]) + i] = parts[i]
         /\ \A g \in Log!Files : /\ g # f => log'[g] = log[g]
                                 /\ Len(log'[g]) \in Nat /\ Len(log'[g]) >= Len(log[g])
                                 /\ \A i \in 1..Len(log[g]) : log'[g][i] = log[g][i]
<1>1. log \in [Log!Files -> Seq(Fragment)]
  BY DEF LogInv
<1>2. log'[f] = log[f] \o parts /\ log[f] \in Seq(Fragment)
  BY <1>1
<1>3. /\ log'[f] \in Seq(Fragment) /\ Len(log'[f]) = Len(log[f]) + Len(parts)
      /\ \A i \in 1..Len(log[f]) : log'[f][i] = log[f][i]
      /\ \A i \in 1..Len(parts) : log'[f][Len(log[f]) + i] = parts[i]
  BY <1>2
<1>4. \A g \in Log!Files : log[g] \in Seq(Fragment) /\ (g # f => log'[g] = log[g])
  BY <1>1
<1>5. log' \in [Log!Files -> Seq(Fragment)]
  BY <1>1, <1>3
<1> QED BY <1>2, <1>3, <1>4, <1>5

\* What was begun before some place of a file stays so when the file grows at its end.
LEMMA BegunStays ==
  ASSUME NEW k, NEW l, NEW t, NEW e, NEW f, NEW i \in Nat, Begun(k, t, e, f, i),
         \A j \in 1..i - 1 : l[f][j] = k[f][j]
  PROVE  Begun(l, t, e, f, i)
BY DEF Begun

\* A writer that has the file open appends a whole event, its beginning, or its end once
\* the beginning is there.
Appending(e, parts, to) ==
  /\ writers[e] \in {"valid", "half"}
  /\ Log!Appends(e, parts)
  /\ writers' = [writers EXCEPT ![e] = to]
  /\ UNCHANGED <<files, linked, valid, opened, tries, torn>>
  /\ \/ parts = <<Log!Part(e, 1), Log!Part(e, 2)>> /\ to = "done" /\ writers[e] = "valid"
     \/ parts = <<Log!Part(e, 1)>> /\ to = "half" /\ writers[e] = "valid"
     \/ parts = <<Log!Part(e, 2)>> /\ to = "done" /\ writers[e] = "half"

LEMMA AppendingLate ==
  ASSUME LogInv, NEW e \in Events, NEW parts, NEW to, Appending(e, parts, to)
  PROVE  LateOnes' /\ late' \subseteq Log!Files \X Events
<1> DEFINE f == opened[e]
<1> USE DEF LogInv, LogTyped, Log!Files, Appending
<1>1. f \in Log!Files /\ f <= files
  BY DEF Locked
<1>2. late' \subseteq late \cup {<<f, e>>} /\ (late' # late => Gone(f))
  BY <1>1 DEF Log!Appends, Gone
<1>3. \A d \in Events : writers'[d] \in {"opened", "valid", "half"} =>
                         writers[d] \in {"opened", "valid", "half"}
  OBVIOUS
<1>4. ASSUME NEW g \in Log!Files, NEW a \in Events, <<g, a>> \in late',
             NEW d \in Events, ProcOf[d] = ProcOf[a],
             <<g, d>> \in late' \/ (writers'[d] \in {"opened", "valid", "half"} /\ opened[d] = g)
      PROVE  d = a
  <2>1. CASE <<g, a>> \in late
    BY <1>2, <1>3, <1>4, <2>1 DEF LateOnes
  <2>2. CASE <<g, a>> \notin late
    <3>1. g = f /\ a = e
      BY <1>2, <1>4, <2>2
    <3>2. CASE <<g, d>> \in late
      BY <1>4, <3>1, <3>2 DEF LateOnes
    <3>3. CASE <<g, d>> \notin late
      <4>1. d = e \/ (writers[d] \in Log!Flushing /\ writers[e] \in Log!Flushing)
        BY <1>2, <1>3, <1>4, <3>3 DEF Log!Flushing
      <4> QED BY <1>4, <3>1, <4>1, OneFlush
    <3> QED BY <3>2, <3>3
  <2> QED BY <2>1, <2>2
<1>5. \A g \in Log!Files : \A a \in Events : <<g, a>> \in late' => Gone(g)
  BY <1>2 DEF LateOnes
<1> QED BY <1>1, <1>2, <1>4, <1>5 DEF LateOnes, Gone

LEMMA AppendingKeeps ==
  ASSUME LogInv, NEW e \in Events, NEW parts, NEW to, Appending(e, parts, to)
  PROVE  /\ Whole' /\ Once' /\ TornBeginnings' /\ LeftByFailures'
         /\ log' \in [Log!Files -> Seq(Fragment)]
<1> DEFINE f == opened[e]
           n == Len(log[f])
<1> USE DEF Log!Part
<1>1. /\ f \in Log!Files /\ log \in [Log!Files -> Seq(Fragment)] /\ n \in Nat
      /\ writers \in [Events -> Log!Flushing \cup {"new", "dropped", "done", "lost"}]
  BY DEF LogInv, LogTyped, Log!Files
<1>2. parts \in Seq(Fragment) /\ Len(parts) \in 1..2
  <2>1. CASE parts = <<Log!Part(e, 1), Log!Part(e, 2)>>
    BY <2>1 DEF Fragment
  <2>2. CASE parts = <<Log!Part(e, 1)>>
    BY <2>2 DEF Fragment
  <2>3. CASE parts = <<Log!Part(e, 2)>>
    BY <2>3 DEF Fragment
  <2> QED BY <2>1, <2>2, <2>3 DEF Appending
<1>2a. n \in Nat /\ Len(parts) \in 1..2
  BY <1>1, <1>2
<1>3. log' = [log EXCEPT ![f] = @ \o parts]
  BY DEF Appending, Log!Appends
<1>4. /\ log' \in [Log!Files -> Seq(Fragment)]
      /\ Len(log'[f]) = n + Len(parts)
      /\ \A i \in 1..Len(parts) : log'[f][n + i] = parts[i]
      /\ \A g \in Log!Files : /\ g # f => log'[g] = log[g]
                              /\ Len(log'[g]) \in Nat /\ Len(log'[g]) >= Len(log[g])
                              /\ \A i \in 1..Len(log[g]) : log'[g][i] = log[g][i]
  BY <1>1, <1>2, <1>3, Appended
<1>5. \A g \in Log!Files : Len(log[g]) \in Nat
  BY <1>1
<1>6. \A i \in 1..Len(parts) : parts[i].ev = e
  BY DEF Appending
<1>7. /\ opened' = opened /\ torn' = torn /\ tries' = tries /\ writers' = [writers EXCEPT ![e] = to]
      /\ writers[e] \in Log!Flushing /\ writers[e] # "done"
  BY DEF Appending, Log!Flushing
\* What is appended is not torn.
<1>7a. \A i \in 1..Len(parts) : <<f, n + i>> \notin torn
  <2>1. \A i \in 1..Len(parts) : ~ (n + i \in 1..n)
    <3> HIDE DEF n
    <3> QED BY <1>2a
  <2> QED BY <2>1 DEF LogInv, TornBeginnings
\* An end among the new fragments follows its beginning.
<1>8. ASSUME NEW i \in 1..Len(parts), parts[i].part = 2
      PROVE  Begun(log', torn, e, f, n + i)
  <2>1. CASE parts = <<Log!Part(e, 1), Log!Part(e, 2)>>
    <3>1. i = 2 /\ 1 \in 1..Len(parts) /\ parts[1] = Log!Part(e, 1)
      BY <1>8, <2>1
    <3>2. log'[f][n + 1] = Log!Part(e, 1) /\ <<f, n + 1>> \notin torn
      BY <1>4, <1>7a, <3>1
    <3>3. n + 1 \in 1..(n + 2) - 1 /\ \A k : ~ (k \in (n + 1) + 1..(n + 2) - 1)
      <4> HIDE DEF n
      <4> QED BY <1>2a
    <3> QED BY <3>1, <3>2, <3>3 DEF Begun
  <2>2. CASE parts = <<Log!Part(e, 2)>> /\ writers[e] = "half"
    <3>1. i = 1 /\ Begun(log, torn, e, f, n + 1)
      BY <2>2 DEF LogInv, Whole
    <3>2. n + 1 \in Nat /\ \A j \in 1..(n + 1) - 1 : log'[f][j] = log[f][j]
      BY <1>1, <1>4
    <3>3. Begun(log', torn, e, f, n + 1)
      BY <3>1, <3>2, BegunStays
    <3> QED BY <3>1, <3>3
  <2>3. CASE parts = <<Log!Part(e, 1)>>
    BY <1>8, <2>3
  <2> QED BY <2>1, <2>2, <2>3 DEF Appending
<1>9. ASSUME NEW g \in Log!Files, NEW i \in 1..Len(log'[g]), log'[g][i].part = 2
      PROVE  Begun(log', torn, log'[g][i].ev, g, i)
  <2>1. CASE i <= Len(log[g])
    <3>1. i \in 1..Len(log[g]) /\ log'[g][i] = log[g][i]
      BY <1>4, <1>5, <2>1
    <3>2. Begun(log, torn, log'[g][i].ev, g, i)
      BY <1>9, <3>1 DEF LogInv, Whole
    <3>3. \A j \in 1..i - 1 : log'[g][j] = log[g][j]
      BY <1>4, <1>5, <3>1
    <3> QED BY <3>1, <3>2, <3>3, BegunStays
  <2>2. CASE ~ (i <= Len(log[g]))
    <3>1. g = f /\ i - n \in 1..Len(parts) /\ i = n + (i - n)
      BY <1>1, <1>2, <1>4, <1>5, <2>2
    <3>2. log'[g][i] = parts[i - n]
      BY <1>4, <3>1
    <3> QED BY <1>6, <1>8, <1>9, <3>1, <3>2
  <2> QED BY <1>4, <1>5, <2>1, <2>2
\* What another process has half written in the file is not touched, and of one process
\* only one event is flushed.
<1>10. ASSUME NEW d \in Events, writers'[d] = "half"
       PROVE  Begun(log', torn, d, opened[d], Len(log'[opened[d]]) + 1)
  <2>1. CASE d = e
    <3>1. parts = <<Log!Part(e, 1)>>
      BY <1>1, <1>7, <1>10, <2>1 DEF Appending
    <3>2. Len(parts) = 1 /\ parts[1] = Log!Part(e, 1)
      BY <3>1
    <3>3. /\ log'[f][n + 1] = Log!Part(e, 1) /\ Len(log'[f]) = n + 1
          /\ <<f, n + 1>> \notin torn
      BY <1>4, <1>7a, <3>2
    <3>4. Begun(log', torn, e, f, (n + 1) + 1)
      <4>1. /\ n + 1 \in 1..((n + 1) + 1) - 1
            /\ \A k : ~ (k \in (n + 1) + 1..((n + 1) + 1) - 1)
        <5> HIDE DEF n
        <5> QED BY <1>2a
      <4> QED BY <3>3, <4>1 DEF Begun
    <3> QED BY <2>1, <3>3, <3>4
  <2>2. CASE d # e
    <3>1. writers[d] = "half" /\ ProcOf[d] # ProcOf[e]
      BY <1>1, <1>7, <1>10, <2>2, OneFlush DEF LogInv, Log!Flushing
    <3> DEFINE g == opened[d]
    <3>2. Begun(log, torn, d, g, Len(log[g]) + 1) /\ g \in Log!Files
      BY <3>1 DEF LogInv, Whole, LogTyped, Log!Files
    <3>3. PICK j \in 1..Len(log[g]) :
            /\ log[g][j] = Log!Part(d, 1) /\ <<g, j>> \notin torn
            /\ \A k \in j + 1..Len(log[g]) : ProcOf[log[g][k].ev] # ProcOf[d]
      BY <1>5, <3>2 DEF Begun
    <3>4. /\ Len(log[g]) \in Nat /\ Len(log'[g]) \in Nat /\ Len(log'[g]) >= Len(log[g])
          /\ \A k \in 1..Len(log[g]) : log'[g][k] = log[g][k]
      BY <1>4, <1>5, <3>2
    <3>5. ASSUME NEW k \in Len(log[g]) + 1..Len(log'[g]) PROVE ProcOf[log'[g][k].ev] # ProcOf[d]
      <4>1. g = f
        BY <1>4, <1>5, <3>2
      <4>2. k \in n + 1..n + Len(parts)
        BY <1>4, <4>1
      <4>3. k - n \in 1..Len(parts) /\ k = n + (k - n)
        BY <1>1, <1>2, <4>2
      <4>4. log'[g][k] = parts[k - n]
        BY <1>4, <4>1, <4>3
      <4> QED BY <1>6, <3>1, <4>3, <4>4
    <3>6. ASSUME NEW k \in j + 1..Len(log'[g]) PROVE ProcOf[log'[g][k].ev] # ProcOf[d]
      <4>1. CASE k <= Len(log[g])
        BY <3>3, <3>4, <4>1
      <4>2. CASE ~ (k <= Len(log[g]))
        BY <3>4, <3>5, <4>2
      <4> QED BY <4>1, <4>2
    <3>7. /\ j \in 1..(Len(log'[g]) + 1) - 1 /\ log'[g][j] = Log!Part(d, 1)
          /\ <<g, j>> \notin torn
      BY <3>3, <3>4
    <3>8. \A k \in j + 1..(Len(log'[g]) + 1) - 1 : ProcOf[log'[g][k].ev] # ProcOf[d]
      BY <3>4, <3>6
    <3> QED BY <3>7, <3>8 DEF Begun
  <2> QED BY <2>1, <2>2
<1>11. Whole'
  BY <1>7, <1>9, <1>10 DEF Whole
\* Of other events nothing is added, and of e what it had not.
<1> DEFINE Adds(m, i) == \E k \in 1..Len(parts) : parts[k].part = m /\ i = n + k
<1>12. ASSUME NEW d \in Events, NEW m \in 1..2, NEW g, NEW i
       PROVE  At(log', torn, d, m, g, i) <=>
                At(log, torn, d, m, g, i) \/ (d = e /\ g = f /\ Adds(m, i))
  <2>1. CASE g \in Log!Files /\ i \in 1..Len(log[g])
    <3>1. log'[g][i] = log[g][i] /\ i \in 1..Len(log'[g])
      BY <1>4, <1>5, <2>1
    <3>2. ~ (g = f /\ Adds(m, i))
      <4>1. g = f => i \in 1..n
        BY <2>1
      <4>2. \A k \in 1..Len(parts) : ~ (n + k \in 1..n)
        <5> HIDE DEF n
        <5> QED BY <1>2a
      <4> QED BY <4>1, <4>2
    <3> QED BY <2>1, <3>1, <3>2 DEF At
  <2>2. CASE g = f /\ \E k \in 1..Len(parts) : i = n + k
    <3>1. PICK k \in 1..Len(parts) : i = n + k
      BY <2>2
    <3>2. log'[f][i] = parts[k] /\ <<f, i>> \notin torn
      BY <1>4, <1>7a, <3>1
    <3>3. /\ i \in 1..n + Len(parts) /\ ~ (i \in 1..n)
          /\ \A h \in 1..Len(parts) : i = n + h => h = k
      <4> HIDE DEF n
      <4> QED BY <1>2a, <3>1
    <3>4. parts[k] = Log!Part(d, m) <=> d = e /\ parts[k].part = m
      <4>1. CASE parts = <<Log!Part(e, 1), Log!Part(e, 2)>>
        BY <3>1, <4>1
      <4>2. CASE parts = <<Log!Part(e, 1)>>
        BY <3>1, <4>2
      <4>3. CASE parts = <<Log!Part(e, 2)>>
        BY <3>1, <4>3
      <4> QED BY <4>1, <4>2, <4>3 DEF Appending
    <3>5. ~ At(log, torn, d, m, g, i)
      BY <2>2, <3>3 DEF At
    <3>6. At(log', torn, d, m, g, i) <=> d = e /\ parts[k].part = m
      BY <1>1, <1>4, <2>2, <3>2, <3>3, <3>4 DEF At
    <3>7. Adds(m, i) <=> parts[k].part = m
      BY <3>1, <3>3
    <3> QED BY <2>2, <3>5, <3>6, <3>7
  <2>3. CASE ~ (g \in Log!Files /\ i \in 1..Len(log'[g]))
    <3>1. ~ At(log', torn, d, m, g, i)
      BY <2>3 DEF At
    <3>2. ~ At(log, torn, d, m, g, i)
      BY <1>4, <1>5, <2>3 DEF At
    <3>3. ~ (g = f /\ Adds(m, i))
      <4>1. \A k \in 1..Len(parts) : n + k \in 1..n + Len(parts)
        <5> HIDE DEF n
        <5> QED BY <1>2a
      <4> QED BY <1>1, <1>4, <2>3, <4>1
    <3> QED BY <3>1, <3>2, <3>3
  <2>4. CASE /\ g \in Log!Files /\ i \in 1..Len(log'[g]) /\ ~ (i \in 1..Len(log[g]))
             /\ ~ (g = f /\ \E k \in 1..Len(parts) : i = n + k)
    <3>1. g = f
      BY <1>4, <2>4
    <3>2. i \in 1..n + Len(parts) /\ ~ (i \in 1..n)
      BY <1>4, <2>4, <3>1
    <3>3. i - n \in 1..Len(parts) /\ i = n + (i - n)
      <4> HIDE DEF n
      <4> QED BY <1>2a, <3>2
    <3> QED BY <2>4, <3>1, <3>3
  <2> QED BY <2>1, <2>2, <2>3, <2>4
<1>13. ASSUME NEW m \in 1..2
       PROVE  /\ ~ Has(e, m)' => \A i : ~ Adds(m, i) /\ ~ Has(e, m)
              /\ Has(e, m)' => \/ Has(e, m) /\ \A i : ~ Adds(m, i)
                               \/ ~ Has(e, m) /\ \E j : \A i : Adds(m, i) <=> i = j
  <2> HIDE DEF n
  <2>1. writers'[e] = to
    BY <1>1, <1>7
  <2>2. CASE parts = <<Log!Part(e, 1), Log!Part(e, 2)>> /\ to = "done" /\ writers[e] = "valid"
    <3>1. \A i : Adds(m, i) <=> i = n + m
      BY <2>2
    <3> QED BY <2>1, <2>2, <3>1 DEF Has
  <2>3. CASE parts = <<Log!Part(e, 1)>> /\ to = "half" /\ writers[e] = "valid"
    <3>1. \A i : Adds(m, i) <=> m = 1 /\ i = n + 1
      BY <2>3
    <3> QED BY <2>1, <2>3, <3>1 DEF Has
  <2>4. CASE parts = <<Log!Part(e, 2)>> /\ to = "done" /\ writers[e] = "half"
    <3>1. \A i : Adds(m, i) <=> m = 2 /\ i = n + 1
      BY <2>4
    <3> QED BY <2>1, <2>4, <3>1 DEF Has
  <2> QED BY <2>2, <2>3, <2>4 DEF Appending
<1>14. \A d \in Events \ {e}, m \in 1..2 : Has(d, m)' <=> Has(d, m)
  BY <1>1, <1>7 DEF Has
<1> HIDE DEF Adds
<1>15. Once'
  <2>1. ASSUME NEW d \in Events, NEW m \in 1..2, ~ Has(d, m)', NEW g, NEW i
        PROVE  ~ At(log', torn, d, m, g, i)
    <3>1. ~ Has(d, m) /\ (d = e => ~ Adds(m, i))
      BY <1>13, <1>14, <2>1
    <3> QED BY <1>12, <3>1 DEF LogInv, Once
  <2>2. ASSUME NEW d \in Events, NEW m \in 1..2, Has(d, m)'
        PROVE  \E g, i : /\ At(log', torn, d, m, g, i)
                         /\ \A h, j : At(log', torn, d, m, h, j) => h = g /\ j = i
    <3>1. CASE Has(d, m) /\ \A i : d = e => ~ Adds(m, i)
      <4>1. \A g, i : At(log', torn, d, m, g, i) <=> At(log, torn, d, m, g, i)
        BY <1>12, <3>1
      <4>2. \E g, i : /\ At(log, torn, d, m, g, i)
                      /\ \A h, j : At(log, torn, d, m, h, j) => h = g /\ j = i
        BY <3>1 DEF LogInv, Once
      <4> QED BY <4>1, <4>2
    <3>2. CASE d = e /\ ~ Has(d, m)
      <4>1. PICK j : \A i : Adds(m, i) <=> i = j
        BY <1>13, <2>2, <3>2
      <4>2. \A g, i : At(log', torn, d, m, g, i) <=> g = f /\ i = j
        BY <1>12, <3>2, <4>1 DEF LogInv, Once
      <4> QED BY <4>2
    <3> QED BY <1>13, <1>14, <2>2, <3>1, <3>2
  <2> QED BY <1>7, <2>1, <2>2 DEF Once
<1>16. TornBeginnings'
  BY <1>4, <1>5, <1>7 DEF LogInv, TornBeginnings
<1>17. LeftByFailures'
  <2>1. ASSUME NEW d \in Events PROVE Left(d)' = Left(d)
    <3>1. \A g \in Log!Files : DOMAIN log[g] = 1..Len(log[g]) /\ DOMAIN log'[g] = 1..Len(log'[g])
      BY <1>1, <1>4
    <3>2. \A g, i : <<g, i>> \in torn =>
                      (<<g, i>> \in Log!Copies(d, 1)' <=> <<g, i>> \in Log!Copies(d, 1))
      BY <1>4, <1>5, <3>1 DEF LogInv, TornBeginnings, Log!Copies, Log!Places
    <3>3. \A x \in torn : x = <<x[1], x[2]>>
      BY DEF LogInv
    <3> QED BY <1>7, <3>2, <3>3 DEF Left
  <2>2. \A d \in Events : Failed(d)' = Failed(d)
    BY <1>1, <1>7 DEF Failed, Log!Flushing, Appending
  <2> QED BY <2>1, <2>2 DEF LogInv, LeftByFailures
<1> QED BY <1>4, <1>11, <1>15, <1>16, <1>17

\* Write, WriteShort and WriteRest append, under the lock of the process.
LEMMA WriteSteps ==
  ASSUME Log!LogAssumption, LogInv, NEW e \in Events,
         Log!Write(e) \/ Log!WriteShort(e) \/ Log!WriteRest(e)
  PROVE  LogInv'
<1> USE DEF Log!LogAssumption, Log!Goes, Log!Unlocks, Log!Completes, Log!rotation
<1>1. PICK parts, to : Appending(e, parts, to)
  <2>1. CASE Log!Write(e)
    <3>1. Appending(e, <<Log!Part(e, 1), Log!Part(e, 2)>>, "done")
      BY <2>1 DEF Log!Write, Appending
    <3> QED BY <3>1
  <2>2. CASE Log!WriteShort(e)
    <3>1. Appending(e, <<Log!Part(e, 1)>>, "half")
      BY <2>2 DEF Log!WriteShort, Appending
    <3> QED BY <3>1
  <2>3. CASE Log!WriteRest(e)
    <3>1. Appending(e, <<Log!Part(e, 2)>>, "done")
      BY <2>3 DEF Log!WriteRest, Appending
    <3> QED BY <3>1
  <2> QED BY <2>1, <2>2, <2>3
<1>2. LogTyped /\ Locked
  BY DEF LogInv
<1>3. LogTyped'
  BY <1>2 DEF LogTyped, Log!Write, Log!WriteShort, Log!WriteRest, Log!Flushing, Log!Free
<1>4. Locked'
  <2>1. CASE Log!Write(e) \/ Log!WriteRest(e)
    BY <1>2, <2>1 DEF LogTyped, Locked, Log!Write, Log!WriteRest, Log!Flushing, Log!Free
  <2>2. CASE Log!WriteShort(e)
    BY <1>2, <2>2 DEF LogTyped, Locked, Log!WriteShort, Log!Flushing, Log!Free
  <2> QED BY <2>1, <2>2
<1>5. valid' \subseteq Log!Files /\ torn' \subseteq Log!Files \X Nat
  BY <1>1 DEF LogInv, Appending
<1> QED BY <1>1, <1>3, <1>4, <1>5, AppendingLate, AppendingKeeps DEF LogInv

LEMMA LogStep ==
  ASSUME Log!LogAssumption, LogInv, [Log!Next]_logVars
  PROVE  LogInv'
<1>1. CASE UNCHANGED logVars
  BY <1>1 DEF logVars, LogInv, LogTyped, Locked, LateOnes, Gone, Whole, Once, Has,
              TornBeginnings, LeftByFailures, Left, Failed, Log!Copies, Log!Places
<1>2. CASE Log!Next
  BY <1>2, QuietSteps, FailStep, WriteSteps DEF Log!Next, Log!Step
<1> QED BY <1>1, <1>2

\* What the invariant says of the log, as LogFaithful does.
LEMMA LogInvFaithful == LogInv => LogFaithful
<1> SUFFICES ASSUME LogInv PROVE LogFaithful
  OBVIOUS
<1>1. \A f \in Log!Files : Len(log[f]) \in Nat /\ DOMAIN log[f] = 1..Len(log[f])
  BY DEF LogInv
<1>2. ASSUME NEW f \in Log!Files, NEW j \in 1..Len(log[f])
      PROVE  log[f][j] = Log!Part(log[f][j].ev, log[f][j].part) /\ log[f][j] \in Fragment
  <2>1. log[f] \in Seq(Fragment)
    BY DEF LogInv
  <2>2. log[f][j] \in Fragment
    BY <2>1
  <2> QED BY <2>2 DEF Fragment, Log!Part
\* An end follows directly on its beginning.
<1>3. ASSUME NEW f \in Log!Files, NEW j \in 1..Len(log[f]), log[f][j].part = 2
      PROVE  \E i \in 1..j - 1 : /\ Log!Succeeds(f, i, j) /\ <<f, i>> \notin torn
                                 /\ log[f][i] = Log!Part(log[f][j].ev, 1)
  <2>1. PICK i \in 1..j - 1 :
          /\ log[f][i] = Log!Part(log[f][j].ev, 1) /\ <<f, i>> \notin torn
          /\ \A k \in i + 1..j - 1 : ProcOf[log[f][k].ev] # ProcOf[log[f][j].ev]
    BY <1>3 DEF LogInv, Whole, Begun
  <2>2. Log!Succeeds(f, i, j)
    BY <1>1, <2>1 DEF Log!Succeeds, Log!Part
  <2> QED BY <2>1, <2>2
\* On a beginning that is not torn nothing follows but its end.
<1>4. ASSUME NEW f \in Log!Files, NEW j \in 1..Len(log[f]), log[f][j].part = 1,
             NEW i \in 1..j - 1, Log!Succeeds(f, i, j)
      PROVE  log[f][i].part = 2 \/ <<f, i>> \in torn
  <2> SUFFICES ASSUME log[f][i].part # 2, <<f, i>> \notin torn PROVE FALSE
    OBVIOUS
  <2> DEFINE e == log[f][i].ev
  <2>1. i \in 1..Len(log[f]) /\ log[f][i] = Log!Part(e, 1) /\ e \in Events
    BY <1>1, <1>2 DEF Fragment
  <2>2. At(log, torn, e, 1, f, i)
    BY <2>1 DEF At
  <2>3. \A h, k : At(log, torn, e, 1, h, k) => h = f /\ k = i
    BY <2>1, <2>2 DEF LogInv, Once
  <2>4. Has(e, 1)
    BY <2>1, <2>2 DEF LogInv, Once
  <2>5. /\ ProcOf[log[f][j].ev] = ProcOf[e]
        /\ \A k \in i + 1..j - 1 : ProcOf[log[f][k].ev] # ProcOf[e]
    BY <1>4 DEF Log!Succeeds
  <2>6. CASE writers[e] = "half"
    <3> DEFINE g == opened[e]
    <3>1. g \in Log!Files /\ Begun(log, torn, e, g, Len(log[g]) + 1)
      BY <2>1, <2>6 DEF LogInv, Whole, LogTyped, Log!Files
    <3>2. PICK b \in 1..Len(log[g]) :
            /\ log[g][b] = Log!Part(e, 1) /\ <<g, b>> \notin torn
            /\ \A k \in b + 1..Len(log[g]) : ProcOf[log[g][k].ev] # ProcOf[e]
      <4>1. Len(log[g]) \in Nat /\ (Len(log[g]) + 1) - 1 = Len(log[g])
        BY <1>1, <3>1
      <4> QED BY <3>1, <4>1 DEF Begun
    <3>3. g = f /\ b = i
      BY <2>3, <3>1, <3>2 DEF At
    <3> QED BY <1>1, <2>5, <3>2, <3>3
  <2>7. CASE writers[e] = "done"
    <3>1. PICK g, k : At(log, torn, e, 2, g, k)
      BY <2>1, <2>7 DEF LogInv, Once, Has
    <3>2. g \in Log!Files /\ k \in 1..Len(log[g]) /\ log[g][k].part = 2 /\ log[g][k].ev = e
      BY <3>1 DEF At, Log!Part
    <3>3. PICK b \in 1..k - 1 : /\ log[g][b] = Log!Part(e, 1) /\ <<g, b>> \notin torn
                               /\ \A x \in b + 1..k - 1 : ProcOf[log[g][x].ev] # ProcOf[e]
      <4>1. Begun(log, torn, e, g, k)
        BY <3>2 DEF LogInv, Whole
      <4> QED BY <4>1 DEF Begun
    <3>4. b \in 1..Len(log[g])
      BY <1>1, <3>2
    <3>5. g = f /\ b = i
      BY <2>3, <3>2, <3>3, <3>4 DEF At
    <3>6. ~ (j \in i + 1..k - 1) /\ ~ (k \in i + 1..j - 1) /\ j # k
      BY <1>4, <2>5, <3>2, <3>3, <3>5
    <3> QED BY <1>1, <3>2, <3>5, <3>6
  <2> QED BY <2>4, <2>6, <2>7 DEF Has
<1>5. Log!Contiguous
  BY <1>3, <1>4 DEF Log!Contiguous
<1>5a. Log!LinesWhole
  <2> SUFFICES ASSUME NEW f \in Log!Files, NEW i \in 1..Len(log[f]),
                      i > 1 => /\ <<f, i - 1>> \notin torn
                               /\ ProcOf[log[f][i - 1].ev] = ProcOf[log[f][i].ev]
               PROVE  Log!JoinsLine(f, i)
    BY <1>1 DEF Log!LinesWhole
  <2>1. CASE log[f][i].part = 1
    <3>1. ASSUME i > 1 PROVE log[f][i - 1].part = 2
      <4>1. i - 1 \in 1..i - 1 /\ Log!Succeeds(f, i - 1, i)
        BY <1>1, <3>1 DEF Log!Succeeds
      <4> QED BY <1>4, <2>1, <3>1, <4>1
    <3> QED BY <2>1, <3>1 DEF Log!JoinsLine
  <2>2. CASE log[f][i].part = 2
    <3>1. PICK h \in 1..i - 1 : /\ Log!Succeeds(f, h, i)
                               /\ log[f][h] = Log!Part(log[f][i].ev, 1)
      BY <1>3, <2>2
    <3>2. i > 1 /\ ~ (i - 1 \in h + 1..i - 1)
      BY <1>1, <3>1 DEF Log!Succeeds
    <3>3. h = i - 1
      BY <1>1, <3>1, <3>2
    <3> QED BY <2>2, <3>1, <3>2, <3>3 DEF Log!JoinsLine
  <2> QED BY <1>2, <2>1, <2>2 DEF Fragment
<1>7. ASSUME NEW e \in Events, NEW n \in 1..2
      PROVE  /\ \A f, i : <<f, i>> \in Log!Copies(e, n) \ torn <=> At(log, torn, e, n, f, i)
             /\ \A c \in Log!Copies(e, n) : c = <<c[1], c[2]>>
  BY <1>1 DEF Log!Copies, Log!Places, At
<1>8. ASSUME NEW e \in Events, NEW n \in 1..2
      PROVE  Cardinality(Log!Copies(e, n) \ torn) = IF Has(e, n) THEN 1 ELSE 0
  <2>1. CASE ~ Has(e, n)
    <3>1. Log!Copies(e, n) \ torn = {}
      BY <1>7, <2>1 DEF LogInv, Once
    <3> QED BY <2>1, <3>1, FS_EmptySet
  <2>2. CASE Has(e, n)
    <3>1. PICK f, i : /\ At(log, torn, e, n, f, i)
                      /\ \A g, j : At(log, torn, e, n, g, j) => g = f /\ j = i
      BY <2>2 DEF LogInv, Once
    <3>2. Log!Copies(e, n) \ torn = {<<f, i>>}
      BY <1>7, <3>1
    <3> QED BY <2>2, <3>2, FS_Singleton
  <2> QED BY <2>1, <2>2
<1>9. \A e \in Events : Log!Copies(e, 2) \ torn = Log!Copies(e, 2)
  <2> SUFFICES ASSUME NEW e \in Events, NEW c \in Log!Copies(e, 2) PROVE c \notin torn
    OBVIOUS
  <2>1. c = <<c[1], c[2]>> /\ log[c[1]][c[2]].part = 2
    BY DEF Log!Copies, Log!Places, Log!Part
  <2> QED BY <2>1 DEF LogInv, TornBeginnings
<1>10. Log!LoggedOnce
  <2> SUFFICES ASSUME NEW e \in Events
               PROVE  /\ Cardinality(Log!Copies(e, 2)) = IF writers[e] = "done" THEN 1 ELSE 0
                      /\ Cardinality(Log!Copies(e, 1) \ torn) =
                           IF writers[e] \in {"half", "done"} THEN 1 ELSE 0
                      /\ Cardinality(Log!Copies(e, 1) \cap torn) <=
                           IF writers[e] \in Log!Flushing \cup {"done"} THEN tries[e] - 1
                           ELSE tries[e]
    BY SameCardinality DEF Log!LoggedOnce
  <2>0. /\ Has(e, 2) <=> writers[e] = "done"
        /\ Has(e, 1) <=> writers[e] \in {"half", "done"}
    BY DEF Has
  <2>1. Cardinality(Log!Copies(e, 2)) = IF writers[e] = "done" THEN 1 ELSE 0
    <3>1. Cardinality(Log!Copies(e, 2) \ torn) = IF Has(e, 2) THEN 1 ELSE 0
      <4>1. 2 \in 1..2
        OBVIOUS
      <4> QED BY <1>8, <4>1, Zenon
    <3> QED BY <1>9, <2>0, <3>1
  <2>2. Cardinality(Log!Copies(e, 1) \ torn) = IF writers[e] \in {"half", "done"} THEN 1 ELSE 0
    <3>1. Cardinality(Log!Copies(e, 1) \ torn) = IF Has(e, 1) THEN 1 ELSE 0
      <4>1. 1 \in 1..2
        OBVIOUS
      <4> QED BY <1>8, <4>1, Zenon
    <3> QED BY <2>0, <3>1
  <2> QED BY <2>1, <2>2 DEF LogInv, LeftByFailures, Left, Failed
<1>6. ASSUME NEW f \in Log!Files, NEW p \in Processes
      PROVE  Cardinality({e \in Events : ProcOf[e] = p /\ <<f, e>> \in late}) <= 1
  <2> DEFINE L == {e \in Events : ProcOf[e] = p /\ <<f, e>> \in late}
  <2>1. ASSUME NEW a \in L, NEW b \in L PROVE a = b
    <3>1. LateOnes
      BY DEF LogInv
    <3>2. <<f, a>> \in late /\ <<f, b>> \in late /\ ProcOf[a] = ProcOf[b]
      OBVIOUS
    <3> QED BY <3>1, <3>2 DEF LateOnes
  <2> HIDE DEF L
  <2>2. Cardinality(L) <= 1
    <3>1. L = {} => Cardinality(L) = 0
      BY FS_EmptySet
    <3>2. ASSUME NEW a \in L PROVE Cardinality(L) = 1
      <4>1. L = {a}
        BY <2>1
      <4> QED BY <4>1, FS_Singleton
    <3> QED BY <3>1, <3>2
  <2> QED BY <2>2 DEF L
<1>11. Log!LateBounded
  BY <1>6, SameCardinality DEF Log!LateBounded
<1> QED BY <1>5, <1>5a, <1>10, <1>11 DEF LogFaithful, Log!LogFaithful

(***************************************************************************)
(* The socket that a service binds itself.                                 *)
(***************************************************************************)
\* Two starts of one pid are never at work or serving together.
Alive == Working \cup {"serving"}
PidsApart ==
  \A r, s \in Starts : state[r] \in Alive /\ state[s] \in Alive /\ PidOf[r] = PidOf[s] => r = s

\* A start is ready before it is published, and its own temporary name holds it only
\* from its bind to its publication or its clean-up.
ReadyFirst == \A s \in Starts : state[s] \in {"ready", "published", "serving"} => s \in ready
Linked ==
  \A s \in Starts :
    /\ state[s] \in {"bound", "ready"} => dir[Temp(s)] = s
    /\ state[s] \notin {"bound", "ready", "cleanup", "dead"} => dir[Temp(s)] # s

InOrder == PidsApart /\ ReadyFirst /\ Linked /\ OnlyReadyPublished

\* Of serialized starts one works at a time; once it has found the path free nobody
\* serves, and what it publishes stays.
Alone ==
  serialized =>
    /\ \A r, s \in Starts : state[r] \in Working /\ state[s] \in Working => r = s
    /\ \A r, s \in Starts :
         state[r] \in {"remove", "check", "bind", "bound", "ready", "published"} =>
           state[s] # "serving"
    /\ \A s \in Starts : state[s] \in {"published", "serving"} => dir["path"] = s

BindInv == TypeOK /\ InOrder /\ Alone

LEMMA BindInit == BindAssumption /\ Init => BindInv
<1> SUFFICES ASSUME BindAssumption, Init PROVE BindInv
  OBVIOUS
<1> USE DEF BindAssumption, Init, Old, None, Names, Temp, Working, Ended
<1>2. PidsApart /\ ReadyFirst
  BY DEF PidsApart, ReadyFirst, Alive
<1>3. PICK there \in {None, Old} : dir = [n \in Names |-> IF n = "path" THEN there ELSE None]
  OBVIOUS
<1>4. dir["path"] \in {None, Old} /\ \A n \in Pids : dir[n] = None
  BY <1>3
<1>1. TypeOK
  <2>1. dir \in [Names -> Starts \cup {Old, None}]
    BY <1>3
  <2>2. listens = {s \in Starts : state[s] \in {"bound", "ready", "published", "serving"}}
    OBVIOUS
  <2>3. state \in [Starts -> {"new", "serving"} \cup Working \cup Ended]
    OBVIOUS
  <2> QED BY <2>1, <2>2, <2>3 DEF TypeOK
<1>5. Linked
  BY <1>4 DEF Linked
<1>6. OnlyReadyPublished
  BY <1>4 DEF OnlyReadyPublished
<1>7. Alone
  BY DEF Alone
<1> QED BY <1>1, <1>2, <1>5, <1>6, <1>7 DEF BindInv, InOrder

LEMMA BindStep ==
  ASSUME BindAssumption, BindInv, [Next]_vars
  PROVE  BindInv'
<1> USE DEF BindAssumption, Goes, Unlink, Old, None, Names, Temp, Working, Ended
<1>1. TypeOK'
  <2>1. ASSUME NEW s \in Starts, Step(s) PROVE TypeOK'
    <3>1. CASE Begin(s) BY <3>1 DEF Begin, BindInv, TypeOK
    <3>2. CASE Probe(s) BY <3>2 DEF Probe, BindInv, TypeOK
    <3>3. CASE Connect(s) BY <3>3 DEF Connect, BindInv, TypeOK
    <3>4. CASE Remove(s) BY <3>4 DEF Remove, BindInv, TypeOK
    <3>5. CASE CheckTemp(s) BY <3>5 DEF CheckTemp, BindInv, TypeOK
    <3>6. CASE Bind(s) BY <3>6 DEF Bind, BindInv, TypeOK
    <3>7. CASE MakeReady(s) BY <3>7 DEF MakeReady, BindInv, TypeOK
    <3>8. CASE Publish(s) BY <3>8 DEF Publish, BindInv, TypeOK
    <3>9. CASE Check(s) BY <3>9 DEF Check, BindInv, TypeOK
    <3>10. CASE CleanUp(s) BY <3>10 DEF CleanUp, BindInv, TypeOK
    <3> QED BY <2>1, <3>1, <3>2, <3>3, <3>4, <3>5, <3>6, <3>7, <3>8, <3>9, <3>10 DEF Step
  <2>2. ASSUME NEW s \in Starts, Fails(s) \/ Dies(s) PROVE TypeOK'
    BY <2>2 DEF Fails, Dies, BindInv, TypeOK
  <2>3. CASE UNCHANGED vars
    BY <2>3 DEF vars, BindInv, TypeOK
  <2> QED BY <2>1, <2>2, <2>3 DEF Next
<1>2. ASSUME NEW s \in Starts, Step(s) \/ Fails(s) \/ Dies(s) PROVE InOrder' /\ Alone'
  <2> USE <1>1 DEF BindInv, TypeOK, InOrder, PidsApart, ReadyFirst, Linked, OnlyReadyPublished, Alone,
               Alive
  <2>1. CASE Begin(s) BY <2>1 DEF Begin
  <2>2. CASE Probe(s) BY <2>2 DEF Probe, IsSocket
  <2>3. CASE Connect(s) BY <2>3 DEF Connect
  <2>4. CASE Remove(s) BY <2>4 DEF Remove
  <2>5. CASE CheckTemp(s) BY <2>5 DEF CheckTemp
  <2>6. CASE Bind(s) BY <2>6 DEF Bind
  <2>7. CASE MakeReady(s) BY <2>7 DEF MakeReady
  <2>8. CASE Publish(s)
    <3> USE <2>8 DEF Publish
    <3>1. dir' = [dir EXCEPT !["path"] = s, ![Temp(s)] = None] /\ Temp(s) # "path"
      OBVIOUS
    <3>2. dir'["path"] = s /\ dir'[Temp(s)] = None
      BY <3>1
    <3>3. \A n \in Pids : n # Temp(s) => dir'[n] = dir[n]
      <4> TAKE n \in Pids
      <4> HAVE n # Temp(s)
      <4>1. n # "path" /\ n \in DOMAIN dir
        OBVIOUS
      <4> QED BY <3>1, <4>1
    <3>4. state' = [state EXCEPT ![s] = "published"] /\ ready' = ready /\ s \in ready
      OBVIOUS
    <3>5. PidsApart' /\ ReadyFirst'
      BY <3>4
    <3>6. OnlyReadyPublished'
      BY <3>2, <3>4
    <3>7. Linked'
      <4> SUFFICES ASSUME NEW r \in Starts
                   PROVE  /\ state'[r] \in {"bound", "ready"} => dir'[Temp(r)] = r
                          /\ state'[r] \notin {"bound", "ready", "cleanup", "dead"}
                               => dir'[Temp(r)] # r
        BY <3>4
      <4>1. CASE r = s
        BY <3>2, <3>4, <4>1
      <4>2. CASE r # s /\ Temp(r) = Temp(s)
        BY <3>2, <3>4, <4>2
      <4>3. CASE r # s /\ Temp(r) # Temp(s)
        <5>1. Temp(r) \in Pids /\ dir'[Temp(r)] = dir[Temp(r)]
          BY <3>3, <4>3
        <5>2. state'[r] = state[r]
          BY <3>4, <4>3
        <5> QED BY <5>1, <5>2
      <4> QED BY <4>1, <4>2, <4>3
    <3>8. Alone'
      BY <3>2, <3>4
    <3> QED BY <3>5, <3>6, <3>7, <3>8
  <2>9. CASE Check(s) BY <2>9 DEF Check, IsSocket
  <2>10. CASE CleanUp(s) BY <2>10 DEF CleanUp
  <2>11. CASE Fails(s) BY <2>11 DEF Fails
  <2>12. CASE Dies(s) BY <2>12 DEF Dies
  <2> QED BY <1>2, <2>1, <2>2, <2>3, <2>4, <2>5, <2>6, <2>7, <2>8, <2>9, <2>10, <2>11, <2>12
      DEF Step
<1>3. CASE UNCHANGED vars
  BY <1>1, <1>3 DEF vars, BindInv, InOrder, PidsApart, ReadyFirst, Linked, OnlyReadyPublished,
                    Alone, Alive
<1> QED BY <1>1, <1>2, <1>3 DEF Next, BindInv

(***************************************************************************)
(* The host.                                                               *)
(***************************************************************************)
\* A step of the host is a step of each part, or leaves it alone.
LEMMA StepOfBind == [ServiceNext]_serviceVars => [Next]_vars
BY DEF ServiceNext, OnlyActivation, OnlyLog, OnlyGuard, OnlyWire, serviceVars

LEMMA StepOfActivation == [ServiceNext]_serviceVars => [Activation!Next]_takeVars
BY DEF ServiceNext, OnlyBind, OnlyLog, OnlyGuard, OnlyWire, serviceVars

LEMMA StepOfLog == [ServiceNext]_serviceVars => [Log!Next]_logVars
BY DEF ServiceNext, OnlyBind, OnlyActivation, OnlyGuard, OnlyWire, serviceVars

LEMMA StepOfGuard == [ServiceNext]_serviceVars => [Guard!Next]_guardVars
BY DEF ServiceNext, OnlyBind, OnlyActivation, OnlyLog, OnlyWire, serviceVars

LEMMA StepOfWire == [ServiceNext]_serviceVars => [WireNext]_wireVars
BY DEF ServiceNext, OnlyBind, OnlyActivation, OnlyLog, OnlyGuard, serviceVars

\* Whatever races and crashes, the path names only finished sockets, and each start
\* leaves no temporary name behind that it could have removed
\* (bind_unix_listener_with_modes).
THEOREM DirectoryStaysInOrder == ServiceSpec => []DirectoryInOrder
<1>1. ServiceInit => BindInv
  BY BindInit, ServiceAssumption DEF ServiceInit
<1>2. BindInv /\ [ServiceNext]_serviceVars => BindInv'
  BY BindStep, StepOfBind, ServiceAssumption
<1>3. BindInv => DirectoryInOrder
  BY DEF BindInv, InOrder, Linked, DirectoryInOrder, TempsAccounted
<1> QED BY <1>1, <1>2, <1>3, PTL DEF ServiceSpec

\* While starts come one after the other, the path leads to the one that serves.
THEOREM ServingStaysReachable == ServiceSpec => []ServingReachable
<1>1. ServiceInit => BindInv
  BY BindInit, ServiceAssumption DEF ServiceInit
<1>2. BindInv /\ [ServiceNext]_serviceVars => BindInv'
  BY BindStep, StepOfBind, ServiceAssumption
<1>3. BindInv => ServingReachable
  BY DEF BindInv, Alone, ServingReachable
<1> QED BY <1>1, <1>2, <1>3, PTL DEF ServiceSpec

\* An adopted descriptor has one owner until it is closed, and none after: two takes
\* never hold the same one, and none is closed under its user.
THEOREM OneOwner == ServiceSpec => []SoleOwner
<1>1. ServiceInit => TakesInv
  BY TakesInit, ServiceAssumption DEF ServiceInit
<1>2. TakesInv /\ [ServiceNext]_serviceVars => TakesInv'
  BY TakesStep, StepOfActivation, ServiceAssumption
<1>3. TakesInv => SoleOwner
  BY DEF TakesInv, Owned, SoleOwner, Activation!SoleOwner, Activation!Holds
<1> QED BY <1>1, <1>2, <1>3, PTL DEF ServiceSpec

\* A take that succeeds holds the descriptor announced under its name, and the whole
\* announced set was there.
THEOREM TakesWhatWasAnnounced == ServiceSpec => []AllAsAnnounced
<1>1. ServiceInit => TakesInv
  BY TakesInit, ServiceAssumption DEF ServiceInit
<1>2. TakesInv /\ [ServiceNext]_serviceVars => TakesInv'
  BY TakesStep, StepOfActivation, ServiceAssumption
<1>3. TakesInv => AllAsAnnounced
  BY DEF TakesInv, Sound, SoundEnv, Named, AllAsAnnounced, Activation!AllAsAnnounced
<1> QED BY <1>1, <1>2, <1>3, PTL DEF ServiceSpec

\* Under a sound environment no race, failure or drop makes a take of an announced name
\* come away empty before some take of that name has had its descriptor
\* (NamedActivation::take).
THEOREM AnnouncedIsFound == ServiceSpec => []AnnouncedFound
<1>1. ServiceInit => WaitsInv
  BY WaitsInit, ServiceAssumption DEF ServiceInit
<1>2. WaitsInv /\ [ServiceNext]_serviceVars => WaitsInv'
  BY WaitsStep, StepOfActivation, ServiceAssumption
<1>3. WaitsInv => AnnouncedFound
  BY DEF WaitsInv
<1> QED BY <1>1, <1>2, <1>3, PTL DEF ServiceSpec

\* Whatever fails and however the path is moved, an event is whole in the log once if its
\* writer succeeded and else not at all; beside that it leaves a beginning for each write
\* that failed midway at most, and only after such a beginning, or beside another process,
\* does a line hold more than one event; at most one event of each process is in a renamed
\* file that should be in the new one (SecureEventWriter::flush, which locks, opens and
\* checks the file for each event, and does not take back what a failed write_all wrote).
THEOREM LogStaysFaithful == ServiceSpec => []LogFaithful
<1>1. ServiceInit => LogInv
  BY LogInit, ServiceAssumption DEF ServiceInit
<1>2. LogInv /\ [ServiceNext]_serviceVars => LogInv'
  BY LogStep, StepOfLog, ServiceAssumption
<1> QED BY <1>1, <1>2, LogInvFaithful, PTL DEF ServiceSpec

\* No delay between writing the status file, reading the clock and reading the file makes
\* a check pass on a filter that was not ours within the maximum age; and on a prompt host
\* no check refuses a filter that stays up (NetworkContainmentGuard::check).
THEOREM GuardChecksRightly == ServiceSpec => ChecksAreRight
<1>1. ServiceInit => GuardInv
  BY GuardInit, ServiceAssumption DEF ServiceInit
<1>2. GuardInv /\ [ServiceNext]_serviceVars => GuardInv'
  BY GuardStep, StepOfGuard, ServiceAssumption
<1>3. GuardInv /\ [ServiceNext]_serviceVars =>
        [Guard!FreshWhenPassed' /\ \A c \in Checks : Guard!RefusedRightly(c)]_guardVars
  BY <1>2, RefusalsAreRight, StepOfGuard, ServiceAssumption DEF GuardInv, Timed
<1> QED BY <1>1, <1>2, <1>3, PTL DEF ServiceSpec, ChecksAreRight

\* Whatever arrives, DecimalU64 and DecimalU256 keep exactly the texts of the numbers of
\* their width, one for each, and decode_frame reads exactly the frames that encode_frame
\* makes of values within the limits, one for each: what a receiver hashes and verifies
\* again is what was signed.
THEOREM ReadFromOneEncoding == ServiceSpec => []OneEncoding
<1>1. ServiceInit => WireInv
  BY WireInitInv, EncodingAssumption DEF ServiceInit
<1>2. WireInv /\ [ServiceNext]_serviceVars => WireInv'
  BY WireStep, StepOfWire, EncodingAssumption
<1>3. WireInv => OneEncoding
  BY DEF WireInv
<1> QED BY <1>1, <1>2, <1>3, PTL DEF ServiceSpec

\* Every variable of the host keeps its type; in particular a start listens exactly while
\* it holds its listener, and the flush of an event runs exactly under the lock of its
\* process.
THEOREM ServiceTypeCorrect == ServiceSpec => []ServiceTypeOK
<1> DEFINE Inv == BindInv /\ TakesInv /\ LogInv /\ GuardInv /\ WireInv
<1>1. ServiceInit => Inv
  BY BindInit, TakesInit, LogInit, GuardInit, WireInitInv, ServiceAssumption,
     EncodingAssumption DEF ServiceInit
<1>2. Inv /\ [ServiceNext]_serviceVars => Inv'
  BY BindStep, TakesStep, LogStep, GuardStep, WireStep, StepOfBind, StepOfActivation,
     StepOfLog, StepOfGuard, StepOfWire, ServiceAssumption, EncodingAssumption
<1>3. Inv => ServiceTypeOK
  BY LogTypeCorrect, ServiceAssumption DEF BindInv, TakesInv, GuardInv, WireInv, ServiceTypeOK
<1> QED BY <1>1, <1>2, <1>3, PTL DEF ServiceSpec
=============================================================================
