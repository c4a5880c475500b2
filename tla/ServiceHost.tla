----------------------------- MODULE ServiceHost -----------------------------
(***************************************************************************)
(* What the runtime gives a service on its host: its own socket            *)
(* (EndpointBind), listeners of the service manager (ActivationSet), the   *)
(* service's log (SecureLog), the packet-filter guard (ContainmentGuard)   *)
(* and the encoding of what it reads (WireEncoding).  They run in the same *)
(* processes and share no state, so a step of the host is a step of one of *)
(* them.                                                                   *)
(***************************************************************************)
EXTENDS EndpointBind, WireEncoding

CONSTANTS
  Threads, NameOf, ListenerNames, Invalid, Environments, MaxCount, \* ActivationSet
  MaxUnconfigured,                                          \* its MaxFaults
  Events, Processes, ProcOf, MaxFiles,                      \* SecureLog
  MaxBadWrites,                                             \* its MaxFaults
  Checks, MaximumAge, Skew, MaxTime, MaxSetback             \* ContainmentGuard

VARIABLES
  env, activation, table, adoptions, closed, takes, got, unconfigured,        \* ActivationSet
  files, linked, valid, log, lock, writers, opened, tries, late, torn, badWrites,  \* SecureLog
  prompt, time, setback, filter, wasOurs, seen, status, checks, clock, began  \* ContainmentGuard

takeVars == <<env, activation, table, adoptions, closed, takes, got, unconfigured>>
logVars == <<files, linked, valid, log, lock, writers, opened, tries, late, torn, badWrites>>
guardVars == <<prompt, time, setback, filter, wasOurs, seen, status, checks, clock, began>>
serviceVars == <<vars, takeVars, logVars, guardVars, wireVars>>

Activation == INSTANCE ActivationSet WITH
  Names <- ListenerNames, MaxFaults <- MaxUnconfigured, state <- takes, faults <- unconfigured
Log == INSTANCE SecureLog WITH
  MaxFaults <- MaxBadWrites, state <- writers, faults <- badWrites
Guard == INSTANCE ContainmentGuard WITH state <- checks

\* What the constants must be, as each part states it.
ASSUME ServiceAssumption ==
  /\ BindAssumption
  /\ Activation!ActivationAssumption /\ Log!LogAssumption /\ Guard!GuardAssumption

ServiceInit == Init /\ Activation!Init /\ Log!Init /\ Guard!Init /\ WireInit

OnlyBind == UNCHANGED <<takeVars, logVars, guardVars, wireVars>>
OnlyActivation == UNCHANGED <<vars, logVars, guardVars, wireVars>>
OnlyLog == UNCHANGED <<vars, takeVars, guardVars, wireVars>>
OnlyGuard == UNCHANGED <<vars, takeVars, logVars, wireVars>>
OnlyWire == UNCHANGED <<vars, takeVars, logVars, guardVars>>

ServiceNext ==
  \/ OnlyBind /\ Next
  \/ OnlyActivation /\ Activation!Next
  \/ OnlyLog /\ Log!Next
  \/ OnlyGuard /\ Guard!Next
  \/ OnlyWire /\ WireNext

ServiceSpec == ServiceInit /\ [][ServiceNext]_serviceVars

(***************************************************************************)
(* Correctness, as each part states it.                                    *)
(***************************************************************************)
\* Every variable has its type.
ServiceTypeOK == TypeOK /\ Activation!TypeOK /\ Log!TypeOK /\ Guard!TypeOK /\ WireTypeOK

\* An adopted descriptor has one owner until it is closed, and none after.
SoleOwner == Activation!SoleOwner

\* A take succeeds with the descriptor named so, of a set that is all as announced.
AllAsAnnounced == Activation!AllAsAnnounced

\* Of an event the log holds the whole once if its writer succeeded, and otherwise only
\* beginnings that failed writes left; few events are late in a renamed file.
LogFaithful == Log!LogFaithful

\* A check passes only on evidence that is no older than the maximum age, and on a
\* prompt host whose filter stays up no check is refused.
ChecksAreRight ==
  [][Guard!FreshWhenPassed' /\ \A c \in Checks : Guard!RefusedRightly(c)]_guardVars
=============================================================================
