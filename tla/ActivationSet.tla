---------------------------- MODULE ActivationSet ----------------------------
(***************************************************************************)
(* Listeners handed over by systemd (take_unix_listener,                   *)
(* take_tcp_listener, linux::take and NamedActivation of                   *)
(* crates/bloom-service-activation).                                       *)
(*                                                                         *)
(* The first take of any thread adopts all the descriptors of the          *)
(* environment, once for the life of the process, while other takes wait;  *)
(* each take then removes its own under a lock and configures it.  An      *)
(* adopted descriptor is closed when the code drops it.                    *)
(***************************************************************************)
EXTENDS Naturals, Sequences, FiniteSets

CONSTANTS
  Threads, NameOf,  \* takes, and the name each asks for
  Names, Invalid,   \* names, and one that is empty or holds a NUL
  Environments,     \* [pid, count, names, open]: LISTEN_PID is ours, LISTEN_FDS or 0 if
                    \* it does not parse, LISTEN_FDNAMES, descriptors that are open
  MaxCount,         \* the greatest count the code accepts
  MaxFaults         \* bound on descriptors that cannot be configured

\* What the constants must be.
ActivationAssumption ==
  /\ NameOf \in [Threads -> Names \cup {Invalid}]
  /\ \A e \in Environments : e.count \in Nat /\ e.names \in Seq(Names \cup {Invalid})
  /\ MaxCount \in Nat /\ MaxFaults \in Nat

VARIABLES
  env,         \* the environment of the process
  activation,  \* ACTIVATION: "unset", "failed" or "ready"
  table,       \* the adopted descriptors that are not taken yet: <<name, descriptor>>
  adoptions,   \* how often each descriptor was adopted
  closed,      \* descriptors the process has closed
  state,       \* where each take is
  got,         \* the descriptor each take holds or held, or 0
  faults       \* descriptors that could not be configured

vars == <<env, activation, table, adoptions, closed, state, got, faults>>

Fds == 1..MaxCount

Init ==
  /\ env \in Environments
  /\ activation = "unset"
  /\ table = {}
  /\ adoptions = [fd \in Fds |-> 0]
  /\ closed = {}
  /\ state = [t \in Threads |-> "new"] /\ got = [t \in Threads |-> 0]
  /\ faults = 0

Goes(t, to) == state' = [state EXCEPT ![t] = to]

\* take_fd refuses a name that no manager can have given.
RefuseName(t) ==
  /\ state[t] = "new" /\ NameOf[t] = Invalid
  /\ Goes(t, "refused")
  /\ UNCHANGED <<env, activation, table, adoptions, closed, got, faults>>

Announced ==
  /\ env.count # 0 /\ env.pid /\ env.count <= MaxCount
  /\ Len(env.names) = env.count

\* The descriptors adopted before the first that is not open.
Adopted == {fd \in 1..env.count : \A i \in 1..fd : i \in env.open}

\* NamedActivation::new
WellNamed ==
  /\ \A i \in 1..env.count : env.names[i] # Invalid
  /\ \A i, j \in 1..env.count : env.names[i] = env.names[j] => i = j

Adopts(fds) == adoptions' = [fd \in Fds |-> adoptions[fd] + IF fd \in fds THEN 1 ELSE 0]

Load_Again(t) ==
  /\ state[t] = "new" /\ NameOf[t] # Invalid
  /\ Goes(t, "loaded")
  /\ IF Announced /\ Cardinality(Adopted) = env.count /\ WellNamed
       THEN /\ activation' = "ready"
            /\ Adopts(Adopted)
            /\ table' = {<<env.names[i], i>> : i \in 1..env.count}
       ELSE activation' = "failed" /\ UNCHANGED <<table, adoptions>>
  /\ UNCHANGED <<env, closed, got, faults>>

Load_KeepsPrefix(t) ==
  /\ state[t] = "new" /\ NameOf[t] # Invalid /\ activation = "unset"
  /\ UNCHANGED <<env, state, got, faults, closed>>
  /\ IF ~ Announced
       THEN activation' = "failed" /\ UNCHANGED <<table, adoptions>>
       ELSE /\ Adopts(Adopted)
            /\ activation' = "ready"
            /\ table' = {<<env.names[i], i>> : i \in Adopted}

\* load, by the first take: an environment that is not as announced fails for good,
\* and the descriptors adopted so far are dropped with the error.
Load(t) ==
  /\ state[t] = "new" /\ NameOf[t] # Invalid /\ activation = "unset"
  /\ UNCHANGED <<env, state, got, faults>>
  /\ IF ~ Announced
       THEN activation' = "failed" /\ UNCHANGED <<table, adoptions, closed>>
       ELSE /\ Adopts(Adopted)
            /\ IF Cardinality(Adopted) = env.count /\ WellNamed
                 THEN /\ activation' = "ready"
                      /\ table' = {<<env.names[i], i>> : i \in 1..env.count}
                      /\ UNCHANGED closed
                 ELSE /\ activation' = "failed"
                      /\ closed' = closed \cup Adopted
                      /\ UNCHANGED table

\* The set is there, or its failure is.
Get(t) ==
  /\ state[t] = "new" /\ NameOf[t] # Invalid /\ activation # "unset"
  /\ Goes(t, IF activation = "ready" THEN "loaded" ELSE "refused")
  /\ UNCHANGED <<env, activation, table, adoptions, closed, got, faults>>

Take_Copies(t) ==
  /\ state[t] = "loaded"
  /\ \E entry \in table : entry[1] = NameOf[t] /\ got' = [got EXCEPT ![t] = entry[2]]
  /\ Goes(t, "taken")
  /\ UNCHANGED <<env, activation, table, adoptions, closed, faults>>

\* NamedActivation::take, under the lock.
Take(t) ==
  /\ state[t] = "loaded"
  /\ \/ \E entry \in table :
          /\ entry[1] = NameOf[t]
          /\ table' = table \ {entry}
          /\ got' = [got EXCEPT ![t] = entry[2]]
          /\ Goes(t, "taken")
     \/ /\ \A entry \in table : entry[1] # NameOf[t]
        /\ Goes(t, "refused")
        /\ UNCHANGED <<table, got>>
  /\ UNCHANGED <<env, activation, adoptions, closed, faults>>

\* set_nonblocking and local_addr.
Configure(t) ==
  /\ state[t] = "taken"
  /\ Goes(t, "listening")
  /\ UNCHANGED <<env, activation, table, adoptions, closed, got, faults>>

\* A listener that cannot be configured is dropped: its descriptor is gone.
ConfigureFails(t) ==
  /\ state[t] = "taken" /\ faults < MaxFaults
  /\ Goes(t, "refused")
  /\ closed' = closed \cup {got[t]}
  /\ faults' = faults + 1
  /\ UNCHANGED <<env, activation, table, adoptions, got>>

\* The service drops a listener it was given.
Drop(t) ==
  /\ state[t] = "listening"
  /\ Goes(t, "dropped")
  /\ closed' = closed \cup {got[t]}
  /\ UNCHANGED <<env, activation, table, adoptions, got, faults>>

Step(t) ==
  RefuseName(t) \/ Load(t) \/ Get(t) \/ Take(t) \/ Configure(t) \/ ConfigureFails(t)

Next == \E t \in Threads : Step(t) \/ Drop(t)

Spec == Init /\ [][Next]_vars

FairSpec == Spec /\ \A t \in Threads : WF_vars(Step(t))

(***************************************************************************)
(* Correctness.                                                            *)
(***************************************************************************)
\* Every variable has its type.
TypeOK ==
  /\ env \in Environments
  /\ activation \in {"unset", "failed", "ready"}
  /\ table \subseteq (Names \cup {Invalid}) \X Fds
  /\ adoptions \in [Fds -> Nat] /\ closed \subseteq Fds
  /\ state \in [Threads -> {"new", "loaded", "taken", "listening", "dropped", "refused"}]
  /\ got \in [Threads -> Fds \cup {0}]
  /\ faults \in 0..MaxFaults

Holds(t) == state[t] \in {"taken", "listening"}

\* A descriptor has one owner from its adoption to its end: the table or one take;
\* none is owned after it was closed, so that no take closes what another uses.
SoleOwner ==
  /\ \A fd \in Fds : adoptions[fd] <= 1
  /\ \A t, u \in Threads : Holds(t) /\ got[u] = got[t] => u = t
  /\ \A t \in Threads : Holds(t) => got[t] \notin closed
  /\ \A entry \in table : entry[2] \notin closed /\ \A t \in Threads : got[t] # entry[2]

\* Whichever thread loads the set, each take that succeeds holds the descriptor that
\* systemd named so, and then every descriptor was open and announced: the process
\* never runs on part of its sockets.
AllAsAnnounced ==
  \A t \in Threads : got[t] # 0 =>
    /\ env.names[got[t]] = NameOf[t]
    /\ env.pid /\ 1..env.count \subseteq env.open /\ Len(env.names) = env.count

\* Every take ends; and under a sound environment the first take of each announced
\* name is not refused, unless its own descriptor could not be configured.
TakesEnd ==
  /\ \A t \in Threads : <>(state[t] \in {"listening", "dropped", "refused"})
  /\ \A t \in Threads :
       (Announced /\ Adopted = 1..env.count /\ WellNamed
        /\ \E i \in 1..env.count : env.names[i] = NameOf[t])
         ~> \E u \in Threads : NameOf[u] = NameOf[t] /\ got[u] # 0
=============================================================================
