---------------------------- MODULE EndpointBind ----------------------------
(***************************************************************************)
(* Binding and publishing a service-owned Unix endpoint                    *)
(* (bind_unix_listener_with_modes of crates/bloom-service-activation).     *)
(*                                                                         *)
(* Each start of the service probes what the path names, removes it if it  *)
(* is stale, binds a socket under a temporary name that holds its pid,     *)
(* gives it its mode and group, and renames it over the path.  Every       *)
(* system call is a step: another start, or a crash, can come between two. *)
(* The parent directory has passed its check and only the service's own    *)
(* user and root write in it; a process binds one endpoint at a time.      *)
(***************************************************************************)
EXTENDS Naturals, FiniteSets

CONSTANTS
  Starts,      \* starts of the service
  Pids, PidOf, \* the pid of each start; pids may be used again
  MaxFaults    \* bound on crashes, exits and failing system calls

\* What the constants must be.
BindAssumption ==
  /\ PidOf \in [Starts -> Pids] /\ MaxFaults \in Nat
  /\ "path" \notin Pids /\ "old" \notin Starts /\ "none" \notin Starts

VARIABLES
  serialized,  \* whether a start waits for the one before it to serve or end
  dir,      \* what each name of the directory is linked to
  foreign,  \* whether the entry the first start may find is not a socket
  ready,    \* sockets with their final mode and group
  listens,  \* starts whose socket listens
  state,    \* where each start is
  faults    \* faults so far

vars == <<serialized, dir, foreign, ready, listens, state, faults>>

\* A socket is named for the start that bound it.
None == "none"
Old == "old"
Names == {"path"} \cup Pids
Temp(s) == PidOf[s]

Working == {"probe", "connect", "remove", "check", "bind", "bound", "ready", "published",
            "cleanup"}
Ended == {"refused", "dead"}

Init ==
  /\ serialized \in BOOLEAN
  /\ foreign \in BOOLEAN
  /\ dir \in {[n \in Names |-> IF n = "path" THEN there ELSE None] : there \in {None, Old}}
  /\ ready = {Old}
  /\ listens = {}
  /\ state = [s \in Starts |-> "new"]
  /\ faults = 0

Goes(s, to) == state' = [state EXCEPT ![s] = to]
Unlink(name) == dir' = [dir EXCEPT ![name] = None]

Begin(s) ==
  /\ state[s] = "new"
  /\ \A r \in Starts : state[r] \in Working => ~ serialized /\ PidOf[r] # PidOf[s]
  /\ \A r \in listens : PidOf[r] # PidOf[s]
  /\ Goes(s, "probe")
  /\ UNCHANGED <<serialized, dir, foreign, ready, listens, faults>>

IsSocket(entry) == entry # Old \/ ~ foreign

\* symlink_metadata: nothing there, a socket to probe, or something else.
Probe(s) ==
  /\ state[s] = "probe"
  /\ Goes(s, IF dir["path"] = None THEN "check"
             ELSE IF IsSocket(dir["path"]) THEN "connect" ELSE "refused")
  /\ UNCHANGED <<serialized, dir, foreign, ready, listens, faults>>

Connect_TimidProbe(s) ==
  /\ state[s] = "connect"
  /\ Goes(s, "refused")
  /\ UNCHANGED <<serialized, dir, foreign, ready, listens, faults>>

Connect_RemovesAnyway(s) ==
  /\ state[s] = "connect"
  /\ Goes(s, "remove")
  /\ UNCHANGED <<serialized, dir, foreign, ready, listens, faults>>

\* Only a refused connection proves the socket stale: a live one, or an entry that
\* is gone by now, ends the start.
Connect(s) ==
  /\ state[s] = "connect"
  /\ Goes(s, IF dir["path"] # None /\ dir["path"] \notin listens THEN "remove" ELSE "refused")
  /\ UNCHANGED <<serialized, dir, foreign, ready, listens, faults>>

\* remove_file removes whatever the path names by now.
Remove(s) ==
  /\ state[s] = "remove"
  /\ Unlink("path")
  /\ Goes(s, IF dir["path"] = None THEN "refused" ELSE "check")
  /\ UNCHANGED <<serialized, foreign, ready, listens, faults>>

CheckTemp(s) ==
  /\ state[s] = "check"
  /\ Goes(s, IF dir[Temp(s)] = None THEN "bind" ELSE "refused")
  /\ UNCHANGED <<serialized, dir, foreign, ready, listens, faults>>

Bind(s) ==
  /\ state[s] = "bind"
  /\ dir' = [dir EXCEPT ![Temp(s)] = s]
  /\ listens' = listens \cup {s}
  /\ Goes(s, "bound")
  /\ UNCHANGED <<serialized, foreign, ready, faults>>

\* set_permissions, chown and the check of both.
MakeReady(s) ==
  /\ state[s] = "bound"
  /\ ready' = ready \cup {s}
  /\ Goes(s, "ready")
  /\ UNCHANGED <<serialized, dir, foreign, listens, faults>>

\* rename replaces whatever the path names by now.
Publish(s) ==
  /\ state[s] = "ready"
  /\ dir' = [dir EXCEPT !["path"] = s, ![Temp(s)] = None]
  /\ Goes(s, "published")
  /\ UNCHANGED <<serialized, foreign, ready, listens, faults>>

\* require_socket_metadata on what the path names by now, and set_nonblocking; an
\* error drops the listener.
Check(s) ==
  /\ state[s] = "published"
  /\ IF dir["path"] # None /\ IsSocket(dir["path"]) /\ dir["path"] \in ready
       THEN Goes(s, "serving") /\ UNCHANGED listens
       ELSE Goes(s, "cleanup") /\ listens' = listens \ {s}
  /\ UNCHANGED <<serialized, dir, foreign, ready, faults>>

Fails_KeepsListener(s) ==
  /\ state[s] \in {"bound", "ready", "published"} /\ faults < MaxFaults
  /\ Goes(s, "cleanup")
  /\ faults' = faults + 1
  /\ UNCHANGED <<serialized, dir, foreign, ready, listens>>

\* A system call after the bind fails: the listener is dropped.
Fails(s) ==
  /\ state[s] \in {"bound", "ready", "published"} /\ faults < MaxFaults
  /\ Goes(s, "cleanup")
  /\ listens' = listens \ {s}
  /\ faults' = faults + 1
  /\ UNCHANGED <<serialized, dir, foreign, ready>>

CleanUp_NotNeeded(s) ==
  /\ state[s] = "cleanup"
  /\ Goes(s, "refused")
  /\ UNCHANGED <<serialized, dir, foreign, ready, listens, faults>>

\* The temporary name is removed, if it is still there.
CleanUp(s) ==
  /\ state[s] = "cleanup"
  /\ Unlink(Temp(s))
  /\ Goes(s, "refused")
  /\ UNCHANGED <<serialized, foreign, ready, listens, faults>>

\* The process exits or crashes; what it linked stays.  (A system call that fails before
\* the bind ends the start with the same effect.)
Dies(s) ==
  /\ state[s] \in Working \cup {"serving"} /\ faults < MaxFaults
  /\ Goes(s, "dead")
  /\ listens' = listens \ {s}
  /\ faults' = faults + 1
  /\ UNCHANGED <<serialized, dir, foreign, ready>>

Step(s) ==
  \/ Begin(s) \/ Probe(s) \/ Connect(s) \/ Remove(s) \/ CheckTemp(s) \/ Bind(s)
  \/ MakeReady(s) \/ Publish(s) \/ Check(s) \/ CleanUp(s)

Next == \E s \in Starts : Step(s) \/ Fails(s) \/ Dies(s)

Spec == Init /\ [][Next]_vars

\* The launch manager starts the service and its process runs.
FairSpec == Spec /\ \A s \in Starts : WF_vars(Step(s))

(***************************************************************************)
(* Correctness.                                                            *)
(***************************************************************************)
\* Every variable has its type, and a start listens exactly while it holds its listener.
TypeOK ==
  /\ serialized \in BOOLEAN
  /\ dir \in [Names -> Starts \cup {Old, None}]
  /\ foreign \in BOOLEAN
  /\ ready \subseteq Starts \cup {Old}
  /\ listens = {s \in Starts : state[s] \in {"bound", "ready", "published", "serving"}}
  /\ state \in [Starts -> {"new", "serving"} \cup Working \cup Ended]
  /\ faults \in 0..MaxFaults

\* Whatever races and crashes, a client that finds the endpoint finds it with its
\* final mode and group: never the socket as bind creates it.
OnlyReadyPublished == dir["path"] # None => dir["path"] \in ready

\* A start that is refused after it bound its socket leaves no temporary name behind,
\* and no start removes that of another.
TempsAccounted ==
  \A s \in Starts :
    /\ state[s] \in {"bound", "ready"} => dir[Temp(s)] = s
    /\ state[s] \in {"published", "serving", "refused"} => dir[Temp(s)] # s

\* The directory names only what those who follow can use.
DirectoryInOrder == OnlyReadyPublished /\ TempsAccounted

\* While starts come one after the other, the process that serves is the one that
\* the path leads to.
ServingReachable ==
  serialized => \A s \in Starts : state[s] = "serving" => dir["path"] = s

\* No start takes the path away from a listener, whatever other starts do meanwhile.
LiveNeverReplaced ==
  [][\A s \in Starts :
       dir["path"] = s /\ s \in listens /\ s \in listens' => dir'["path"] = s]_vars

\* A start that comes after the last fault and finds nobody serving ends up serving and
\* reachable, whatever the faults before it left in the directory; unless that is a
\* temporary name of its own pid, or the path is not a socket.
Recovers ==
  \A s \in Starts :
    (/\ serialized /\ state[s] = "probe" /\ listens = {} /\ faults = MaxFaults
     /\ dir[Temp(s)] = None /\ ~ (foreign /\ dir["path"] = Old))
      ~> (state[s] = "serving" /\ dir["path"] = s)
=============================================================================
