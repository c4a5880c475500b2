------------------------------ MODULE SecureLog ------------------------------
(***************************************************************************)
(* The append writer of the service log (SecureAppendWriter and            *)
(* SecureEventWriter of crates/bloom-service-observability).               *)
(*                                                                         *)
(* The formatter writes one event at a time, which flushes it: under a     *)
(* lock of its process the path is opened, the file checked, the bytes     *)
(* appended.  A flush that failed leaves its bytes buffered, and dropping  *)
(* the writer flushes once more.  An event is two fragments, of which the  *)
(* second ends the line; a short write separates them, and when the next   *)
(* write fails the first stays without an end.  Beside the writers the log *)
(* is rotated: renamed, created again, and given its mode.                 *)
(***************************************************************************)
EXTENDS Naturals, Sequences, FiniteSets

CONSTANTS
  Events, Processes, ProcOf,  \* events, and the process that writes each
  MaxFiles,                   \* bound on files the path is rotated through
  MaxFaults                   \* bound on failing and short writes

\* What the constants must be.
LogAssumption ==
  /\ ProcOf \in [Events -> Processes] /\ MaxFiles \in Nat \ {0} /\ MaxFaults \in Nat
  /\ "free" \notin Events

VARIABLES
  files,    \* files created so far; the newest is files
  linked,   \* whether the path names the newest file, between its rotations
  valid,    \* files whose owner, group and mode are the expected ones
  log,      \* what each file holds: [ev, part]
  lock,     \* the event that holds the lock of each process
  state,    \* where each event is
  opened,   \* the file each event has open
  tries,    \* flushes of each event so far
  late,     \* <<file, event>>: written to a file that was rotated away
  torn,     \* <<file, place>>: a beginning whose write failed after it (history)
  faults    \* faults so far

vars == <<files, linked, valid, log, lock, state, opened, tries, late, torn, faults>>
rotation == <<files, linked, valid>>

Free == "free"
Files == 1..MaxFiles

Init ==
  /\ files = 1 /\ linked = TRUE /\ valid = {1}
  /\ log = [f \in Files |-> <<>>]
  /\ lock = [p \in Processes |-> Free]
  /\ state = [e \in Events |-> "new"]
  /\ opened = [e \in Events |-> 1]
  /\ tries = [e \in Events |-> 0]
  /\ late = {} /\ torn = {} /\ faults = 0

Goes(e, to) == state' = [state EXCEPT ![e] = to]
Locks(e) == lock' = [lock EXCEPT ![ProcOf[e]] = e]
Unlocks(e) == lock' = [lock EXCEPT ![ProcOf[e]] = Free]

\* write, which ends with the line and flushes; or the flush of drop.
Begin(e) ==
  /\ state[e] = "new" \/ state[e] = "dropped"
  /\ lock[ProcOf[e]] = Free
  /\ Locks(e)
  /\ Goes(e, "locked")
  /\ tries' = [tries EXCEPT ![e] = @ + 1]
  /\ UNCHANGED <<rotation, log, opened, late, torn, faults>>

\* An error releases the lock; the bytes stay, and drop tries once more.
Errs(e) ==
  /\ Unlocks(e)
  /\ Goes(e, IF tries[e] = 1 THEN "dropped" ELSE "lost")

\* open_secure_append: fails while the path names nothing.
Open(e) ==
  /\ state[e] = "locked"
  /\ IF linked THEN /\ opened' = [opened EXCEPT ![e] = files]
                    /\ Goes(e, "opened")
                    /\ UNCHANGED lock
     ELSE Errs(e) /\ UNCHANGED opened
  /\ UNCHANGED <<rotation, log, tries, late, torn, faults>>

\* validate_file, on the file that was opened.
Validate(e) ==
  /\ state[e] = "opened"
  /\ IF opened[e] \in valid THEN Goes(e, "valid") /\ UNCHANGED lock ELSE Errs(e)
  /\ UNCHANGED <<rotation, log, opened, tries, late, torn, faults>>

Part(e, n) == [ev |-> e, part |-> n]
Appends(e, parts) ==
  /\ log' = [log EXCEPT ![opened[e]] = @ \o parts]
  /\ late' = IF linked /\ opened[e] = files THEN late ELSE late \cup {<<opened[e], e>>}

Completes_NotCleared(e) ==
  /\ Unlocks(e)
  /\ Goes(e, IF tries[e] = 1 THEN "dropped" ELSE "done")

\* The bytes are cleared and the lock released; drop has nothing left to flush.
Completes(e) == Unlocks(e) /\ Goes(e, "done")

Write(e) ==
  /\ state[e] = "valid"
  /\ Appends(e, <<Part(e, 1), Part(e, 2)>>)
  /\ Completes(e)
  /\ UNCHANGED <<rotation, opened, tries, torn, faults>>

\* A short write; write_all goes on with the rest.
WriteShort(e) ==
  /\ state[e] = "valid" /\ faults < MaxFaults
  /\ Appends(e, <<Part(e, 1)>>)
  /\ Goes(e, "half")
  /\ faults' = faults + 1
  /\ UNCHANGED <<rotation, lock, opened, tries, torn>>

WriteRest(e) ==
  /\ state[e] = "half"
  /\ Appends(e, <<Part(e, 2)>>)
  /\ Completes(e)
  /\ UNCHANGED <<rotation, opened, tries, torn, faults>>

\* Where the fragments n of e are in file f.
Places(e, n, f) == {f} \X {i \in DOMAIN log[f] : log[f][i] = Part(e, n)}

\* write_all fails; what it wrote before stays, and the bytes stay buffered whole.
WriteFails(e) ==
  /\ state[e] \in {"valid", "half"} /\ faults < MaxFaults
  /\ Errs(e)
  /\ torn' = torn \cup Places(e, 1, opened[e])
  /\ faults' = faults + 1
  /\ UNCHANGED <<rotation, log, opened, tries, late>>

\* The rotation of the host: the log is renamed, created, and given its mode.
Rename ==
  /\ linked /\ files < MaxFiles
  /\ linked' = FALSE
  /\ UNCHANGED <<files, valid, log, lock, state, opened, tries, late, torn, faults>>

Create ==
  /\ ~ linked
  /\ files' = files + 1 /\ linked' = TRUE
  /\ UNCHANGED <<valid, log, lock, state, opened, tries, late, torn, faults>>

SetMode ==
  /\ linked /\ files \notin valid
  /\ valid' = valid \cup {files}
  /\ UNCHANGED <<files, linked, log, lock, state, opened, tries, late, torn, faults>>

Step(e) ==
  Begin(e) \/ Open(e) \/ Validate(e) \/ Write(e) \/ WriteShort(e) \/ WriteRest(e) \/ WriteFails(e)

Next == (\E e \in Events : Step(e)) \/ Rename \/ Create \/ SetMode

Spec == Init /\ [][Next]_vars

(***************************************************************************)
(* Correctness.                                                            *)
(***************************************************************************)
Flushing == {"locked", "opened", "valid", "half"}

\* Every variable has its type, and a flush runs exactly under the lock of its process.
TypeOK ==
  /\ files \in Files /\ linked \in BOOLEAN /\ valid \subseteq Files
  /\ log \in [Files -> Seq([ev : Events, part : 1..2])]
  /\ state \in [Events -> Flushing \cup {"new", "dropped", "done", "lost"}]
  /\ \A p \in Processes :
       {e \in Events : ProcOf[e] = p /\ state[e] \in Flushing} =
         IF lock[p] = Free THEN {} ELSE {lock[p]}
  /\ opened \in [Events -> Files] /\ tries \in [Events -> 0..2]
  /\ late \subseteq Files \X Events /\ torn \subseteq Files \X Nat
  /\ faults \in 0..MaxFaults

\* Of what one process wrote to f, place j follows directly on place i.
Succeeds(f, i, j) ==
  LET proc(k) == ProcOf[log[f][k].ev]
  IN  i < j /\ proc(i) = proc(j) /\ \A k \in i + 1..j - 1 : proc(k) # proc(j)

\* Among what one process wrote, an end follows directly on the beginning of the same
\* event; a beginning is followed by its end, or its write is known to have failed.
Contiguous ==
  \A f \in Files : \A j \in 1..Len(log[f]) :
    /\ log[f][j].part = 2 =>
         \E i \in 1..j - 1 : /\ Succeeds(f, i, j) /\ <<f, i>> \notin torn
                            /\ log[f][i] = Part(log[f][j].ev, 1)
    /\ log[f][j].part = 1 =>
         \A i \in 1..j - 1 : Succeeds(f, i, j) => log[f][i].part = 2 \/ <<f, i>> \in torn

\* An event is whole in the log exactly once if its writer succeeded, at either try and
\* wherever the path was moved meanwhile, and never otherwise.  Beside that it leaves at
\* most one beginning without an end for each flush of it that failed.
Copies(e, n) == UNION {Places(e, n, f) : f \in Files}

LoggedOnce ==
  \A e \in Events :
    /\ Cardinality(Copies(e, 2)) = IF state[e] = "done" THEN 1 ELSE 0
    /\ Cardinality(Copies(e, 1) \ torn) = IF state[e] \in {"half", "done"} THEN 1 ELSE 0
    /\ Cardinality(Copies(e, 1) \cap torn) <=
         IF state[e] \in Flushing \cup {"done"} THEN tries[e] - 1 ELSE tries[e]

\* What is at place i of f begins a line, or goes on with the event that began it.
JoinsLine(f, i) ==
  IF log[f][i].part = 1 THEN i > 1 => log[f][i - 1].part = 2
  ELSE i > 1 /\ log[f][i - 1] = Part(log[f][i].ev, 1)

\* A line holds one whole event, unless a write to it failed midway or another process
\* wrote to it too.
LinesWhole ==
  \A f \in Files : \A i \in 1..Len(log[f]) :
    \/ JoinsLine(f, i)
    \/ i > 1 /\ (<<f, i - 1>> \in torn \/ ProcOf[log[f][i - 1].ev] # ProcOf[log[f][i].ev])

\* After the log is renamed, each process adds to the renamed file at most the one
\* event it had open then.
LateBounded ==
  \A f \in Files, p \in Processes :
    Cardinality({e \in Events : ProcOf[e] = p /\ <<f, e>> \in late}) <= 1

\* The log says what happened: each event whole and once if its writer succeeded, with
\* nothing else but the beginnings that failed writes left, and late in few files.
LogFaithful == Contiguous /\ LoggedOnce /\ LinesWhole /\ LateBounded

\* Every line of the log is one event: "JSON Lines appended securely to an
\* installer-controlled file."
JsonLines == \A f \in Files : \A i \in 1..Len(log[f]) : JoinsLine(f, i)
=============================================================================
