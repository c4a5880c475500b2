---------------------------- MODULE AuthorityEdge ----------------------------
(***************************************************************************)
(* Calls over an authority edge, one connection each: the caller           *)
(* (call_with_journal_head, or call on a plain edge), the endpoint         *)
(* (dispatch_connection_with_journal_heads, or dispatch_connection) and    *)
(* the exchange of signed journal heads between them                       *)
(* (crates/bloom-triad-local-transport).                                   *)
(*                                                                         *)
(* The mutual hello of a connection is HelloHandshake's and the windows of *)
(* the quota are EndpointQuota's: here a connection is admitted or given   *)
(* up, and a window refuses when it likes.  The two services around the    *)
(* transport are external: an operation that changes anything appends one  *)
(* entry to the journal of each, once, and each keeps the newest head of   *)
(* the other as PeerHeadRegister does.  A head is the journal it was taken *)
(* of; its sequence is the length.  Whatever fails is a mishap.            *)
(***************************************************************************)
EXTENDS Envelope, Integers, Sequences, FiniteSets

CONSTANTS
  Client, Server,  \* [id, secret, uid]
  Versions,           \* the version window both ends support
  Ops, ReadOnly,   \* operations, and those whose is_read_only holds
  Calls, OpOf,     \* attempts, and the operation each one is for
  Timeout,         \* timeout_ms
  Deployments      \* edges, each with the bounds to look at it in:
                   \*   calls     the attempts that are made
                   \*   edge      [policy, protocol] of each attempt's caller
                   \*   policy    journal head policy of the endpoint
                   \*   slots     mutation slots
                   \*   time      bound on the clock, which both ends read
                   \*   mishaps   bound on failures and cancelled tasks
                   \*   restores  bound on restarts of the server from an older journal

ASSUME EdgeAssumption ==
  /\ ReadOnly \subseteq Ops /\ OpOf \in [Calls -> Ops]
  /\ Timeout \in Nat \ {0}
  /\ \A d \in Deployments :
       /\ DOMAIN d = {"calls", "edge", "policy", "slots", "time", "mishaps", "restores"}
       /\ d.calls \subseteq Calls /\ {d.slots, d.time, d.mishaps, d.restores} \subseteq Nat
       /\ \A c \in Calls : Contains(Versions, d.edge[c].protocol)

VARIABLES
  setup,         \* the deployment, one of Deployments
  now,           \* the system clock
  intents,       \* the client's journal: operations it set out to do
  journal,       \* the server's journal: [op, by, era]
  era,           \* restores of the server's journal so far
  heldByServer,  \* the client's journal as the server last retained its head
  heldByClient,  \* the server's journal as the client last retained its head
  caller,        \* where each caller is
  taken,         \* the head each caller took before it dialled
  request,       \* the request of each call, or NoFrame
  server,        \* where the server's task for each call is
  body,          \* what that task answers
  refused,       \* history: calls that were ever answered with an error
  head,          \* the server's journal when that task read it
  response,      \* the response of each call, or NoFrame
  outcome,       \* what each caller returned
  slots,         \* calls that hold a mutation slot
  mishaps        \* failures so far

services == <<intents, journal, era, heldByServer, heldByClient>>
callerVars == <<caller, taken, request, outcome>>
serverVars == <<server, body, refused, head, response, slots>>
vars == <<setup, now, services, callerVars, serverVars, mishaps>>

Edge == setup.edge
ServerPolicy == setup.policy
Slots == setup.slots
MaxTime == setup.time
MaxMishaps == setup.mishaps
MaxRestores == setup.restores

NoFrame == [kind |-> "none"]
None == "none"
Mutates(c) == OpOf[c] \notin ReadOnly

Init ==
  /\ setup \in Deployments
  /\ now = 0 /\ era = 0 /\ mishaps = 0
  /\ intents = <<>> /\ journal = <<>> /\ heldByServer = <<>> /\ heldByClient = <<>>
  /\ caller = [c \in Calls |-> "idle"] /\ taken = [c \in Calls |-> <<>>]
  /\ server = [c \in Calls |-> "unborn"]
  /\ refused = {}
  /\ body = [c \in Calls |-> None] /\ head = [c \in Calls |-> <<>>]
  /\ request = [c \in Calls |-> NoFrame] /\ response = [c \in Calls |-> NoFrame]
  /\ outcome = [c \in Calls |-> None]
  /\ slots = {}

Has(log, op) == \E i \in 1..Len(log) : log[i] = op
HasEffect(log, op) == \E i \in 1..Len(log) : log[i].op = op

\* The checkpoint sink: a newer sequence, or the head that is retained already.
Retains_OnlyNewer(held, at) == Len(at) > Len(held)
Retains(held, at) == Len(at) > Len(held) \/ at = held

AsPeer(service) == [id |-> service.id, public |-> service.secret, uid |-> service.uid]

\* require_live_deadline
Live(envelope) == envelope.deadline > now

(***************************************************************************)
(* The caller.                                                             *)
(***************************************************************************)
Ends(c, result) ==
  /\ caller' = [caller EXCEPT ![c] = "done"]
  /\ taken' = [taken EXCEPT ![c] = <<>>]
  /\ outcome' = [outcome EXCEPT ![c] = result]

\* The caller's service journals what it is about to do and takes its own head,
\* which it hands to call_with_journal_head.  It makes one attempt of an operation
\* after another, until one succeeds.
Begin(c) ==
  /\ c \in setup.calls /\ caller[c] = "idle"
  /\ \A d \in Calls : OpOf[d] = OpOf[c] =>
       caller[d] \in {"idle", "done"} /\ outcome[d] # "ok"
  /\ intents' = IF Mutates(c) /\ ~ Has(intents, OpOf[c])
                  THEN Append(intents, OpOf[c]) ELSE intents
  /\ taken' = [taken EXCEPT ![c] = intents']
  /\ caller' = [caller EXCEPT ![c] = "dialling"]
  /\ UNCHANGED <<setup, now, journal, era, heldByServer, heldByClient, request, outcome,
                 serverVars, mishaps>>

\* After the hello: reads the clock, signs and writes the request.  The deadline
\* runs from here; the head is the one taken before the hello.
Request(c) ==
  /\ caller[c] = "dialling"
  /\ request' = [request EXCEPT ![c] =
       SignRequest(Client.id, Client.secret, Server.id.svc, Edge[c].protocol,
         [op |-> OpOf[c]], now, now + Timeout,
         IF Edge[c].policy = "required"
           THEN SignHead(Client.id, Client.secret, taken[c]) ELSE NoHead)]
  /\ caller' = [caller EXCEPT ![c] = "waiting"]
  /\ taken' = [taken EXCEPT ![c] = <<>>]
  /\ server' = [server EXCEPT ![c] = "reading"]
  /\ UNCHANGED <<setup, now, services, outcome, body, refused, head, response, slots, mishaps>>

Acceptable(c) ==
  /\ VerifiesResponseTo(response[c], Server.uid, AsPeer(Server), Client.id.svc, request[c],
       Versions, Edge[c].policy)
  /\ Live(response[c])

Return_Unchecked(c) ==
  /\ caller[c] = "waiting" /\ response[c] # NoFrame
  /\ Ends(c, IF Acceptable(c) THEN response[c].body ELSE "failed")
  /\ IF /\ Acceptable(c) /\ Edge[c].policy = "required"
        /\ Retains(heldByClient, response[c].head.at)
       THEN heldByClient' = response[c].head.at
       ELSE UNCHANGED heldByClient
  /\ UNCHANGED <<setup, now, intents, journal, era, heldByServer, request, serverVars,
                 mishaps>>

\* Verifies the response and its deadline, then checkpoints its head, and only then
\* returns the body: a head that is refused is returned as an error.
Return(c) ==
  /\ caller[c] = "waiting" /\ response[c] # NoFrame
  /\ \/ /\ Acceptable(c) /\ Edge[c].policy = "required"
        /\ Retains(heldByClient, response[c].head.at)
        /\ heldByClient' = response[c].head.at
        /\ Ends(c, response[c].body)
     \/ /\ Acceptable(c) /\ Edge[c].policy = "forbidden"
        /\ Ends(c, response[c].body)
        /\ UNCHANGED heldByClient
     \/ /\ ~ Acceptable(c) \/ (Edge[c].policy = "required"
                               /\ ~ Retains(heldByClient, response[c].head.at))
        /\ Ends(c, "failed")
        /\ UNCHANGED heldByClient
  /\ UNCHANGED <<setup, now, intents, journal, era, heldByServer, request, serverVars,
                 mishaps>>

\* The sink fails, or the caller dies, after the head of a good response is retained.
ReturnFails(c) ==
  /\ caller[c] = "waiting" /\ response[c] # NoFrame /\ mishaps < MaxMishaps
  /\ Acceptable(c) /\ Edge[c].policy = "required"
  /\ Retains(heldByClient, response[c].head.at)
  /\ heldByClient' = response[c].head.at
  /\ Ends(c, "failed")
  /\ mishaps' = mishaps + 1
  /\ UNCHANGED <<setup, now, intents, journal, era, heldByServer, request, serverVars>>

\* The server has dropped the stream without answering.
MeetsEnd(c) ==
  /\ caller[c] = "waiting" /\ server[c] = "gone" /\ response[c] = NoFrame
  /\ Ends(c, "failed")
  /\ UNCHANGED <<setup, now, services, request, serverVars, mishaps>>

\* Any other failure of a call: the hello fails, the frame is not readable (the
\* shape limits bind the reader only), the sink cannot retain, the task is dropped.
GivesUp(c) ==
  /\ caller[c] \in {"dialling", "waiting"} /\ mishaps < MaxMishaps
  /\ Ends(c, "failed")
  /\ mishaps' = mishaps + 1
  /\ UNCHANGED <<setup, now, services, request, serverVars>>

(***************************************************************************)
(* The endpoint.                                                           *)
(***************************************************************************)
Goes(c, to) == server' = [server EXCEPT ![c] = to]

\* The task ends, with what it held in memory and its connection.
Leaves(c) ==
  /\ Goes(c, "gone")
  /\ body' = [body EXCEPT ![c] = None]
  /\ head' = [head EXCEPT ![c] = <<>>]

Answers(c, answer) ==
  /\ Goes(c, "handled")
  /\ body' = [body EXCEPT ![c] = answer]
  /\ refused' = IF answer = "ok" THEN refused ELSE refused \cup {c}

\* receive_request; an error drops the stream without an answer.
Receive(c) ==
  /\ server[c] = "reading"
  /\ IF /\ VerifiesTyped(request[c], Client.uid, AsPeer(Client), Server.id.svc, Versions,
             ServerPolicy)
        /\ Live(request[c])
       THEN Goes(c, IF ServerPolicy = "required" THEN "received" ELSE "checkpointed")
       ELSE Goes(c, "gone")
  /\ UNCHANGED <<setup, now, services, callerVars, body, refused, head, response, slots,
                 mishaps>>

Checkpoint_GoesOn(c) ==
  /\ server[c] = "received"
  /\ Goes(c, "checkpointed")
  /\ IF Retains(heldByServer, request[c].head.at)
       THEN heldByServer' = request[c].head.at /\ UNCHANGED refused
       ELSE refused' = refused \cup {c} /\ UNCHANGED heldByServer
  /\ UNCHANGED <<setup, now, intents, journal, era, heldByClient, callerVars, body, head,
                 response, slots, mishaps>>

\* checkpoint_request_head: a refusal is answered without asking the quota.
Checkpoint(c) ==
  /\ server[c] = "received"
  /\ IF Retains(heldByServer, request[c].head.at)
       THEN /\ heldByServer' = request[c].head.at
            /\ Goes(c, "checkpointed")
            /\ UNCHANGED <<body, refused>>
       ELSE Answers(c, "rejected") /\ UNCHANGED heldByServer
  /\ UNCHANGED <<setup, now, intents, journal, era, heldByClient, callerVars, head, response, slots,
                 mishaps>>

\* The sink fails before or after it has retained the head; the caller is told the same.
CheckpointFails(c) ==
  /\ server[c] = "received" /\ mishaps < MaxMishaps
  /\ \/ UNCHANGED heldByServer
     \/ /\ Retains(heldByServer, request[c].head.at)
        /\ heldByServer' = request[c].head.at
  /\ Answers(c, "rejected")
  /\ mishaps' = mishaps + 1
  /\ UNCHANGED <<setup, now, intents, journal, era, heldByClient, callerVars, head, response,
                 slots>>

Admit_OneTooMany(c) ==
  /\ server[c] = "checkpointed"
  /\ IF Mutates(c) /\ Cardinality(slots) > Slots
       THEN Answers(c, "busy") /\ UNCHANGED slots
       ELSE /\ Goes(c, "handling")
            /\ slots' = IF Mutates(c) THEN slots \cup {c} ELSE slots
            /\ UNCHANGED <<body, refused>>
  /\ UNCHANGED <<setup, now, services, callerVars, head, response, mishaps>>

\* quota.admit: a mutation takes a slot for as long as its handler runs.
Admit(c) ==
  /\ server[c] = "checkpointed"
  /\ IF Mutates(c) /\ Cardinality(slots) >= Slots
       THEN Answers(c, "busy") /\ UNCHANGED slots
       ELSE /\ Goes(c, "handling")
            /\ slots' = IF Mutates(c) THEN slots \cup {c} ELSE slots
            /\ UNCHANGED <<body, refused>>
  /\ UNCHANGED <<setup, now, services, callerVars, head, response, mishaps>>

\* A full window refuses.
WindowFull(c) ==
  /\ server[c] = "checkpointed" /\ mishaps < MaxMishaps
  /\ Answers(c, "busy")
  /\ mishaps' = mishaps + 1
  /\ UNCHANGED <<setup, now, services, callerVars, head, response, slots>>

Handle_KeepsSlot(c) ==
  /\ server[c] = "handling"
  /\ journal' = IF Mutates(c) /\ ~ HasEffect(journal, OpOf[c])
                  THEN Append(journal, [op |-> OpOf[c], by |-> c, era |-> era]) ELSE journal
  /\ Answers(c, "ok")
  /\ UNCHANGED <<setup, now, intents, era, heldByServer, heldByClient, callerVars, head, response,
                 slots, mishaps>>

\* The handler takes effect, once per operation, and its admission is dropped.
Handle(c) ==
  /\ server[c] = "handling"
  /\ journal' = IF Mutates(c) /\ ~ HasEffect(journal, OpOf[c])
                  THEN Append(journal, [op |-> OpOf[c], by |-> c, era |-> era]) ELSE journal
  /\ Answers(c, "ok")
  /\ slots' = slots \ {c}
  /\ UNCHANGED <<setup, now, intents, era, heldByServer, heldByClient, callerVars, head, response,
                 mishaps>>

\* The handler refuses.
Denies(c) ==
  /\ server[c] = "handling" /\ mishaps < MaxMishaps
  /\ Answers(c, "denied")
  /\ slots' = slots \ {c}
  /\ mishaps' = mishaps + 1
  /\ UNCHANGED <<setup, now, services, callerVars, head, response>>

\* local_journal_head, read after the handler, or after a refusal.
ReadHead_AsOfRequest(c) ==
  /\ server[c] = "handled"
  /\ head' = [head EXCEPT ![c] = heldByClient]
  /\ Goes(c, "answering")
  /\ UNCHANGED <<setup, now, services, callerVars, body, refused, response, slots, mishaps>>

ReadHead(c) ==
  /\ server[c] = "handled"
  /\ head' = [head EXCEPT ![c] = IF ServerPolicy = "required" THEN journal ELSE <<>>]
  /\ Goes(c, "answering")
  /\ UNCHANGED <<setup, now, services, callerVars, body, refused, response, slots, mishaps>>

\* send_response: refuses to sign after the deadline, and then drops the stream.
Respond(c) ==
  /\ server[c] = "answering"
  /\ Leaves(c)
  /\ IF now >= request[c].deadline THEN UNCHANGED response
     ELSE response' = [response EXCEPT ![c] =
       SignResponse(Server.id, Server.secret, request[c], body[c], now,
         IF ServerPolicy = "required" THEN SignHead(Server.id, Server.secret, head[c])
         ELSE NoHead)]
  /\ UNCHANGED <<setup, now, services, callerVars, refused, slots, mishaps>>

Busy(c) == server[c] \notin {"unborn", "gone"}

\* A task that fails (the local head or the clock cannot be read, the response is
\* too large to encode) or is dropped; its admission is dropped with it.
Aborts(c) ==
  /\ Busy(c) /\ mishaps < MaxMishaps
  /\ Leaves(c)
  /\ slots' = slots \ {c}
  /\ mishaps' = mishaps + 1
  /\ UNCHANGED <<setup, now, services, callerVars, refused, response>>

(***************************************************************************)
(* The machine.                                                            *)
(***************************************************************************)
Tick ==
  /\ now < MaxTime
  /\ now' = now + 1
  /\ UNCHANGED <<setup, services, callerVars, serverVars, mishaps>>

\* Every task of the server dies with its process; what both sides retain and
\* journal is durable.
Stop ==
  /\ server' = [c \in Calls |-> IF Busy(c) THEN "gone" ELSE server[c]]
  /\ body' = [c \in Calls |-> None] /\ head' = [c \in Calls |-> <<>>]
  /\ slots' = {}

Crash ==
  /\ mishaps < MaxMishaps /\ \E c \in Calls : Busy(c)
  /\ Stop
  /\ mishaps' = mishaps + 1
  /\ UNCHANGED <<setup, now, services, callerVars, refused, response>>

\* The server starts again from an older copy of its journal.
Restore ==
  /\ era < MaxRestores /\ journal # <<>>
  /\ Stop
  /\ \E n \in 0..(Len(journal) - 1) : journal' = SubSeq(journal, 1, n)
  /\ era' = era + 1
  /\ UNCHANGED <<setup, now, intents, heldByServer, heldByClient, callerVars, refused, response,
                 mishaps>>

CallerStep(c) == Begin(c) \/ Request(c) \/ Return(c) \/ MeetsEnd(c)
ServerStep(c) ==
  Receive(c) \/ Checkpoint(c) \/ Admit(c) \/ Handle(c) \/ ReadHead(c) \/ Respond(c)
Mishap(c) ==
  \/ ReturnFails(c) \/ GivesUp(c)
  \/ CheckpointFails(c) \/ WindowFull(c) \/ Denies(c) \/ Aborts(c)

Step(c) == CallerStep(c) \/ ServerStep(c)

Next ==
  \/ \E c \in Calls : Step(c) \/ Mishap(c)
  \/ Tick \/ Crash \/ Restore

Spec == Init /\ [][Next]_vars

\* Both runtimes keep polling their tasks, and a caller keeps retrying.  Of one call,
\* never both ends can go on by themselves.
FairSpec == Spec /\ \A c \in Calls : WF_vars(Step(c))

(***************************************************************************)
(* Correctness.                                                            *)
(***************************************************************************)
\* Every variable has its type; a slot is held exactly while its handler runs, not
\* while the answer is written to a slow caller and not after its task is dropped or
\* its process dies; and no more slots are held than there are.
TypeOK ==
  /\ setup \in Deployments
  /\ now \in 0..MaxTime /\ era \in 0..MaxRestores /\ mishaps \in 0..MaxMishaps
  /\ intents \in Seq(Ops) /\ heldByServer \in Seq(Ops) /\ taken \in [Calls -> Seq(Ops)]
  /\ LET Entries == [op : Ops, by : Calls, era : 0..MaxRestores]
     IN  journal \in Seq(Entries) /\ heldByClient \in Seq(Entries)
         /\ head \in [Calls -> Seq(Entries)]
  /\ caller \in [Calls -> {"idle", "dialling", "waiting", "done"}]
  /\ server \in [Calls -> {"unborn", "reading", "received", "checkpointed", "handling",
                           "handled", "answering", "gone"}]
  /\ body \in [Calls -> {None, "rejected", "busy", "ok", "denied"}]
  /\ outcome \in [Calls -> {None, "rejected", "busy", "ok", "denied", "failed"}]
  /\ refused \subseteq Calls
  /\ slots = {c \in Calls : server[c] = "handling" /\ Mutates(c)}
  /\ Cardinality(slots) <= Slots

\* A caller that is told its mutation succeeded holds, from then on, signed evidence
\* of a journal that contains the effect, or of a longer one: whatever else was in
\* flight, whichever tasks died.
OkCoversEffect ==
  \A c \in Calls : outcome[c] = "ok" /\ Edge[c].policy = "required" =>
    /\ Mutates(c) => HasEffect(response[c].head.at, OpOf[c])
    /\ Len(response[c].head.at) <= Len(heldByClient)

\* Nothing takes effect on the server before it retains the head its caller sent
\* with the request that asked for it, so no caller can later deny the request; an attempt
\* without a head, or in the version that has none, takes no effect; and no attempt that
\* is refused, by the sink, by the quota or by the handler, ever does.
EffectFollowsCheckpoint ==
  \A i \in 1..Len(journal) :
    LET by == journal[i].by
        asked == request[by].head
    IN  /\ by \notin refused
        /\ ServerPolicy = "required" =>
             /\ request[by].protocol.minor # 0 /\ asked # NoHead
             /\ Has(asked.at, journal[i].op)
             /\ Len(asked.at) <= Len(heldByServer)
             /\ asked.at = SubSeq(heldByServer, 1, Len(asked.at))

\* A result is never returned over a journal that is shorter than one behind an
\* earlier result, or that differs from it at the same length: after the server is
\* restored from an older journal, its answers are not believed until it has
\* outgrown what it lost.
OkNeverBehind ==
  [][\A c, d \in Calls :
       /\ outcome'[c] = "ok" /\ outcome[c] # "ok" /\ Edge[c].policy = "required"
       /\ outcome[d] = "ok" /\ Edge[d].policy = "required"
       => \/ Len(response[c].head.at) > Len(response[d].head.at)
          \/ response[c].head.at = response[d].head.at]_vars

\* Every call ends, answered or not, and every slot comes back.
CallsEnd ==
  /\ \A c \in Calls : caller[c] = "waiting" ~> caller[c] = "done"
  /\ []<>(slots = {})

Attempts(op) == {c \in setup.calls : OpOf[c] = op}

\* An operation that is attempted more often than anything goes wrong (mishaps, passing
\* deadlines, and heads of other calls that overtake its own on the way there or back)
\* succeeds in the end, although the failed attempts may have taken effect: whatever was
\* lost, the retained heads never shut a retry out.  It takes slots for the handlers of
\* abandoned attempts too, which go on without their callers: with fewer, an operation
\* can keep itself out.
Reconciles ==
  \A op \in Ops :
    LET others == Cardinality(setup.calls \ Attempts(op))
    IN  /\ Cardinality(Attempts(op)) > MaxMishaps + MaxTime \div Timeout + 2 * others
        /\ Slots > MaxMishaps + others
      => <>(\E c \in Attempts(op) : outcome[c] = "ok")
=============================================================================
