--------------------------- MODULE HelloHandshake ---------------------------
(***************************************************************************)
(* The mutual hello of a local connection (authenticate_client,            *)
(* authenticate_server and authenticate_server_one_of of                   *)
(* crates/bloom-triad-local-transport).  Each end sends a fresh challenge  *)
(* in the version it starts with and the other signs it back in that same  *)
(* version; the server goes first.                                         *)
(*                                                                         *)
(* The ends are configured apart: each has its own identity, its own pins  *)
(* of the other, its own starting version and its own supported versions,  *)
(* so a connection may join any two configurations, stale ones included.   *)
(* The stream keeps order and loses nothing while both ends hold it.  An   *)
(* end that fails leaves the stream to its caller, who drops it; a task    *)
(* may also be dropped in the middle.  The code waits without a timeout.   *)
(***************************************************************************)
EXTENDS Envelope, Sequences

CONSTANTS
  ClientConfigs,  \* [id, secret, uid, pins, current, range]; a client has one pin
  ServerConfigs,  \* the same; pins is the closed peer set, in order
  MaxCancels      \* bound on tasks dropped in the middle

Ends == {"client", "server"}
Peer(e) == IF e = "client" THEN "server" ELSE "client"

NoPin == [id |-> "none"]

ASSUME HelloAssumption ==
  /\ \A c \in ClientConfigs \cup ServerConfigs : c.pins \in Seq({c.pins[i] : i \in DOMAIN c.pins})
  /\ \A c \in ClientConfigs : Len(c.pins) = 1
  /\ \A c \in ServerConfigs : \A i \in DOMAIN c.pins : c.pins[i] # NoPin
  /\ MaxCancels \in Nat

VARIABLES
  cfg,      \* the configuration of each end
  state,    \* where the task of each end is
  inbox,    \* frames on their way to each end
  open,     \* whether the end still holds the stream
  chosen,   \* the pin the server selected for this connection, or NoPin
  cancels   \* tasks that may still be dropped

vars == <<cfg, state, inbox, open, chosen, cancels>>

Ended == {"ok", "failed"}

Init ==
  /\ cfg \in [Ends -> ClientConfigs \cup ServerConfigs]
  /\ cfg["client"] \in ClientConfigs /\ cfg["server"] \in ServerConfigs
  /\ state = [e \in Ends |-> "start"]
  /\ inbox = [e \in Ends |-> <<>>]
  /\ open = [e \in Ends |-> TRUE]
  /\ chosen = NoPin
  /\ cancels = MaxCancels

\* signed_hello: a digest drawn by an end is named for that end, since random
\* digests never repeat.
Hello(c, challenge, protocol) ==
  [id |-> c.id, protocol |-> protocol, challenge |-> challenge, sig |-> c.secret]

\* verify_hello
VerifyHello_AnyVersion(hello, pin, range) == hello.id = pin.id /\ hello.sig = pin.public

VerifyHello(hello, pin, range) ==
  /\ Contains(range, hello.protocol)
  /\ hello.id = pin.id
  /\ hello.sig = pin.public

Moves(e, to) == state' = [state EXCEPT ![e] = to]
Fails(e) == Moves(e, "failed") /\ UNCHANGED inbox

\* write_frame: fails when the other end has dropped the stream.
Writes(e, frame, to) ==
  IF open[Peer(e)]
    THEN inbox' = [inbox EXCEPT ![Peer(e)] = Append(@, frame)] /\ Moves(e, to)
    ELSE Fails(e)

\* read_frame, then a write: consumes the first frame and sends another.
ReadsAndWrites(e, frame, to) ==
  IF open[Peer(e)]
    THEN /\ inbox' = [inbox EXCEPT ![e] = Tail(@), ![Peer(e)] = Append(@, frame)]
         /\ Moves(e, to)
    ELSE Fails(e)

Reads(e, to) == inbox' = [inbox EXCEPT ![e] = Tail(@)] /\ Moves(e, to)

HasFrame(e) == inbox[e] # <<>>
Frame(e) == Head(inbox[e])

\* The pins whose effective UID is the one the kernel reports for the other end.
Candidates(e) == {i \in DOMAIN cfg[e].pins : cfg[e].pins[i].uid = cfg[Peer(e)].uid}

\* supported_versions.require(current_version), and the check of the peer's UID.
Starts(e) == Contains(cfg[e].range, cfg[e].current) /\ Candidates(e) # {}

Refuses(e) ==
  /\ state[e] = "start" /\ ~ Starts(e)
  /\ Fails(e)
  /\ UNCHANGED <<cfg, open, chosen, cancels>>

ClientStarts ==
  /\ state["client"] = "start" /\ Starts("client")
  /\ Moves("client", "await_hello")
  /\ UNCHANGED <<cfg, inbox, open, chosen, cancels>>

ServerStarts ==
  /\ state["server"] = "start" /\ Starts("server")
  /\ Writes("server", Hello(cfg["server"], "of_server", cfg["server"].current), "await_answer")
  /\ UNCHANGED <<cfg, open, chosen, cancels>>

ServerPin == Head(cfg["client"].pins)

\* The client verifies the server's hello and signs its challenge back, in the
\* version of the server.
ClientAnswers_OwnVersion ==
  /\ state["client"] = "await_hello" /\ HasFrame("client")
  /\ IF VerifyHello(Frame("client"), ServerPin, cfg["client"].range)
       THEN ReadsAndWrites("client",
              Hello(cfg["client"], Frame("client").challenge, cfg["client"].current), "challenge")
       ELSE Fails("client")
  /\ UNCHANGED <<cfg, open, chosen, cancels>>

ClientAnswers ==
  /\ state["client"] = "await_hello" /\ HasFrame("client")
  /\ IF VerifyHello(Frame("client"), ServerPin, cfg["client"].range)
       THEN ReadsAndWrites("client",
              Hello(cfg["client"], Frame("client").challenge, Frame("client").protocol),
              "challenge")
       ELSE Fails("client")
  /\ UNCHANGED <<cfg, open, chosen, cancels>>

\* The client's own challenge, in its own version.
ClientChallenges ==
  /\ state["client"] = "challenge"
  /\ Writes("client", Hello(cfg["client"], "of_client", cfg["client"].current), "await_proof")
  /\ UNCHANGED <<cfg, open, chosen, cancels>>

ClientChecksProof_Early ==
  /\ state["client"] = "await_proof"
  /\ Moves("client", "ok")
  /\ UNCHANGED <<cfg, inbox, open, chosen, cancels>>

ClientChecksProof ==
  /\ state["client"] = "await_proof" /\ HasFrame("client")
  /\ IF /\ VerifyHello(Frame("client"), ServerPin, cfg["client"].range)
        /\ Frame("client").protocol = cfg["client"].current
        /\ Frame("client").challenge = "of_client"
       THEN Reads("client", "ok")
       ELSE Fails("client")
  /\ UNCHANGED <<cfg, open, chosen, cancels>>

\* The candidates whose service, boot epoch and key id are those of the hello.
Named(hello) == {i \in Candidates("server") : cfg["server"].pins[i].id = hello.id}
First(i, S) == i \in S /\ \A j \in S : i <= j

ServerChecksAnswer_BelievesHello ==
  /\ state["server"] = "await_answer" /\ HasFrame("server")
  /\ IF Named(Frame("server")) # {} /\ Frame("server").challenge = "of_server"
       THEN Reads("server", "await_challenge") /\ chosen' = Frame("server")
       ELSE Fails("server") /\ UNCHANGED chosen
  /\ UNCHANGED <<cfg, open, cancels>>

\* The server picks the pin the answer names (the only one, for a single peer),
\* and checks that its challenge came back, in its version.
Selects(hello, i) ==
  /\ First(i, Named(hello))
  /\ VerifyHello(hello, cfg["server"].pins[i], cfg["server"].range)
  /\ hello.protocol = cfg["server"].current
  /\ hello.challenge = "of_server"

ServerChecksAnswer ==
  /\ state["server"] = "await_answer" /\ HasFrame("server")
  /\ \/ \E i \in DOMAIN cfg["server"].pins :
          /\ Selects(Frame("server"), i)
          /\ Reads("server", "await_challenge")
          /\ chosen' = cfg["server"].pins[i]
     \/ /\ \A i \in DOMAIN cfg["server"].pins : ~ Selects(Frame("server"), i)
        /\ Fails("server")
        /\ UNCHANGED chosen
  /\ UNCHANGED <<cfg, open, cancels>>

\* The server signs the client's challenge back, in the version of the client.
ServerProves ==
  /\ state["server"] = "await_challenge" /\ HasFrame("server")
  /\ IF VerifyHello(Frame("server"), chosen, cfg["server"].range)
       THEN ReadsAndWrites("server",
              Hello(cfg["server"], Frame("server").challenge, Frame("server").protocol), "ok")
       ELSE Fails("server")
  /\ UNCHANGED <<cfg, open, chosen, cancels>>

\* read_frame meets the end of a stream the other end has dropped.
MeetsEnd(e) ==
  /\ state[e] \in {"await_hello", "await_proof", "await_answer", "await_challenge"}
  /\ ~ HasFrame(e) /\ ~ open[Peer(e)]
  /\ Fails(e)
  /\ UNCHANGED <<cfg, open, chosen, cancels>>

Drops_ClientOnly(e) ==
  /\ e = "client" /\ state[e] = "failed" /\ open[e]
  /\ open' = [open EXCEPT ![e] = FALSE]
  /\ UNCHANGED <<cfg, state, inbox, chosen, cancels>>

\* The caller of a failed call drops the stream.
Drops(e) ==
  /\ state[e] = "failed" /\ open[e]
  /\ open' = [open EXCEPT ![e] = FALSE]
  /\ UNCHANGED <<cfg, state, inbox, chosen, cancels>>

\* The task is dropped where it waits, by its caller or with its process.
Cancelled(e) ==
  /\ cancels > 0 /\ state[e] \notin Ended
  /\ Fails(e)
  /\ open' = [open EXCEPT ![e] = FALSE]
  /\ cancels' = cancels - 1
  /\ UNCHANGED <<cfg, chosen>>

Step(e) ==
  \/ Refuses(e)
  \/ e = "client" /\ (ClientStarts \/ ClientAnswers \/ ClientChallenges \/ ClientChecksProof)
  \/ e = "server" /\ (ServerStarts \/ ServerChecksAnswer \/ ServerProves)
  \/ MeetsEnd(e)
  \/ Drops(e)

Next == \E e \in Ends : Step(e) \/ Cancelled(e)

Spec == Init /\ [][Next]_vars

\* Each end's runtime keeps polling its task, and each caller drops a failed
\* stream; nothing obliges anybody to cancel.
FairSpec == Spec /\ \A e \in Ends : WF_vars(Step(e))

(***************************************************************************)
(* Correctness.                                                            *)
(***************************************************************************)
\* Each end is, by key and kernel UID, the one that the other pins.
Pinned(pin, c) == pin.id = c.id /\ pin.public = c.secret /\ pin.uid = c.uid

SameVersions(c, s) ==
  /\ Contains(c.range, c.current) /\ Contains(c.range, s.current)
  /\ Contains(s.range, c.current) /\ Contains(s.range, s.current)

\* The pins the server's peer set has for the client's UID and identity.
PinsOfClient == {i \in DOMAIN cfg["server"].pins :
                   /\ cfg["server"].pins[i].uid = cfg["client"].uid
                   /\ cfg["server"].pins[i].id = cfg["client"].id}

Compatible ==
  /\ SameVersions(cfg["client"], cfg["server"])
  /\ Pinned(ServerPin, cfg["server"])
  /\ \E i \in PinsOfClient :
       First(i, PinsOfClient) /\ Pinned(cfg["server"].pins[i], cfg["client"])

States == {"start", "await_hello", "challenge", "await_proof", "await_answer",
           "await_challenge", "ok", "failed"}
Frames == {Hello(c, challenge, v.current) :
             c \in ClientConfigs \cup ServerConfigs,
             v \in ClientConfigs \cup ServerConfigs,
             challenge \in {"of_client", "of_server"}}

\* Every variable has its type.
TypeOK ==
  /\ cfg["client"] \in ClientConfigs /\ cfg["server"] \in ServerConfigs
  /\ state \in [Ends -> States]
  /\ inbox \in [Ends -> Seq(Frames)]
  /\ open \in [Ends -> BOOLEAN]
  /\ chosen = NoPin \/ \E i \in DOMAIN cfg["server"].pins : chosen = cfg["server"].pins[i]
  /\ cancels \in 0..MaxCancels

\* Whichever end admits the other, both versions are supported on both sides,
\* though neither end ever sees the other's window: no connection starts that one
\* of its later envelopes would break.
VersionAgreement ==
  \A e \in Ends : state[e] = "ok" => SameVersions(cfg["client"], cfg["server"])

\* The identity a server with several peers of one UID returns is that of the
\* process at the other end, for both of its hellos; and the client's is the
\* server it dialled for.
IdentityAgreement ==
  /\ state["server"] = "ok" => chosen # NoPin /\ Pinned(chosen, cfg["client"])
  /\ state["client"] = "ok" => Pinned(ServerPin, cfg["server"])

\* Both ends that admit one another mean the same versions and the same identities.
Agreement == VersionAgreement /\ IdentityAgreement

\* The hello implements mutual admission: in particular a client never goes on
\* with a server that has not admitted it.
Seen(e) == IF state[e] = "ok" THEN "admitted" ELSE IF state[e] = "failed" THEN "refused"
           ELSE "pending"

Abstract == INSTANCE MutualAdmission
  WITH compatible <- Compatible, server <- Seen("server"), client <- Seen("client")

AbstractSpec == Abstract!Spec

\* No end waits for ever, whatever the configurations and whoever gives up.
BothEnd == <>(state["client"] \in Ended /\ state["server"] \in Ended)

\* Ends whose versions differ but are supported on both sides do get through,
\* unless a task was dropped.
CompatibleSucceed ==
  Compatible ~> ((state["client"] = "ok" /\ state["server"] = "ok") \/ cancels < MaxCancels)
=============================================================================
