------------------------ MODULE HelloHandshakeProofs ------------------------
(***************************************************************************)
(* Proofs that two ends that admit one another agree on versions and       *)
(* identities, that the hello implements mutual admission, and that it     *)
(* ends without the two waiting for each other: for any configurations of  *)
(* the two ends and any number of dropped tasks.                           *)
(***************************************************************************)
EXTENDS HelloHandshake, SequenceTheorems, TLAPS

(***************************************************************************)
(* The four frames of a hello.                                             *)
(***************************************************************************)
FirstHello == Hello(cfg["server"], "of_server", cfg["server"].current)
Answer == Hello(cfg["client"], "of_server", cfg["server"].current)
Challenge == Hello(cfg["client"], "of_client", cfg["client"].current)
Proof == Hello(cfg["server"], "of_client", cfg["client"].current)

(***************************************************************************)
(* What can be on its way, by where the two ends are.  Nothing is said of  *)
(* the frames on their way to an end that has failed: it reads none.       *)
(***************************************************************************)
ClientBegins ==
  state["client"] \in {"start", "await_hello"} =>
    \/ state["server"] = "start" /\ inbox["client"] = <<>> /\ inbox["server"] = <<>>
    \/ state["server"] = "await_answer" /\ inbox["client"] = <<FirstHello>> /\ inbox["server"] = <<>>
    \/ state["server"] = "failed" /\ inbox["client"] \in {<<>>, <<FirstHello>>}

ClientHasAnswered ==
  state["client"] = "challenge" =>
    /\ inbox["client"] = <<>>
    /\ \/ state["server"] = "await_answer" /\ inbox["server"] = <<Answer>>
       \/ state["server"] = "await_challenge" /\ inbox["server"] = <<>>
       \/ state["server"] = "failed"

ClientAwaitsProof ==
  state["client"] = "await_proof" =>
    \/ state["server"] = "await_answer" /\ inbox["client"] = <<>> /\ inbox["server"] = <<Answer, Challenge>>
    \/ state["server"] = "await_challenge" /\ inbox["client"] = <<>> /\ inbox["server"] = <<Challenge>>
    \/ state["server"] = "ok" /\ inbox["client"] = <<Proof>>
    \/ state["server"] = "failed" /\ inbox["client"] = <<>>

ClientFailed ==
  state["client"] = "failed" =>
    \/ state["server"] = "start" /\ inbox["server"] = <<>>
    \/ state["server"] = "await_answer" /\ inbox["server"] \in {<<>>, <<Answer>>, <<Answer, Challenge>>}
    \/ state["server"] = "await_challenge" /\ inbox["server"] \in {<<>>, <<Challenge>>}
    \/ state["server"] \in {"ok", "failed"}

Roles ==
  /\ state["client"] \in {"start", "await_hello", "challenge", "await_proof", "ok", "failed"}
  /\ state["server"] \in {"start", "await_answer", "await_challenge", "ok", "failed"}

ClientDone == state["client"] = "ok" => state["server"] = "ok"

Shape ==
  Roles /\ ClientBegins /\ ClientHasAnswered /\ ClientAwaitsProof /\ ClientFailed /\ ClientDone

(***************************************************************************)
(* What the ends have made sure of.                                        *)
(***************************************************************************)
ClientSatisfied ==
  /\ Contains(cfg["client"].range, cfg["client"].current)
  /\ Contains(cfg["client"].range, cfg["server"].current)
  /\ Pinned(ServerPin, cfg["server"])

PinFound ==
  \E i \in PinsOfClient :
    /\ First(i, PinsOfClient)
    /\ chosen = cfg["server"].pins[i]
    /\ Pinned(cfg["server"].pins[i], cfg["client"])

Knows ==
  /\ state["client"] \in {"await_hello", "challenge", "await_proof", "ok"} => Starts("client")
  /\ state["server"] \in {"await_answer", "await_challenge", "ok"} => Starts("server")
  \* What the client found out outlives the client: it is in its answer.
  /\ \/ state["client"] \in {"challenge", "await_proof", "ok"}
     \/ state["server"] \in {"await_challenge", "ok"}
     \/ state["server"] = "await_answer" /\ inbox["server"] # <<>>
     => ClientSatisfied
  /\ state["server"] \in {"await_challenge", "ok"} => PinFound
  /\ state["server"] = "ok" => Contains(cfg["server"].range, cfg["client"].current)

Configured ==
  /\ cfg \in [Ends -> ClientConfigs \cup ServerConfigs]
  /\ cfg["client"] \in ClientConfigs /\ cfg["server"] \in ServerConfigs

IInv == Configured /\ TypeOK /\ Shape /\ Knows

(***************************************************************************)
(* Lemmas.                                                                 *)
(***************************************************************************)
\* The sequences of at most two frames that occur.
LEMMA OneFrame ==
  ASSUME NEW x
  PROVE  Append(<<>>, x) = <<x>> /\ Tail(<<x>>) = <<>> /\ Head(<<x>>) = x
OBVIOUS

LEMMA TwoFrames ==
  ASSUME NEW x, NEW y
  PROVE  Append(<<x>>, y) = <<x, y>> /\ Tail(<<x, y>>) = <<y>> /\ Head(<<x, y>>) = x
<1> DEFINE S == {x, y}
<1>1. <<x>> \in Seq(S) /\ <<x, y>> \in Seq(S) /\ y \in S
  OBVIOUS
<1>2. Append(<<x>>, y) \in Seq(S) /\ Len(Append(<<x>>, y)) = Len(<<x, y>>)
  BY <1>1
<1>3. Append(<<x>>, y)[1] = x /\ Append(<<x>>, y)[2] = y
  BY <1>1
<1>4. \A i \in 1..Len(<<x, y>>) : Append(<<x>>, y)[i] = <<x, y>>[i]
  BY <1>3
<1>5. Tail(<<x, y>>) = <<y>> /\ Head(<<x, y>>) = x
  OBVIOUS
<1> HIDE DEF S
<1> QED BY <1>1, <1>2, <1>4, <1>5, SeqEqual

\* What an end knows depends on the configurations alone.
LEMMA KnowledgeStays ==
  ASSUME UNCHANGED cfg
  PROVE  /\ FirstHello' = FirstHello /\ Answer' = Answer
         /\ Challenge' = Challenge /\ Proof' = Proof
         /\ ClientSatisfied' = ClientSatisfied
         /\ \A e \in Ends : Starts(e)' = Starts(e)
         /\ PinsOfClient' = PinsOfClient
         /\ Compatible' = Compatible
BY DEF FirstHello, Answer, Challenge, Proof, ClientSatisfied, Starts, Candidates, PinsOfClient,
       Compatible, SameVersions, ServerPin, Peer, Ends

\* The pin of a client's only peer carries the UID the kernel reports once it starts.
LEMMA StartedClientPin ==
  ASSUME Configured, Starts("client")
  PROVE  ServerPin.uid = cfg["server"].uid
<1>1. /\ cfg["client"].pins \in Seq({cfg["client"].pins[i] : i \in DOMAIN cfg["client"].pins})
      /\ Len(cfg["client"].pins) = 1
  BY HelloAssumption DEF Configured
<1>2. DOMAIN cfg["client"].pins = {1} /\ Head(cfg["client"].pins) = cfg["client"].pins[1]
  BY <1>1
<1>3. PICK i \in DOMAIN cfg["client"].pins : cfg["client"].pins[i].uid = cfg["server"].uid
  BY DEF Starts, Candidates, Peer
<1> QED BY <1>2, <1>3 DEF ServerPin

\* An end that fails disturbs nothing, unless it had admitted the other.
LEMMA FailingKeeps ==
  ASSUME IInv, NEW e \in Ends, state[e] # "ok",
         state' = [state EXCEPT ![e] = "failed"], UNCHANGED <<cfg, inbox, chosen>>
  PROVE  Configured' /\ Shape' /\ Knows'
<1> USE KnowledgeStays
<1>1. state \in [Ends -> States] /\ Ends = {"client", "server"}
  BY DEF IInv, TypeOK, Ends
<1>2. CASE e = "client"
  <2>1. state'["client"] = "failed" /\ state'["server"] = state["server"]
    BY <1>1, <1>2
  <2>2. Shape'
    <3>1. ClientFailed'
      <4>1. CASE state["client"] \in {"start", "await_hello"}
        BY <2>1, <4>1 DEF IInv, Shape, ClientBegins, ClientFailed
      <4>2. CASE state["client"] = "challenge"
        BY <2>1, <4>2 DEF IInv, Shape, ClientHasAnswered, ClientFailed
      <4>3. CASE state["client"] = "await_proof"
        BY <2>1, <4>3 DEF IInv, Shape, ClientAwaitsProof, ClientFailed
      <4>4. CASE state["client"] = "failed"
        BY <2>1, <4>4 DEF IInv, Shape, ClientFailed
      <4>5. state["client"] \in {"start", "await_hello", "challenge", "await_proof", "failed"}
        BY <1>2 DEF IInv, Shape, Roles
      <4> QED BY <4>1, <4>2, <4>3, <4>4, <4>5
    <3> QED BY <2>1, <3>1 DEF IInv, Shape, Roles, ClientBegins, ClientHasAnswered,
                             ClientAwaitsProof, ClientDone
  <2>3. Knows'
    BY <1>1, <2>1 DEF IInv, Knows, PinFound
  <2> QED BY <2>2, <2>3 DEF IInv, Configured
<1>3. CASE e = "server"
  <2>1. state'["server"] = "failed" /\ state'["client"] = state["client"]
        /\ state["server"] # "ok"
    BY <1>1, <1>3
  <2>2. Shape'
    BY <1>1, <2>1 DEF IInv, Shape, ClientBegins, ClientHasAnswered, ClientAwaitsProof,
       ClientFailed, ClientDone, Roles
  <2>3. Knows'
    BY <1>1, <2>1 DEF IInv, Knows, PinFound
  <2> QED BY <2>2, <2>3 DEF IInv, Configured
<1> QED BY <1>1, <1>2, <1>3

LEMMA InitInv == Init => IInv
<1> SUFFICES ASSUME Init PROVE IInv
  OBVIOUS
<1>1. Ends = {"client", "server"}
  BY DEF Ends
<1>2. Configured /\ TypeOK
  BY <1>1, HelloAssumption DEF Init, Configured, TypeOK, States
<1>3. state["client"] = "start" /\ state["server"] = "start"
      /\ inbox["client"] = <<>> /\ inbox["server"] = <<>>
  BY <1>1 DEF Init
<1>4. Shape
  BY <1>3 DEF Shape, Roles, ClientBegins, ClientHasAnswered, ClientAwaitsProof, ClientFailed,
              ClientDone
<1>5. Knows
  BY <1>3 DEF Knows
<1> QED BY <1>2, <1>4, <1>5 DEF IInv

(***************************************************************************)
(* The client.                                                             *)
(***************************************************************************)
LEMMA ClientStartsInv == ASSUME IInv, ClientStarts PROVE Configured' /\ Shape' /\ Knows'
<1> USE KnowledgeStays
<1>1. /\ state["client"] = "start" /\ Starts("client")
      /\ state'["client"] = "await_hello" /\ state'["server"] = state["server"]
      /\ UNCHANGED <<cfg, inbox, chosen>>
  BY DEF ClientStarts, Moves, IInv, TypeOK, Ends
<1>2. Shape'
  BY <1>1 DEF IInv, Shape, Roles, ClientBegins, ClientHasAnswered, ClientAwaitsProof,
              ClientFailed, ClientDone
<1>3. Knows'
  BY <1>1 DEF IInv, Knows, PinFound, Ends
<1> QED BY <1>1, <1>2, <1>3 DEF IInv, Configured

LEMMA ClientAnswersInv == ASSUME IInv, ClientAnswers PROVE Configured' /\ Shape' /\ Knows'
<1> USE KnowledgeStays
<1>1. /\ state["client"] = "await_hello" /\ inbox["client"] = <<FirstHello>>
      /\ \/ state["server"] = "await_answer" /\ inbox["server"] = <<>>
         \/ state["server"] = "failed"
      /\ UNCHANGED <<cfg, open, chosen>>
  BY DEF ClientAnswers, HasFrame, IInv, Shape, ClientBegins
<1>2. Frame("client") = FirstHello
  BY <1>1 DEF Frame
<1>3. ASSUME Fails("client") PROVE Configured' /\ Shape' /\ Knows'
  BY <1>1, <1>3, FailingKeeps DEF Fails, Moves, Ends
<1>4. ASSUME VerifyHello(FirstHello, ServerPin, cfg["client"].range), open["server"],
             state' = [state EXCEPT !["client"] = "challenge"],
             inbox' = [inbox EXCEPT !["client"] = Tail(@), !["server"] = Append(@, Answer)]
      PROVE  Configured' /\ Shape' /\ Knows'
  <2>1. /\ state'["client"] = "challenge" /\ state'["server"] = state["server"]
        /\ inbox'["client"] = <<>>
        /\ inbox["server"] = <<>> => inbox'["server"] = <<Answer>>
    <3>1. /\ state'["client"] = "challenge" /\ state'["server"] = state["server"]
          /\ inbox'["client"] = Tail(inbox["client"])
          /\ inbox'["server"] = Append(inbox["server"], Answer)
      BY <1>4 DEF IInv, TypeOK, Ends
    <3> QED BY <1>1, <3>1, OneFrame
  <2>2. ClientSatisfied
    <3>1. FirstHello.id = cfg["server"].id /\ FirstHello.sig = cfg["server"].secret
          /\ FirstHello.protocol = cfg["server"].current
      BY DEF FirstHello, Hello
    <3>2. Starts("client")
      BY <1>1 DEF IInv, Knows
    <3> QED BY <1>4, <3>1, <3>2, StartedClientPin
            DEF ClientSatisfied, VerifyHello, Pinned, IInv, Starts
  <2>3. Shape'
    BY <1>1, <2>1 DEF IInv, Shape, Roles, ClientBegins, ClientHasAnswered, ClientAwaitsProof,
                      ClientFailed, ClientDone
  <2>4. Knows'
    BY <1>1, <2>1, <2>2 DEF IInv, Knows, PinFound, Ends
  <2> QED BY <1>1, <2>3, <2>4 DEF IInv, Configured
<1>5. Hello(cfg["client"], FirstHello.challenge, FirstHello.protocol) = Answer
  BY DEF FirstHello, Answer, Hello
<1>6. VerifyHello(FirstHello, ServerPin, cfg["client"].range) /\ open["server"]
        => /\ state' = [state EXCEPT !["client"] = "challenge"]
           /\ inbox' = [inbox EXCEPT !["client"] = Tail(@), !["server"] = Append(@, Answer)]
  BY <1>2, <1>5 DEF ClientAnswers, ReadsAndWrites, Moves, Peer
<1>7. ~ (VerifyHello(FirstHello, ServerPin, cfg["client"].range) /\ open["server"]) => Fails("client")
  BY <1>2 DEF ClientAnswers, ReadsAndWrites, Peer
<1> QED BY <1>3, <1>4, <1>6, <1>7

LEMMA ClientChallengesInv == ASSUME IInv, ClientChallenges PROVE Configured' /\ Shape' /\ Knows'
<1> USE KnowledgeStays
<1>1. state["client"] = "challenge" /\ UNCHANGED <<cfg, open, chosen>>
  BY DEF ClientChallenges
<1>2. CASE ~ open["server"]
  <2>1. Fails("client")
    BY <1>2 DEF ClientChallenges, Writes, Peer
  <2> QED BY <1>1, <2>1, FailingKeeps DEF Fails, Moves, Ends
<1>3. CASE open["server"]
  <2>1. /\ state'["client"] = "await_proof" /\ state'["server"] = state["server"]
        /\ inbox'["client"] = <<>> /\ inbox["client"] = <<>>
        /\ inbox'["server"] = Append(inbox["server"], Challenge)
    BY <1>1, <1>3 DEF ClientChallenges, Writes, Moves, Peer, Challenge, IInv, TypeOK, Ends, Shape,
                      ClientHasAnswered
  <2>2. Append(<<Answer>>, Challenge) = <<Answer, Challenge>> /\ Append(<<>>, Challenge) = <<Challenge>>
    BY OneFrame, TwoFrames
  <2>3. Shape'
    BY <1>1, <2>1, <2>2 DEF IInv, Shape, Roles, ClientBegins, ClientHasAnswered,
                            ClientAwaitsProof, ClientFailed, ClientDone
  <2>4. Knows'
    BY <1>1, <2>1 DEF IInv, Knows, PinFound, Ends
  <2> QED BY <1>1, <2>3, <2>4 DEF IInv, Configured
<1> QED BY <1>2, <1>3

LEMMA ClientChecksProofInv == ASSUME IInv, ClientChecksProof PROVE Configured' /\ Shape' /\ Knows'
<1> USE KnowledgeStays
<1>1. /\ state["client"] = "await_proof" /\ inbox["client"] # <<>>
      /\ UNCHANGED <<cfg, open, chosen>>
      /\ Reads("client", "ok") \/ Fails("client")
  BY DEF ClientChecksProof, HasFrame
<1>2. state["server"] = "ok"
  BY <1>1 DEF IInv, Shape, ClientAwaitsProof
<1>3. CASE Fails("client")
  BY <1>1, <1>3, FailingKeeps DEF Fails, Moves, Ends
<1>4. CASE Reads("client", "ok")
  <2>1. state'["client"] = "ok" /\ state'["server"] = "ok" /\ inbox'["server"] = inbox["server"]
    BY <1>2, <1>4 DEF Reads, Moves, IInv, TypeOK, Ends
  <2>2. Shape'
    BY <2>1 DEF Shape, Roles, ClientBegins, ClientHasAnswered, ClientAwaitsProof, ClientFailed,
                ClientDone
  <2>3. Knows'
    BY <1>1, <1>2, <2>1 DEF IInv, Knows, PinFound, Ends
  <2> QED BY <1>1, <2>2, <2>3 DEF IInv, Configured
<1> QED BY <1>1, <1>3, <1>4

(***************************************************************************)
(* The server.                                                             *)
(***************************************************************************)
LEMMA ServerStartsInv == ASSUME IInv, ServerStarts PROVE Configured' /\ Shape' /\ Knows'
<1> USE KnowledgeStays
<1>1. /\ state["server"] = "start" /\ Starts("server") /\ UNCHANGED <<cfg, open, chosen>>
      /\ inbox["server"] = <<>>
  BY DEF ServerStarts, IInv, Shape, Roles, ClientBegins, ClientHasAnswered, ClientAwaitsProof,
         ClientFailed, ClientDone
<1>2. CASE ~ open["client"]
  <2>1. Fails("server")
    BY <1>2 DEF ServerStarts, Writes, Peer
  <2> QED BY <1>1, <2>1, FailingKeeps DEF Fails, Moves, Ends
<1>3. CASE open["client"]
  <2>1. /\ state'["server"] = "await_answer" /\ state'["client"] = state["client"]
        /\ inbox'["server"] = <<>>
        /\ inbox'["client"] = Append(inbox["client"], FirstHello)
    BY <1>1, <1>3 DEF ServerStarts, Writes, Moves, Peer, FirstHello, IInv, TypeOK, Ends
  <2>2. Shape'
    BY <1>1, <2>1, OneFrame DEF IInv, Shape, Roles, ClientBegins, ClientHasAnswered,
                                ClientAwaitsProof, ClientFailed, ClientDone
  <2>3. Knows'
    BY <1>1, <2>1 DEF IInv, Knows, PinFound, Ends, Shape, Roles, ClientHasAnswered,
                      ClientAwaitsProof, ClientDone
  <2> QED BY <1>1, <2>2, <2>3 DEF IInv, Configured
<1> QED BY <1>2, <1>3

LEMMA ServerChecksAnswerInv ==
  ASSUME IInv, ServerChecksAnswer PROVE Configured' /\ Shape' /\ Knows'
<1> USE KnowledgeStays
<1>1. /\ state["server"] = "await_answer" /\ inbox["server"] # <<>> /\ UNCHANGED <<cfg, open>>
  BY DEF ServerChecksAnswer, HasFrame
<1>2. /\ state["client"] \in {"challenge", "await_proof", "failed"}
      /\ inbox["server"] \in {<<Answer>>, <<Answer, Challenge>>}
      /\ state["client"] = "challenge" => inbox["server"] = <<Answer>>
      /\ state["client"] = "await_proof" => inbox["server"] = <<Answer, Challenge>>
  BY <1>1 DEF IInv, Shape, Roles, ClientBegins, ClientHasAnswered, ClientAwaitsProof,
              ClientFailed, ClientDone
<1>3. Frame("server") = Answer
  BY <1>2, OneFrame, TwoFrames DEF Frame
<1>4. Starts("server") /\ ClientSatisfied
  BY <1>1 DEF IInv, Knows
<1>5. ASSUME NEW i \in DOMAIN cfg["server"].pins, Selects(Frame("server"), i),
             Reads("server", "await_challenge"), chosen' = cfg["server"].pins[i]
      PROVE  Configured' /\ Shape' /\ Knows'
  <2>1. /\ state'["server"] = "await_challenge" /\ state'["client"] = state["client"]
        /\ inbox'["server"] = Tail(inbox["server"]) /\ inbox'["client"] = inbox["client"]
    BY <1>5 DEF Reads, Moves, IInv, TypeOK, Ends
  <2>2. /\ state["client"] = "challenge" => inbox'["server"] = <<>>
        /\ state["client"] = "await_proof" => inbox'["server"] = <<Challenge>>
        /\ inbox'["server"] \in {<<>>, <<Challenge>>}
    BY <1>2, <2>1, OneFrame, TwoFrames
  <2>3. PinFound'
    <3>1. Answer.id = cfg["client"].id /\ Answer.sig = cfg["client"].secret
      BY DEF Answer, Hello
    <3>2. Named(Answer) = PinsOfClient
      BY <3>1 DEF Named, Candidates, PinsOfClient, Peer
    <3>3. First(i, PinsOfClient) /\ Pinned(cfg["server"].pins[i], cfg["client"])
      BY <1>3, <1>5, <3>1, <3>2 DEF Selects, VerifyHello, Pinned, First, PinsOfClient
    <3>4. i \in PinsOfClient
      BY <3>3 DEF First
    <3> QED BY <1>1, <1>5, <3>3, <3>4 DEF PinFound, First, Pinned
  <2>4. Shape'
    BY <1>1, <1>2, <2>1, <2>2 DEF IInv, Shape, Roles, ClientBegins, ClientHasAnswered,
       ClientAwaitsProof, ClientFailed, ClientDone
  <2>5. Knows'
    BY <1>1, <1>4, <2>1, <2>3 DEF IInv, Knows, Ends
  <2> QED BY <1>1, <2>4, <2>5 DEF IInv, Configured
<1>6. ASSUME Fails("server"), UNCHANGED chosen PROVE Configured' /\ Shape' /\ Knows'
  BY <1>1, <1>6, FailingKeeps DEF Fails, Moves, Ends
<1> QED BY <1>5, <1>6 DEF ServerChecksAnswer

LEMMA ServerProvesInv == ASSUME IInv, ServerProves PROVE Configured' /\ Shape' /\ Knows'
<1> USE KnowledgeStays
<1>1. /\ state["server"] = "await_challenge" /\ inbox["server"] # <<>>
      /\ UNCHANGED <<cfg, open, chosen>>
  BY DEF ServerProves, HasFrame
<1>2. /\ state["client"] \in {"await_proof", "failed"}
      /\ inbox["server"] = <<Challenge>>
      /\ state["client"] = "await_proof" => inbox["client"] = <<>>
  BY <1>1 DEF IInv, Shape, Roles, ClientBegins, ClientHasAnswered, ClientAwaitsProof,
              ClientFailed, ClientDone
<1>3. Frame("server") = Challenge
  BY <1>2, OneFrame DEF Frame
<1>4. Starts("server") /\ ClientSatisfied /\ PinFound
  BY <1>1 DEF IInv, Knows
<1>5. ASSUME VerifyHello(Challenge, chosen, cfg["server"].range),
             state' = [state EXCEPT !["server"] = "ok"],
             inbox' = [inbox EXCEPT !["server"] = Tail(@), !["client"] = Append(@, Proof)]
      PROVE  Configured' /\ Shape' /\ Knows'
  <2>1. /\ state'["server"] = "ok" /\ state'["client"] = state["client"]
        /\ inbox'["client"] = Append(inbox["client"], Proof)
    BY <1>5 DEF IInv, TypeOK, Ends
  <2>2. Contains(cfg["server"].range, cfg["client"].current)
    BY <1>5 DEF VerifyHello, Challenge, Hello
  <2>3. Shape'
    BY <1>1, <1>2, <2>1, OneFrame DEF IInv, Shape, Roles, ClientBegins, ClientHasAnswered,
       ClientAwaitsProof, ClientFailed, ClientDone
  <2>4. PinFound'
    BY <1>1, <1>4 DEF PinFound, First, Pinned
  <2>5. Knows'
    BY <1>1, <1>2, <1>4, <2>1, <2>2, <2>4 DEF IInv, Knows, Ends
  <2> QED BY <1>1, <2>3, <2>5 DEF IInv, Configured
<1>6. ASSUME Fails("server") PROVE Configured' /\ Shape' /\ Knows'
  BY <1>1, <1>6, FailingKeeps DEF Fails, Moves, Ends
<1>7. Hello(cfg["server"], Challenge.challenge, Challenge.protocol) = Proof
  BY DEF Challenge, Proof, Hello
<1>8. \/ /\ VerifyHello(Challenge, chosen, cfg["server"].range)
         /\ state' = [state EXCEPT !["server"] = "ok"]
         /\ inbox' = [inbox EXCEPT !["server"] = Tail(@), !["client"] = Append(@, Proof)]
      \/ Fails("server")
  BY <1>3, <1>7 DEF ServerProves, ReadsAndWrites, Moves, Peer
<1> QED BY <1>5, <1>6, <1>8
(***************************************************************************)
(* The other steps, and the types.                                         *)
(***************************************************************************)
LEMMA FailsInv ==
  ASSUME IInv, NEW e \in Ends, state[e] # "ok", Fails(e), UNCHANGED <<cfg, chosen>>
  PROVE  Configured' /\ Shape' /\ Knows'
BY FailingKeeps DEF Fails, Moves

LEMMA DropsInv ==
  ASSUME IInv, UNCHANGED <<cfg, state, inbox, chosen>>
  PROVE  Configured' /\ Shape' /\ Knows'
<1> USE KnowledgeStays
<1>1. Shape'
  BY DEF IInv, Shape, Roles, ClientBegins, ClientHasAnswered, ClientAwaitsProof, ClientFailed,
         ClientDone
<1>2. Knows'
  BY DEF IInv, Knows, PinFound, Ends
<1> QED BY <1>1, <1>2 DEF IInv, Configured

LEMMA StepKeepsShape == ASSUME IInv, [Next]_vars PROVE Configured' /\ Shape' /\ Knows'
<1>1. ASSUME NEW e \in Ends, Step(e) PROVE Configured' /\ Shape' /\ Knows'
  <2>1. CASE Refuses(e)
    BY <1>1, <2>1, FailsInv DEF Refuses
  <2>2. CASE MeetsEnd(e)
    BY <1>1, <2>2, FailsInv DEF MeetsEnd
  <2>3. CASE Drops(e)
    BY <2>3, DropsInv DEF Drops
  <2>4. CASE ClientStarts \/ ClientAnswers \/ ClientChallenges \/ ClientChecksProof
    BY <2>4, ClientStartsInv, ClientAnswersInv, ClientChallengesInv, ClientChecksProofInv
  <2>5. CASE ServerStarts \/ ServerChecksAnswer \/ ServerProves
    BY <2>5, ServerStartsInv, ServerChecksAnswerInv, ServerProvesInv
  <2> QED BY <1>1, <2>1, <2>2, <2>3, <2>4, <2>5 DEF Step
<1>2. ASSUME NEW e \in Ends, Cancelled(e) PROVE Configured' /\ Shape' /\ Knows'
  BY <1>2, FailsInv DEF Cancelled, Ended
<1>3. CASE UNCHANGED vars
  BY <1>3, DropsInv DEF vars
<1> QED BY <1>1, <1>2, <1>3 DEF Next

\* The two variables that the frames go through.
Moved == state' \in [Ends -> States] /\ inbox' \in [Ends -> Seq(Frames)]

LEMMA MovesTyped ==
  ASSUME TypeOK, NEW e \in Ends, NEW to \in States, NEW frame \in Frames
  PROVE  /\ Writes(e, frame, to) => Moved
         /\ HasFrame(e) /\ ReadsAndWrites(e, frame, to) => Moved
         /\ HasFrame(e) /\ Reads(e, to) => Moved
         /\ Fails(e) => Moved
         /\ Moves(e, to) /\ UNCHANGED inbox => Moved
<1>1. /\ state \in [Ends -> States] /\ inbox \in [Ends -> Seq(Frames)]
      /\ Peer(e) \in Ends /\ Peer(e) # e /\ "failed" \in States
  BY DEF TypeOK, Peer, Ends, States
<1>2. Moves(e, to) => state' \in [Ends -> States]
  BY <1>1 DEF Moves
<1>3. Fails(e) => Moved
  BY <1>1 DEF Fails, Moves, Moved
<1>4. Append(inbox[Peer(e)], frame) \in Seq(Frames)
  BY <1>1
<1>5. HasFrame(e) => Tail(inbox[e]) \in Seq(Frames)
  BY <1>1 DEF HasFrame
<1>6. [inbox EXCEPT ![Peer(e)] = Append(@, frame)] \in [Ends -> Seq(Frames)]
  BY <1>1, <1>4
<1>7. HasFrame(e) => [inbox EXCEPT ![e] = Tail(@)] \in [Ends -> Seq(Frames)]
  BY <1>1, <1>5
<1>8. HasFrame(e) =>
        [inbox EXCEPT ![e] = Tail(@), ![Peer(e)] = Append(@, frame)] \in [Ends -> Seq(Frames)]
  BY <1>1, <1>4, <1>5
<1>9. Writes(e, frame, to) => Moved
  BY <1>2, <1>3, <1>6 DEF Writes, Moved
<1>10. HasFrame(e) /\ ReadsAndWrites(e, frame, to) => Moved
  BY <1>2, <1>3, <1>8 DEF ReadsAndWrites, Moves, Moved
<1> QED BY <1>1, <1>2, <1>3, <1>7, <1>9, <1>10 DEF Reads, Moved

LEMMA FramesTyped ==
  ASSUME TypeOK
  PROVE  FirstHello \in Frames /\ Answer \in Frames /\ Challenge \in Frames /\ Proof \in Frames
<1>1. cfg["client"] \in ClientConfigs \cup ServerConfigs /\ cfg["server"] \in ClientConfigs \cup ServerConfigs
  BY DEF TypeOK
<1> QED BY <1>1 DEF FirstHello, Answer, Challenge, Proof, Frames

\* The frame an end reads, and so the one it sends back.
LEMMA RepliesTyped ==
  ASSUME TypeOK, NEW e \in Ends, HasFrame(e)
  PROVE  Hello(cfg[e], Frame(e).challenge, Frame(e).protocol) \in Frames
<1>1. inbox[e] \in Seq(Frames) /\ inbox[e] # <<>>
  BY DEF TypeOK, HasFrame
<1>2. Frame(e) \in Frames
  BY <1>1 DEF Frame
<1>3. PICK c, v \in ClientConfigs \cup ServerConfigs, x \in {"of_client", "of_server"} :
        Frame(e) = Hello(c, x, v.current)
  BY <1>2 DEF Frames
<1>4. Frame(e).challenge = x /\ Frame(e).protocol = v.current
  BY <1>3 DEF Hello
<1>5. cfg[e] \in ClientConfigs \cup ServerConfigs
  BY DEF TypeOK, Ends
<1> QED BY <1>4, <1>5 DEF Frames

LEMMA StepKeepsMoved == ASSUME TypeOK, [Next]_vars PROVE Moved
<1> USE MovesTyped DEF States
<1>1. "client" \in Ends /\ "server" \in Ends /\ (\E frame : frame \in Frames)
  BY FramesTyped DEF Ends
<1>2. ASSUME NEW e \in Ends, Fails(e) \/ UNCHANGED <<state, inbox>> PROVE Moved
  BY <1>1, <1>2 DEF Moved, TypeOK
<1>3. ASSUME NEW e \in Ends, Step(e) PROVE Moved
  <2>1. CASE Refuses(e) \/ MeetsEnd(e) \/ Drops(e)
    BY <1>2, <2>1 DEF Refuses, MeetsEnd, Drops
  <2>2. CASE ClientStarts
    BY <1>1, <2>2 DEF ClientStarts
  <2>3. CASE ClientAnswers
    BY <1>1, <1>2, <2>3, RepliesTyped DEF ClientAnswers
  <2>4. CASE ClientChallenges
    BY <1>1, <2>4, FramesTyped DEF ClientChallenges, Challenge
  <2>5. CASE ClientChecksProof
    BY <1>1, <1>2, <2>5 DEF ClientChecksProof
  <2>6. CASE ServerStarts
    BY <1>1, <2>6, FramesTyped DEF ServerStarts, FirstHello
  <2>7. CASE ServerChecksAnswer
    BY <1>1, <1>2, <2>7 DEF ServerChecksAnswer
  <2>8. CASE ServerProves
    BY <1>1, <1>2, <2>8, RepliesTyped DEF ServerProves
  <2> QED BY <1>3, <2>1, <2>2, <2>3, <2>4, <2>5, <2>6, <2>7, <2>8 DEF Step
<1>4. ASSUME NEW e \in Ends, Cancelled(e) PROVE Moved
  BY <1>2, <1>4 DEF Cancelled
<1>5. CASE UNCHANGED vars
  BY <1>1, <1>2, <1>5 DEF vars
<1> QED BY <1>3, <1>4, <1>5 DEF Next

LEMMA StepKeepsTypes == ASSUME TypeOK, [Next]_vars PROVE TypeOK'
<1>1. UNCHANGED cfg
  BY DEF Next, Step, vars, Refuses, MeetsEnd, Drops, Cancelled, ClientStarts, ClientAnswers,
         ClientChallenges, ClientChecksProof, ServerStarts, ServerChecksAnswer, ServerProves
<1>2. open' \in [Ends -> BOOLEAN] /\ cancels' \in 0..MaxCancels
  <2>1. UNCHANGED <<open, cancels>> \/ (\E e \in Ends : Drops(e) \/ Cancelled(e))
    BY DEF Next, Step, vars, Refuses, MeetsEnd, ClientStarts, ClientAnswers,
           ClientChallenges, ClientChecksProof, ServerStarts, ServerChecksAnswer, ServerProves
  <2>2. open \in [Ends -> BOOLEAN] /\ cancels \in 0..MaxCancels /\ MaxCancels \in Nat
    BY HelloAssumption DEF TypeOK
  <2>3. ASSUME NEW e \in Ends, Drops(e) \/ Cancelled(e) PROVE open' \in [Ends -> BOOLEAN]
    BY <2>2, <2>3 DEF Drops, Cancelled
  <2>4. ASSUME NEW e \in Ends, Drops(e) \/ Cancelled(e) PROVE cancels' \in 0..MaxCancels
    BY <2>2, <2>4 DEF Drops, Cancelled
  <2> QED BY <2>1, <2>2, <2>3, <2>4
<1>3. UNCHANGED chosen \/ \E i \in DOMAIN cfg["server"].pins : chosen' = cfg["server"].pins[i]
  BY DEF Next, Step, vars, Refuses, MeetsEnd, Drops, Cancelled, ClientStarts, ClientAnswers,
         ClientChallenges, ClientChecksProof, ServerStarts, ServerChecksAnswer, ServerProves
<1>4. Moved
  BY StepKeepsMoved
<1> QED BY <1>1, <1>2, <1>3, <1>4 DEF TypeOK, Moved

LEMMA StepInv == IInv /\ [Next]_vars => IInv'
BY StepKeepsShape, StepKeepsTypes DEF IInv

(***************************************************************************)
(* The theorems.                                                           *)
(***************************************************************************)
LEMMA AlwaysIInv == Spec => []IInv
BY InitInv, StepInv, PTL DEF Spec

\* Every variable of the hello keeps its type, for any configurations.
THEOREM HelloTypeCorrect == Spec => []TypeOK
<1>1. IInv => TypeOK
  BY DEF IInv
<1> QED BY <1>1, AlwaysIInv, PTL

\* An end that admits the other does so between two compatible configurations.
LEMMA AdmissionCompatible ==
  ASSUME IInv, state["server"] = "ok"
  PROVE  Compatible /\ chosen # NoPin /\ Pinned(chosen, cfg["client"])
<1>1. Starts("server") /\ ClientSatisfied /\ PinFound
      /\ Contains(cfg["server"].range, cfg["client"].current)
  BY DEF IInv, Knows
<1>2. SameVersions(cfg["client"], cfg["server"])
  BY <1>1 DEF Starts, ClientSatisfied, SameVersions
<1>3. Compatible
  BY <1>1, <1>2 DEF Compatible, ClientSatisfied, PinFound
<1>4. chosen # NoPin /\ Pinned(chosen, cfg["client"])
  BY <1>1, HelloAssumption DEF PinFound, PinsOfClient, IInv, Configured
<1> QED BY <1>3, <1>4

\* Whichever end admits the other, both ends support both versions, and each has
\* the identity the other takes it for.
THEOREM HelloAgrees == Spec => []Agreement
<1>1. IInv => Agreement
  BY AdmissionCompatible DEF IInv, Shape, ClientDone, Agreement, VersionAgreement,
     IdentityAgreement, Compatible, Ends
<1> QED BY <1>1, AlwaysIInv, PTL

(***************************************************************************)
(* The hello implements mutual admission.                                  *)
(***************************************************************************)
\* What a step of an end changes of how the ends see each other.
LEMMA StepImplements == ASSUME IInv, IInv', [Next]_vars PROVE [Abstract!Next]_(Abstract!vars)
<1> USE DEF Abstract!Next, Abstract!vars, Abstract!AdmitClient, Abstract!AdmitServer,
            Abstract!RefuseClient, Abstract!RefuseServer, Seen
<1>1. UNCHANGED cfg
  BY DEF Next, Step, vars, Refuses, MeetsEnd, Drops, Cancelled, ClientStarts, ClientAnswers,
         ClientChallenges, ClientChecksProof, ServerStarts, ServerChecksAnswer, ServerProves
<1>2. Compatible' = Compatible
  BY <1>1, KnowledgeStays
<1>3. \A e \in Ends : state[e] # "ok" /\ Fails(e) => [Abstract!Next]_(Abstract!vars)
  BY <1>2 DEF Fails, Moves, IInv, TypeOK, Ends
<1>4. state' = state => [Abstract!Next]_(Abstract!vars)
  BY <1>2
<1>5. \A e \in Ends, to \in {"await_hello", "challenge", "await_proof", "await_answer", "await_challenge"} :
        state[e] \notin Ended /\ Moves(e, to) => [Abstract!Next]_(Abstract!vars)
  BY <1>2 DEF Moves, IInv, TypeOK, Ends, Ended
<1>6. ASSUME NEW e \in Ends, Step(e) PROVE [Abstract!Next]_(Abstract!vars)
  <2>1. CASE Refuses(e) \/ MeetsEnd(e)
    BY <1>3, <2>1 DEF Refuses, MeetsEnd
  <2>2. CASE Drops(e)
    BY <1>4, <2>2 DEF Drops
  <2>3. CASE ClientStarts \/ ClientAnswers \/ ClientChallenges
    BY <1>3, <1>5, <2>3 DEF ClientStarts, ClientAnswers, ClientChallenges, ReadsAndWrites, Writes,
                            Ended, Ends
  <2>4. CASE ClientChecksProof
    <3>1. state["client"] = "await_proof" /\ (Moves("client", "ok") \/ Fails("client"))
      BY <2>4 DEF ClientChecksProof, Reads
    <3>2. CASE Moves("client", "ok")
      <4>1. state'["client"] = "ok" /\ state'["server"] = state["server"]
        BY <3>2 DEF Moves, IInv, TypeOK, Ends
      <4>2. state["server"] = "ok"
        BY <4>1 DEF IInv, Shape, ClientDone
      <4> QED BY <1>2, <3>1, <4>1, <4>2
    <3> QED BY <1>3, <3>1, <3>2 DEF Ends
  <2>5. CASE ServerStarts \/ ServerChecksAnswer
    BY <1>3, <1>5, <2>5 DEF ServerStarts, ServerChecksAnswer, Writes, Reads, Ended, Ends
  <2>6. CASE ServerProves
    <3>1. state["server"] = "await_challenge" /\ (Moves("server", "ok") \/ Fails("server"))
      BY <2>6 DEF ServerProves, ReadsAndWrites
    <3>2. CASE Moves("server", "ok")
      <4>1. state'["server"] = "ok" /\ state'["client"] = state["client"]
        BY <3>2 DEF Moves, IInv, TypeOK, Ends
      <4>2. Compatible
        <5>1. Starts("server") /\ ClientSatisfied /\ PinFound
          BY <3>1 DEF IInv, Knows
        <5>2. Contains(cfg["server"].range, cfg["client"].current)
          BY <1>1, <4>1 DEF IInv, Knows
        <5> QED BY <5>1, <5>2 DEF Compatible, SameVersions, Starts, ClientSatisfied, PinFound
      <4> QED BY <1>2, <3>1, <4>1, <4>2
    <3> QED BY <1>3, <3>1, <3>2 DEF Ends
  <2> QED BY <1>6, <2>1, <2>2, <2>3, <2>4, <2>5, <2>6 DEF Step
<1>7. ASSUME NEW e \in Ends, Cancelled(e) PROVE [Abstract!Next]_(Abstract!vars)
  BY <1>3, <1>7 DEF Cancelled, Ended
<1>8. CASE UNCHANGED vars
  BY <1>4, <1>8 DEF vars
<1> QED BY <1>6, <1>7, <1>8 DEF Next

\* The hello implements mutual admission: a server admits only a compatible client,
\* a client only a server that has admitted it, and neither decides twice.
THEOREM HelloImplements == Spec => AbstractSpec
<1>1. Init => Abstract!Init
  BY DEF Init, Abstract!Init, Seen, Ends, Compatible, SameVersions, Contains, Pinned
<1> QED BY <1>1, AlwaysIInv, StepImplements, PTL DEF Spec, AbstractSpec, Abstract!Spec

(***************************************************************************)
(* What safety says of termination: the ends never wait for each other,    *)
(* and every step uses up one of a bounded number.                         *)
(***************************************************************************)
Waiting(e) == state[e] \in {"await_hello", "await_proof", "await_answer", "await_challenge"}

\* The end waits for a frame that is not on its way, of an end that holds the stream.
Starved(e) == Waiting(e) /\ ~ HasFrame(e) /\ open[Peer(e)]

\* A starved end has a peer that has not admitted it yet and that is not starved itself.
NobodyStarves == \A e \in Ends : Starved(e) => state[Peer(e)] # "ok" /\ ~ Starved(Peer(e))

\* The steps an end may still take; a failed end still has to drop its stream.
Left(e) ==
  CASE state[e] = "start" -> 5
    [] state[e] \in {"await_hello", "await_answer"} -> 4
    [] state[e] \in {"challenge", "await_challenge"} -> 3
    [] state[e] = "await_proof" -> 2
    [] state[e] = "ok" -> 0
    [] OTHER -> IF open[e] THEN 1 ELSE 0

\* authenticate_client and authenticate_server wait without a timeout, for a frame that the
\* other end must send.  Whatever their configurations and whoever fails or is dropped, the
\* two never wait for each other, nor for an end that is done.
THEOREM HelloNeverDeadlocks == Spec => []NobodyStarves
<1>1. ASSUME IInv PROVE NobodyStarves
  <2>1. Starved("client") => state["server"] # "ok" /\ ~ Starved("server")
    <3>1. \A x, y : <<x>> # <<>> /\ <<x, y>> # <<>>
      OBVIOUS
    <3>2. CASE state["client"] = "await_hello"
      BY <1>1, <3>1, <3>2 DEF Starved, Waiting, HasFrame, IInv, Shape, ClientBegins
    <3>3. CASE state["client"] = "await_proof"
      BY <1>1, <3>1, <3>3 DEF Starved, Waiting, HasFrame, IInv, Shape, ClientAwaitsProof
    <3> QED BY <1>1, <3>2, <3>3 DEF Starved, Waiting, IInv, Shape, Roles
  <2>2. Starved("server") => state["client"] # "ok"
    BY <1>1 DEF Starved, Waiting, IInv, Shape, ClientDone
  <2> QED BY <2>1, <2>2 DEF NobodyStarves, Ends, Peer
<1> QED BY <1>1, AlwaysIInv, PTL

\* Each step of either end, dropped tasks included, leaves less to do, so that no hello
\* takes more than ten.
THEOREM HelloRunsOut ==
  Spec => [][/\ Left("client") + Left("server") \in 0..10
             /\ Left("client")' + Left("server")' < Left("client") + Left("server")]_vars
<1> DEFINE Less(e) == Left(e)' < Left(e) /\ Left(Peer(e))' = Left(Peer(e))
<1> USE DEF Ends, Peer
<1>1. \A e \in Ends : Left(e) \in 0..5 /\ Left(e)' \in 0..5
  BY DEF Left
<1>2. ASSUME IInv, NEW e \in Ends, Step(e) \/ Cancelled(e) PROVE Less(e)
  <2>1. /\ state \in [Ends -> States] /\ open \in [Ends -> BOOLEAN]
        /\ Roles
    BY <1>2 DEF IInv, TypeOK, Shape
  <2>2. ASSUME state[e] \notin Ended, Moves(e, "failed"),
               open' = open \/ open' = [open EXCEPT ![e] = FALSE]
        PROVE  Less(e)
    BY <2>1, <2>2 DEF Left, Moves, Roles, Ended
  <2>3. ASSUME NEW to \in States, Moves(e, to), open' = open,
               \/ state[e] = "start" /\ to \in {"await_hello", "await_answer"}
               \/ state[e] \in {"await_hello", "await_answer"} /\ to \in {"challenge", "await_challenge"}
               \/ state[e] = "challenge" /\ to = "await_proof"
               \/ state[e] \in {"await_proof", "await_challenge"} /\ to = "ok"
        PROVE  Less(e)
    BY <2>1, <2>3 DEF Left, Moves
  <2>4. CASE Drops(e)
    BY <2>1, <2>4 DEF Drops, Left
  <2>5. CASE Cancelled(e) \/ Refuses(e) \/ MeetsEnd(e)
    BY <2>2, <2>5 DEF Cancelled, Refuses, MeetsEnd, Fails, Ended
  <2>6. CASE e = "client" /\ (ClientStarts \/ ClientAnswers \/ ClientChallenges \/ ClientChecksProof)
    BY <2>2, <2>3, <2>6 DEF ClientStarts, ClientAnswers, ClientChallenges, ClientChecksProof,
       ReadsAndWrites, Writes, Reads, Fails, Ended, States
  <2>7. CASE e = "server" /\ (ServerStarts \/ ServerChecksAnswer \/ ServerProves)
    BY <2>2, <2>3, <2>7 DEF ServerStarts, ServerChecksAnswer, ServerProves,
       ReadsAndWrites, Writes, Reads, Fails, Ended, States
  <2> QED BY <1>2, <2>4, <2>5, <2>6, <2>7 DEF Step
<1>3. IInv /\ [Next]_vars =>
        [/\ Left("client") + Left("server") \in 0..10
         /\ Left("client")' + Left("server")' < Left("client") + Left("server")]_vars
  <2> SUFFICES ASSUME IInv, Next
               PROVE  /\ Left("client") + Left("server") \in 0..10
                      /\ Left("client")' + Left("server")' < Left("client") + Left("server")
    OBVIOUS
  <2>1. PICK e \in Ends : Less(e)
    BY <1>2 DEF Next
  <2> HIDE DEF Less
  <2>2. \/ Left("client")' < Left("client") /\ Left("server")' = Left("server")
        \/ Left("server")' < Left("server") /\ Left("client")' = Left("client")
    BY <2>1 DEF Less
  <2> QED BY <1>1, <2>2
<1> QED BY <1>3, AlwaysIInv, PTL DEF Spec
=============================================================================
