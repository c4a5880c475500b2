------------------------- MODULE AuthorityEdgeProofs -------------------------
(***************************************************************************)
(* Proofs about calls over an authority edge, for any calls, operations    *)
(* and deployments, whatever fails, and however often the server is        *)
(* restored from an older journal: nothing takes effect on the server      *)
(* before it retains the journal head its caller sent; a slot is held      *)
(* exactly while its handler runs; a caller that is told of a success      *)
(* retains a head that covers it, and never one behind an earlier one; no  *)
(* honest head is taken for a fork; and every call runs out of steps.      *)
(***************************************************************************)
EXTENDS AuthorityEdge, SequenceTheorems, FiniteSetTheorems, TLAPS

Prefix(s, t) == Len(s) <= Len(t) /\ \A i \in 1..Len(s) : s[i] = t[i]

Asked(c) == request[c].head
Effects(c) == {i \in 1..Len(journal) : journal[i].by = c}

\* The types that the argument needs.
Types ==
  /\ intents \in Seq(Ops) /\ heldByServer \in Seq(Ops)
  /\ journal \in Seq([op : Ops, by : Calls, era : Nat])
  /\ caller \in [Calls -> {"idle", "dialling", "waiting", "done"}]
  /\ server \in [Calls -> {"unborn", "reading", "received", "checkpointed", "handling",
                           "handled", "answering", "gone"}]
  /\ taken \in [Calls -> Seq(Ops)]
  /\ DOMAIN request = Calls
  /\ era \in Nat

\* A head of c says at least that c's service set out to do what c asks for.
CoversIntent(c, at) == at \in Seq(Ops) /\ Prefix(at, intents) /\ (Mutates(c) => Has(at, OpOf[c]))

\* The server knows of a call only after its request, which is written once; heads only
\* look back on the one journal of the client.
Requested ==
  /\ Prefix(heldByServer, intents)
  /\ \A c \in Calls :
       /\ caller[c] \in {"idle", "dialling"} => server[c] = "unborn" /\ Effects(c) = {}
       /\ caller[c] = "dialling" => CoversIntent(c, taken[c])
       /\ server[c] # "unborn" =>
            /\ request[c].body.op = OpOf[c]
            /\ Asked(c) # NoHead => CoversIntent(c, Asked(c).at)
       /\ Effects(c) # {} => server[c] # "unborn"

\* What passed the checkpoint had a head, and the server retains it, or a longer one.
Retained(c) == Asked(c) # NoHead /\ Prefix(Asked(c).at, heldByServer)
Checkpointed ==
  \A c \in Calls :
    /\ server[c] = "received" => ServerPolicy = "required" /\ Asked(c) # NoHead
    /\ /\ ServerPolicy = "required"
       /\ server[c] \in {"checkpointed", "handling"} \/ Effects(c) # {}
       => Retained(c)

Mutations ==
  \A i \in 1..Len(journal) : Mutates(journal[i].by) /\ journal[i].op = OpOf[journal[i].by]

IInv == Types /\ Requested /\ Checkpointed /\ Mutations

LEMMA PrefixOfLonger ==
  ASSUME NEW S, NEW s \in Seq(S), NEW t \in Seq(S), NEW e \in S, Prefix(s, t)
  PROVE  Prefix(s, Append(t, e))
BY DEF Prefix

LEMMA PrefixesOfOne ==
  ASSUME NEW S, NEW s \in Seq(S), NEW t \in Seq(S), NEW u \in Seq(S),
         Prefix(s, u), Prefix(t, u), Len(s) <= Len(t)
  PROVE  Prefix(s, t)
BY DEF Prefix

LEMMA PrefixTransitive ==
  ASSUME NEW S, NEW s \in Seq(S), NEW t \in Seq(S), NEW u \in Seq(S),
         Prefix(s, t), Prefix(t, u)
  PROVE  Prefix(s, u)
BY DEF Prefix

LEMMA PrefixIsSubSeq ==
  ASSUME NEW S, NEW s \in Seq(S), NEW t \in Seq(S), Prefix(s, t)
  PROVE  s = SubSeq(t, 1, Len(s))
<1>1. SubSeq(t, 1, Len(s)) \in Seq(S) /\ Len(SubSeq(t, 1, Len(s))) = Len(s)
  BY DEF Prefix
<1>2. \A i \in 1..Len(s) : SubSeq(t, 1, Len(s))[i] = s[i]
  BY DEF Prefix
<1> QED BY <1>1, <1>2, SeqEqual

LEMMA InitInv == Init => IInv
<1> SUFFICES ASSUME Init PROVE IInv
  OBVIOUS
<1> USE DEF Init
<1>1. Types
  BY DEF Types
<1>2. journal = <<>> /\ Len(journal) = 0 /\ \A c \in Calls : Effects(c) = {}
  BY DEF Effects
<1>3. Requested
  BY <1>2 DEF Requested, Prefix
<1>4. Checkpointed /\ Mutations
  BY <1>2 DEF Checkpointed, Mutations
<1> QED BY <1>1, <1>3, <1>4 DEF IInv

\* A step that only moves calls on, away from where they could begin or be let in.
Moves ==
  /\ UNCHANGED <<setup, intents, journal, era, heldByServer, request>>
  /\ Types'
  /\ \A c \in Calls :
       /\ caller'[c] = "done" \/ (caller'[c] = caller[c] /\ taken'[c] = taken[c])
       /\ \/ server'[c] = server[c]
          \/ server[c] # "unborn" /\ server'[c] \in {"handled", "answering", "gone"}
          \/ server[c] = "checkpointed" /\ server'[c] = "handling"

LEMMA MovesInv == IInv /\ Moves => IInv'
<1> SUFFICES ASSUME IInv, Moves PROVE IInv'
  OBVIOUS
<1>1. \A c \in Calls : Effects(c)' = Effects(c) /\ Asked(c)' = Asked(c)
  BY DEF Moves, Effects, Asked
<1>2. \A c \in Calls : Retained(c)' = Retained(c)
  BY <1>1 DEF Moves, Retained
<1>3. \A c \in Calls :
        /\ caller[c]' = "done" \/ (caller[c]' = caller[c] /\ taken[c]' = taken[c])
        /\ \/ server[c]' = server[c]
           \/ server[c] # "unborn" /\ server[c]' \in {"handled", "answering", "gone"}
           \/ server[c] = "checkpointed" /\ server[c]' = "handling"
  BY DEF Moves
<1>4. intents' = intents /\ heldByServer' = heldByServer /\ request' = request
  BY DEF Moves
<1>5. Requested'
  <2>1. Prefix(heldByServer, intents)'
    BY <1>4 DEF IInv, Requested
  <2>2. ASSUME NEW c \in Calls, caller[c]' \in {"idle", "dialling"}
        PROVE  server[c]' = "unborn" /\ Effects(c)' = {}
    BY <1>1, <1>3, <2>2 DEF IInv, Requested
  <2>3. ASSUME NEW c \in Calls, caller[c]' = "dialling" PROVE CoversIntent(c, taken[c])'
    BY <1>3, <1>4, <2>3 DEF IInv, Requested, CoversIntent
  <2>4. ASSUME NEW c \in Calls, server[c]' # "unborn"
        PROVE  /\ (request[c].body.op = OpOf[c])'
               /\ (Asked(c) # NoHead => CoversIntent(c, Asked(c).at))'
    BY <1>1, <1>3, <1>4, <2>4 DEF IInv, Requested, CoversIntent
  <2>5. ASSUME NEW c \in Calls, Effects(c)' # {} PROVE server[c]' # "unborn"
    BY <1>1, <1>3, <2>5 DEF IInv, Requested
  <2> QED BY <2>1, <2>2, <2>3, <2>4, <2>5 DEF Requested
<1>6. Checkpointed'
  BY <1>1, <1>2, <1>3 DEF IInv, Checkpointed, ServerPolicy, Moves
<1>7. Mutations'
  BY DEF IInv, Mutations, Moves
<1> QED BY <1>5, <1>6, <1>7 DEF IInv, Moves

LEMMA BeginInv ==
  ASSUME IInv, NEW c \in Calls, Begin(c)
  PROVE  IInv'
<1> USE EdgeAssumption DEF IInv
<1>1. /\ UNCHANGED <<setup, journal, era, heldByServer, request, server>>
      /\ intents' = IF Mutates(c) /\ ~ Has(intents, OpOf[c])
                      THEN Append(intents, OpOf[c]) ELSE intents
      /\ taken' = [taken EXCEPT ![c] = intents'] /\ caller[c] = "idle"
      /\ caller' = [caller EXCEPT ![c] = "dialling"]
  BY DEF Begin, serverVars
<1>2. intents' \in Seq(Ops) /\ OpOf[c] \in Ops
  BY <1>1 DEF Types
<1>3. ASSUME NEW s \in Seq(Ops), Prefix(s, intents) PROVE Prefix(s, intents')
  BY <1>1, <1>2, <1>3, PrefixOfLonger DEF Types
<1>4. Types'
  BY <1>1, <1>2 DEF Types
<1>5. CoversIntent(c, intents)'
  <2>1. Prefix(intents, intents)'
    BY <1>2 DEF Prefix
  <2>2. Mutates(c) => Has(intents, OpOf[c])'
    <3>1. CASE intents' = Append(intents, OpOf[c])
      <4>1. intents'[Len(intents) + 1] = OpOf[c] /\ Len(intents') = Len(intents) + 1
        BY <1>2, <3>1 DEF Types
      <4>2. Len(intents) + 1 \in 1..Len(intents')
        BY <4>1 DEF Types
      <4> QED BY <4>1, <4>2 DEF Has
    <3>2. CASE intents' = intents
      BY <1>1, <3>2 DEF Has
    <3>3. CASE ~ Mutates(c)
      BY <3>3
    <3> QED BY <1>1, <3>1, <3>2, <3>3
  <2> QED BY <1>2, <2>1, <2>2 DEF CoversIntent, Mutates
<1>6. \A d \in Calls, at \in Seq(Ops) : CoversIntent(d, at) => CoversIntent(d, at)'
  BY <1>3 DEF CoversIntent, Mutates
<1>7. \A d \in Calls : Effects(d)' = Effects(d) /\ Asked(d)' = Asked(d)
  BY <1>1 DEF Effects, Asked
<1>8. Requested'
  <2>1. Prefix(heldByServer, intents)'
    BY <1>1, <1>3 DEF Requested, Types
  <2>2. ASSUME NEW d \in Calls, caller[d]' \in {"idle", "dialling"}
        PROVE  server[d]' = "unborn" /\ Effects(d)' = {}
    BY <1>1, <1>7, <2>2 DEF Requested, Types
  <2>3. ASSUME NEW d \in Calls, caller[d]' = "dialling" PROVE CoversIntent(d, taken[d])'
    <3>1. CASE d = c
      <4>1. taken'[c] = intents'
        BY <1>1 DEF Types
      <4> QED BY <1>5, <3>1, <4>1 DEF CoversIntent
    <3>2. CASE d # c
      <4>1. taken[d]' = taken[d] /\ caller[d] = "dialling" /\ taken[d] \in Seq(Ops)
        BY <1>1, <2>3, <3>2 DEF Types
      <4>2. CoversIntent(d, taken[d])
        BY <4>1 DEF Requested
      <4> QED BY <1>6, <4>1, <4>2 DEF CoversIntent
    <3> QED BY <3>1, <3>2
  <2>4. ASSUME NEW d \in Calls, server[d]' # "unborn"
        PROVE  /\ (request[d].body.op = OpOf[d])'
               /\ (Asked(d) # NoHead => CoversIntent(d, Asked(d).at))'
    <3>1. /\ request[d].body.op = OpOf[d]
          /\ Asked(d) # NoHead => CoversIntent(d, Asked(d).at) /\ Asked(d).at \in Seq(Ops)
      BY <1>1, <2>4 DEF Requested, CoversIntent
    <3> QED BY <1>1, <1>6, <1>7, <3>1 DEF CoversIntent
  <2>5. ASSUME NEW d \in Calls, Effects(d)' # {} PROVE server[d]' # "unborn"
    BY <1>1, <1>7, <2>5 DEF Requested
  <2> QED BY <2>1, <2>2, <2>3, <2>4, <2>5 DEF Requested
<1>9. Checkpointed' /\ Mutations'
  BY <1>1, <1>7 DEF Checkpointed, Retained, Mutations, ServerPolicy
<1> QED BY <1>4, <1>8, <1>9

LEMMA RequestInv ==
  ASSUME IInv, NEW c \in Calls, Request(c)
  PROVE  IInv'
<1> USE DEF IInv
<1>1. /\ UNCHANGED <<setup, intents, journal, era, heldByServer>>
      /\ caller[c] = "dialling"
      /\ caller' = [caller EXCEPT ![c] = "waiting"]
      /\ taken' = [taken EXCEPT ![c] = <<>>]
      /\ server' = [server EXCEPT ![c] = "reading"]
  BY DEF Request, services
<1>2. PICK h \in {NoHead, SignHead(Client.id, Client.secret, taken[c])} :
        request' = [request EXCEPT ![c] =
          SignRequest(Client.id, Client.secret, Server.id.svc, Edge[c].protocol,
                      [op |-> OpOf[c]], now, now + Timeout, h)]
  BY DEF Request
<1>3. Types'
  BY <1>1, <1>2 DEF Types
<1>4. request'[c].body.op = OpOf[c] /\ request'[c].head = h
  BY <1>2 DEF SignRequest, Types
<1>5. Asked(c)' # NoHead => Asked(c)'.at = taken[c]
  BY <1>4 DEF SignHead, Asked
<1>6. \A d \in Calls : Effects(d)' = Effects(d)
  BY <1>1 DEF Effects
<1>7. \A d \in Calls \ {c} :
        /\ caller[d]' = caller[d] /\ taken[d]' = taken[d] /\ server[d]' = server[d]
        /\ request[d]' = request[d]
  BY <1>1, <1>2 DEF Types
<1>8. caller[c]' = "waiting" /\ server[c]' = "reading" /\ Effects(c) = {}
  BY <1>1 DEF Types, Requested
<1>9. Requested'
  <2>1. Prefix(heldByServer, intents)'
    BY <1>1 DEF Requested
  <2>2. ASSUME NEW d \in Calls, caller[d]' \in {"idle", "dialling"}
        PROVE  server[d]' = "unborn" /\ Effects(d)' = {}
    BY <1>6, <1>7, <1>8, <2>2 DEF Requested
  <2>3. ASSUME NEW d \in Calls, caller[d]' = "dialling" PROVE CoversIntent(d, taken[d])'
    BY <1>1, <1>7, <1>8, <2>3 DEF Requested, CoversIntent
  <2>4. ASSUME NEW d \in Calls, server[d]' # "unborn"
        PROVE  /\ (request[d].body.op = OpOf[d])'
               /\ (Asked(d) # NoHead => CoversIntent(d, Asked(d).at))'
    <3>1. CASE d = c
      <4>1. CoversIntent(c, taken[c])
        BY <1>1 DEF Requested
      <4> QED BY <1>1, <1>4, <1>5, <3>1, <4>1 DEF CoversIntent
    <3>2. CASE d # c
      BY <1>1, <1>7, <2>4, <3>2 DEF Requested, CoversIntent, Asked
    <3> QED BY <3>1, <3>2
  <2>5. ASSUME NEW d \in Calls, Effects(d)' # {} PROVE server[d]' # "unborn"
    BY <1>6, <1>7, <1>8, <2>5 DEF Requested
  <2> QED BY <2>1, <2>2, <2>3, <2>4, <2>5 DEF Requested
<1>10. Checkpointed'
  <2> SUFFICES ASSUME NEW d \in Calls
               PROVE  /\ server[d]' = "received" => ServerPolicy' = "required" /\ Asked(d)' # NoHead
                      /\ /\ ServerPolicy' = "required"
                         /\ server[d]' \in {"checkpointed", "handling"} \/ Effects(d)' # {}
                         => Retained(d)'
    BY DEF Checkpointed
  <2>1. CASE d = c
    BY <1>6, <1>8, <2>1
  <2>2. CASE d # c
    BY <1>1, <1>6, <1>7, <2>2 DEF Checkpointed, Retained, Asked, ServerPolicy
  <2> QED BY <2>1, <2>2
<1>11. Mutations'
  BY <1>1 DEF Mutations
<1> QED BY <1>3, <1>9, <1>10, <1>11

LEMMA ReceiveInv ==
  ASSUME IInv, NEW c \in Calls, Receive(c)
  PROVE  IInv'
<1>1. ASSUME NEW to \in {"received", "checkpointed"},
             server' = [server EXCEPT ![c] = to],
             to = "received" => ServerPolicy = "required" /\ Asked(c) # NoHead,
             to = "checkpointed" => ServerPolicy # "required"
      PROVE  IInv'
  <2>1. /\ UNCHANGED <<setup, intents, journal, era, heldByServer, caller, taken, request>>
        /\ server[c] = "reading"
    BY DEF Receive, services, callerVars
  <2>2. Types'
    BY <1>1, <2>1 DEF IInv, Types
  <2>3. \A d \in Calls : Effects(d)' = Effects(d) /\ Asked(d)' = Asked(d)
    BY <2>1 DEF Effects, Asked
  <2>4. \A d \in Calls : server'[d] = IF d = c THEN to ELSE server[d]
    BY <1>1 DEF IInv, Types
  <2>5. Requested'
    BY <1>1, <2>1, <2>3, <2>4 DEF IInv, Requested, CoversIntent
  <2>6. Checkpointed'
    BY <1>1, <2>1, <2>3, <2>4 DEF IInv, Checkpointed, Retained, ServerPolicy
  <2>7. Mutations'
    BY <2>1 DEF IInv, Mutations
  <2> QED BY <2>2, <2>5, <2>6, <2>7 DEF IInv
<1>2. CASE server' = [server EXCEPT ![c] = "gone"]
  <2>1. Moves
    BY <1>2 DEF Receive, services, callerVars, Moves, IInv, Types
  <2> QED BY <2>1, MovesInv
<1> DEFINE Met == /\ VerifiesTyped(request[c], Client.uid, AsPeer(Client), Server.id.svc, Versions,
                                 ServerPolicy)
                  /\ Live(request[c])
<1>3. Met /\ ServerPolicy = "required" => Asked(c) # NoHead
  BY DEF VerifiesTyped, Verifies, HeadPolicyMet, Asked
<1>4. IF Met THEN Goes(c, IF ServerPolicy = "required" THEN "received" ELSE "checkpointed")
             ELSE Goes(c, "gone")
  BY DEF Receive
<1> HIDE DEF Met
<1>5. CASE Met /\ ServerPolicy = "required"
  <2>1. server' = [server EXCEPT ![c] = "received"]
    BY <1>4, <1>5 DEF Goes
  <2> QED BY <1>1, <1>3, <1>5, <2>1
<1>6. CASE Met /\ ServerPolicy # "required"
  <2>1. server' = [server EXCEPT ![c] = "checkpointed"]
    BY <1>4, <1>6 DEF Goes
  <2> QED BY <1>1, <1>6, <2>1
<1>7. CASE ~ Met
  BY <1>2, <1>4, <1>7 DEF Goes
<1> QED BY <1>5, <1>6, <1>7

LEMMA CheckpointInv ==
  ASSUME IInv, NEW c \in Calls, Checkpoint(c) \/ CheckpointFails(c)
  PROVE  IInv'
<1> USE DEF IInv
<1>1. /\ UNCHANGED <<setup, intents, journal, era, caller, taken, request>>
      /\ server[c] = "received"
      /\ \/ heldByServer' = heldByServer /\ server' = [server EXCEPT ![c] = "handled"]
         \/ /\ Retains(heldByServer, Asked(c).at) /\ heldByServer' = Asked(c).at
            /\ \E to \in {"checkpointed", "handled"} : server' = [server EXCEPT ![c] = to]
  BY DEF Checkpoint, CheckpointFails, Answers, Goes, callerVars, Asked
<1>2. CASE heldByServer' = heldByServer /\ server' = [server EXCEPT ![c] = "handled"]
  <2>1. Moves
    BY <1>1, <1>2 DEF Moves, Types
  <2> QED BY <2>1, MovesInv
<1>3. ASSUME Retains(heldByServer, Asked(c).at), heldByServer' = Asked(c).at,
             NEW to \in {"checkpointed", "handled"}, server' = [server EXCEPT ![c] = to]
      PROVE  IInv'
  <2>1. /\ UNCHANGED <<setup, intents, journal, era, caller, taken, request>>
        /\ server[c] = "received"
        /\ heldByServer' = Asked(c).at
        /\ server' = [server EXCEPT ![c] = to]
    BY <1>1, <1>3
  <2>2. ServerPolicy = "required" /\ Asked(c) # NoHead /\ CoversIntent(c, Asked(c).at)
    BY <2>1 DEF Checkpointed, Requested
  <2>3. Asked(c).at \in Seq(Ops) /\ Prefix(Asked(c).at, intents)
    BY <2>2 DEF CoversIntent
  <2>4. Types'
    BY <2>1, <2>3 DEF Types
  <2>5. \A d \in Calls : Effects(d)' = Effects(d) /\ Asked(d)' = Asked(d)
    BY <2>1 DEF Effects, Asked
  <2>6. \A d \in Calls : server'[d] = IF d = c THEN to ELSE server[d]
    BY <2>1 DEF Types
  <2>7. Prefix(heldByServer, Asked(c).at)
    <3>1. CASE Asked(c).at = heldByServer
      BY <3>1 DEF Prefix, Types
    <3>2. CASE Len(Asked(c).at) > Len(heldByServer)
      <4>1. Len(heldByServer) <= Len(Asked(c).at)
        BY <2>3, <3>2 DEF Types
      <4> QED BY <2>3, <4>1, PrefixesOfOne DEF Types, Requested
    <3> QED BY <1>3, <3>1, <3>2 DEF Retains
  <2>8. Requested'
    BY <2>1, <2>3, <2>5, <2>6 DEF Requested, CoversIntent
  <2>9. Checkpointed'
    <3> SUFFICES ASSUME NEW d \in Calls
                 PROVE  /\ server[d]' = "received" =>
                             ServerPolicy' = "required" /\ Asked(d)' # NoHead
                        /\ (server[d]' \in {"checkpointed", "handling"} \/ Effects(d)' # {})
                             => Retained(d)'
      BY DEF Checkpointed
    <3>1. CASE d = c
      <4>1. Prefix(Asked(c).at, Asked(c).at)
        BY <2>3 DEF Prefix
      <4> QED BY <2>1, <2>2, <2>5, <2>6, <3>1, <4>1 DEF Retained
    <3>2. CASE d # c
      <4>1. server[d]' = "received" => ServerPolicy' = "required" /\ Asked(d)' # NoHead
        BY <2>1, <2>5, <2>6, <3>2 DEF Checkpointed, ServerPolicy
      <4>2. ASSUME server[d]' \in {"checkpointed", "handling"} \/ Effects(d)' # {}
            PROVE  Retained(d)'
        <5>1. server[d] # "unborn" /\ Retained(d)
          BY <2>2, <2>5, <2>6, <3>2, <4>2 DEF Checkpointed, Requested
        <5>2. Asked(d).at \in Seq(Ops)
          BY <5>1 DEF Requested, CoversIntent, Retained
        <5>3. Prefix(Asked(d).at, Asked(c).at)
          BY <2>3, <2>7, <5>1, <5>2, PrefixTransitive DEF Retained, Types
        <5> QED BY <2>1, <2>5, <5>1, <5>3 DEF Retained
      <4> QED BY <4>1, <4>2
    <3> QED BY <3>1, <3>2
  <2>10. Mutations'
    BY <2>1 DEF Mutations
  <2> QED BY <2>4, <2>8, <2>9, <2>10
<1> QED BY <1>1, <1>2, <1>3

LEMMA HandleInv ==
  ASSUME IInv, NEW c \in Calls, Handle(c)
  PROVE  IInv'
<1> USE EdgeAssumption DEF IInv
<1>1. CASE journal' = journal
  <2>1. Moves
    BY <1>1 DEF Handle, Answers, Goes, callerVars, Moves, Types
  <2> QED BY <2>1, MovesInv
<1>2. CASE Mutates(c) /\ journal' = Append(journal, [op |-> OpOf[c], by |-> c, era |-> era])
  <2>1. /\ UNCHANGED <<setup, intents, heldByServer, era, caller, taken, request>>
        /\ server[c] = "handling"
        /\ server' = [server EXCEPT ![c] = "handled"]
    BY DEF Handle, Answers, Goes, callerVars
  <2>2. Types'
    BY <1>2, <2>1 DEF Types
  <2>3. \A i \in 1..Len(journal') :
          journal'[i] = IF i <= Len(journal) THEN journal[i]
                        ELSE [op |-> OpOf[c], by |-> c, era |-> era]
    BY <1>2 DEF Types
  <2>4. Len(journal') = Len(journal) + 1 /\ Len(journal) \in Nat
    BY <1>2 DEF Types
  <2>5. \A d \in Calls : Asked(d)' = Asked(d) /\ (d # c => Effects(d)' = Effects(d))
    BY <2>1, <2>3, <2>4 DEF Effects, Asked
  <2>6. \A d \in Calls : server'[d] = IF d = c THEN "handled" ELSE server[d]
    BY <2>1 DEF Types
  <2>7. caller[c] \notin {"idle", "dialling"}
    BY <2>1 DEF Requested
  <2>8. Requested'
    BY <2>1, <2>5, <2>6, <2>7 DEF Requested, CoversIntent
  <2>9. Checkpointed'
    BY <2>1, <2>5, <2>6 DEF Checkpointed, Retained, ServerPolicy
  <2>10. Mutations'
    BY <1>2, <2>3, <2>4 DEF Mutations, Mutates
  <2> QED BY <2>2, <2>8, <2>9, <2>10
<1> QED BY <1>1, <1>2 DEF Handle

\* A restore only takes effects away.
LEMMA RestoreForgets ==
  ASSUME Types, Restore
  PROVE  \A c \in Calls : Effects(c)' \subseteq Effects(c)
<1> DEFINE Entries == [op : Ops, by : Calls, era : Nat]
<1>1. PICK n \in 0..(Len(journal) - 1) : journal' = SubSeq(journal, 1, n)
  BY DEF Restore
<1>2. journal \in Seq(Entries)
  BY DEF Types
<1> HIDE DEF Entries
<1>3. n \in Nat /\ n <= Len(journal) /\ Len(journal) \in Nat
  BY <1>2
<1>4. \A i \in 1..n : journal[i] \in Entries
  BY <1>2, <1>3
<1>5. /\ Len(SubSeq(journal, 1, n)) = IF 1 <= n THEN n - 1 + 1 ELSE 0
      /\ \A i \in 1..(n - 1 + 1) : SubSeq(journal, 1, n)[i] = journal[1 + i - 1]
  BY <1>3, <1>4, SubSeqProperties
<1>6. Len(journal') = n /\ \A i \in 1..n : journal'[i] = journal[i] /\ i \in 1..Len(journal)
  BY <1>1, <1>3, <1>5
<1> QED BY <1>6 DEF Effects

LEMMA RestoreInv ==
  ASSUME IInv, Restore
  PROVE  IInv'
<1> USE DEF IInv
<1>1. /\ UNCHANGED <<setup, intents, heldByServer, caller, taken, request>>
      /\ era' = era + 1
      /\ server' = [c \in Calls |-> IF Busy(c) THEN "gone" ELSE server[c]]
  BY DEF Restore, Stop, callerVars
<1>2. PICK n \in 0..(Len(journal) - 1) : journal' = SubSeq(journal, 1, n)
  BY DEF Restore
<1> DEFINE Entries == [op : Ops, by : Calls, era : Nat]
<1>3. /\ journal' \in Seq(Entries)
      /\ Len(journal') = n /\ n \in Nat /\ n <= Len(journal) /\ Len(journal) \in Nat
      /\ \A i \in 1..n : journal'[i] = journal[i]
  <2>1. journal \in Seq(Entries)
    BY DEF Types
  <2>2. n \in Nat /\ n <= Len(journal) /\ Len(journal) \in Nat
    <3> HIDE DEF Entries
    <3> QED BY <2>1
  <2>3. \A i \in 1..n : journal[i] \in Entries
    <3> HIDE DEF Entries
    <3> QED BY <2>1, <2>2
  <2> HIDE DEF Entries
  <2>4. /\ SubSeq(journal, 1, n) \in Seq(Entries)
        /\ Len(SubSeq(journal, 1, n)) = IF 1 <= n THEN n - 1 + 1 ELSE 0
        /\ \A i \in 1..(n - 1 + 1) : SubSeq(journal, 1, n)[i] = journal[1 + i - 1]
    BY <2>2, <2>3, SubSeqProperties
  <2> QED BY <1>2, <2>2, <2>4
<1>4. Types'
  BY <1>1, <1>3 DEF Types
<1>5. \A c \in Calls : Asked(c)' = Asked(c) /\ Effects(c)' \subseteq Effects(c)
  <2>1. \A i \in 1..n : i \in 1..Len(journal)
    BY <1>3
  <2> QED BY <1>1, <1>3, <2>1 DEF Asked, Effects
<1>6. \A c \in Calls :
        server'[c] = server[c] \/ (server[c] # "unborn" /\ server'[c] = "gone")
  BY <1>1 DEF Busy
<1>7. Requested'
  BY <1>1, <1>5, <1>6 DEF Requested, CoversIntent
<1>8. Checkpointed'
  BY <1>1, <1>5, <1>6 DEF Checkpointed, Retained, ServerPolicy
<1>9. Mutations'
  <2>1. \A i \in 1..n : i \in 1..Len(journal)
    BY <1>3
  <2> QED BY <1>3, <2>1 DEF Mutations, Mutates
<1> QED BY <1>4, <1>7, <1>8, <1>9

LEMMA OtherStepsMove ==
  ASSUME IInv, NEW c \in Calls,
         \/ Return(c) \/ MeetsEnd(c) \/ Admit(c) \/ ReadHead(c) \/ Respond(c)
         \/ Mishap(c) /\ ~ CheckpointFails(c)
         \/ Tick \/ Crash
  PROVE  Moves
<1> USE DEF IInv, Types, Moves
<1>1. CASE Return(c) \/ ReturnFails(c) \/ MeetsEnd(c)
  <2>1. /\ UNCHANGED <<setup, intents, journal, era, heldByServer, request, server>>
        /\ caller' = [caller EXCEPT ![c] = "done"] /\ taken' = [taken EXCEPT ![c] = <<>>]
    <3>1. CASE Return(c) \/ ReturnFails(c)
      BY <3>1 DEF Return, ReturnFails, Ends, serverVars
    <3>2. CASE MeetsEnd(c)
      BY <3>2 DEF MeetsEnd, Ends, serverVars, services
    <3> QED BY <1>1, <3>1, <3>2
  <2> QED BY <2>1
<1>2. CASE GivesUp(c)
  BY <1>2 DEF GivesUp, Ends, serverVars, services
<1>3. CASE Admit(c) \/ ReadHead(c)
  BY <1>3 DEF Admit, ReadHead, Answers, Goes, callerVars, services
<1>4. CASE Respond(c) \/ Aborts(c)
  BY <1>4 DEF Respond, Aborts, Leaves, Goes, Busy, callerVars, services
<1>5. CASE WindowFull(c) \/ Denies(c)
  BY <1>5 DEF CheckpointFails, WindowFull, Denies, Answers, Goes, callerVars, services
<1>6. CASE Tick
  BY <1>6 DEF Tick, callerVars, serverVars, services
<1>7. CASE Crash
  BY <1>7 DEF Crash, Stop, Busy, callerVars, services
<1> QED BY <1>1, <1>2, <1>3, <1>4, <1>5, <1>6, <1>7 DEF Mishap

LEMMA StepInv ==
  ASSUME IInv, [Next]_vars
  PROVE  IInv'
<1>1. ASSUME NEW c \in Calls, Step(c) \/ Mishap(c) PROVE IInv'
  BY <1>1, BeginInv, RequestInv, ReceiveInv, CheckpointInv, HandleInv, OtherStepsMove, MovesInv
     DEF Step, CallerStep, ServerStep, Mishap
<1>2. CASE Tick \/ Crash
  <2>1. Moves
    BY <1>2 DEF Tick, Crash, Stop, Busy, callerVars, serverVars, services, IInv, Types, Moves
  <2> QED BY <2>1, MovesInv
<1>3. CASE Restore
  BY <1>3, RestoreInv
<1>4. CASE UNCHANGED vars
  <2>1. Moves
    BY <1>4 DEF vars, callerVars, serverVars, services, IInv, Types, Moves
  <2> QED BY <2>1, MovesInv
<1> QED BY <1>1, <1>2, <1>3, <1>4 DEF Next

\* Which steps change what.
LEMMA Frame ==
  ASSUME Next
  PROVE  /\ setup' = setup
         /\ \/ journal' = journal
            \/ Restore
            \/ \E c \in Calls : Handle(c)
         /\ \/ UNCHANGED <<heldByClient, outcome>>
            \/ \E c \in Calls : Return(c) \/ MeetsEnd(c) \/ ReturnFails(c) \/ GivesUp(c)
         /\ \/ UNCHANGED <<server, body, head, response, slots>>
            \/ Crash \/ Restore
            \/ \E c \in Calls : \/ Request(c) \/ Receive(c) \/ Checkpoint(c) \/ Admit(c)
                                \/ Handle(c)
                                \/ ReadHead(c) \/ Respond(c)
                                \/ CheckpointFails(c) \/ WindowFull(c) \/ Denies(c) \/ Aborts(c)
<1> USE DEF services, callerVars, serverVars
<1>1. ASSUME NEW c \in Calls, Begin(c) \/ Request(c) \/ Return(c) \/ MeetsEnd(c)
                              \/ ReturnFails(c) \/ GivesUp(c)
      PROVE  /\ UNCHANGED <<setup, journal>>
             /\ Request(c) \/ UNCHANGED <<server, body, head, response, slots>>
             /\ \/ Return(c) \/ MeetsEnd(c) \/ ReturnFails(c) \/ GivesUp(c)
                \/ UNCHANGED <<heldByClient, outcome>>
  BY <1>1 DEF Begin, Request, Return, MeetsEnd, ReturnFails, GivesUp
<1>2. ASSUME NEW c \in Calls, \/ Receive(c) \/ Checkpoint(c) \/ Admit(c) \/ Handle(c) \/ ReadHead(c)
                              \/ Respond(c) \/ CheckpointFails(c) \/ WindowFull(c)
                              \/ Denies(c) \/ Aborts(c)
      PROVE  /\ UNCHANGED <<setup, heldByClient, outcome>>
             /\ Handle(c) \/ journal' = journal
  BY <1>2 DEF Receive, Checkpoint, Admit, Handle, ReadHead, Respond, CheckpointFails,
              WindowFull, Denies, Aborts
<1>3. ASSUME Tick \/ Crash \/ Restore
      PROVE  /\ UNCHANGED <<setup, heldByClient, outcome>>
             /\ Restore \/ journal' = journal
             /\ Tick => UNCHANGED <<server, body, head, response, slots>>
  BY <1>3 DEF Tick, Crash, Restore, Stop
<1> QED BY <1>1, <1>2, <1>3 DEF Next, Step, CallerStep, ServerStep, Mishap

(***************************************************************************)
(* Refusals.  A call that was refused has taken no effect, and will not:   *)
(* what leads to the handler is only before it, and a refusal is after.    *)
(***************************************************************************)
Early == {"unborn", "reading", "received", "checkpointed", "handling"}

Refusals ==
  /\ refused \subseteq Calls
  /\ \A c \in Calls :
       /\ c \in refused => Effects(c) = {}
       /\ server[c] \in Early => Effects(c) = {} /\ c \notin refused
       /\ /\ ServerPolicy = "required"
          /\ server[c] \in {"received", "checkpointed", "handling"} \/ Effects(c) # {}
          => request[c].protocol.minor # 0

\* One task moves: on towards the handler, past it, or past it with a refusal.
LEMMA TaskMoves ==
  ASSUME Types, Refusals, NEW c \in Calls, NEW to, UNCHANGED <<setup, journal, request>>,
         server' = [server EXCEPT ![c] = to],
         \/ /\ server[c] \in Early /\ refused' = refused
            /\ ServerPolicy = "required" => request[c].protocol.minor # 0
         \/ to \in {"handled", "answering", "gone"} /\ refused' = refused
         \/ /\ to = "handled" /\ refused' = refused \cup {c}
            /\ server[c] \in Early
  PROVE  Refusals'
<1>1. \A d \in Calls : Effects(d)' = Effects(d) /\ request[d]' = request[d]
  BY DEF Effects
<1>2. ServerPolicy' = ServerPolicy /\ refused' \subseteq Calls
  BY DEF ServerPolicy, Refusals
<1>3. \A d \in Calls : server[d]' = IF d = c THEN to ELSE server[d]
  BY DEF Types
<1> SUFFICES ASSUME NEW d \in Calls
             PROVE  /\ d \in refused' => Effects(d)' = {}
                    /\ server[d]' \in Early => Effects(d)' = {} /\ d \notin refused'
                    /\ /\ ServerPolicy' = "required"
                       /\ server[d]' \in {"received", "checkpointed", "handling"} \/ Effects(d)' # {}
                       => request[d].protocol.minor' # 0
  BY <1>2 DEF Refusals, Early
<1>4. CASE d # c
  BY <1>1, <1>2, <1>3, <1>4 DEF Refusals
<1>5. CASE d = c
  BY <1>1, <1>2, <1>3, <1>5 DEF Refusals, Early
<1> QED BY <1>4, <1>5

LEMMA RefusalsStep ==
  ASSUME IInv, Refusals, [Next]_vars
  PROVE  Refusals'
<1> USE DEF IInv
\* The server's side of a call, up to its handler.
<1>1. ASSUME NEW c \in Calls, Receive(c) PROVE Refusals'
  <2>1. UNCHANGED <<setup, journal, request, refused>> /\ server[c] \in Early
    BY <1>1 DEF Receive, services, callerVars, Early
  <2>2. CASE server' = [server EXCEPT ![c] = "gone"]
    BY <2>1, <2>2, TaskMoves
  <2>3. CASE /\ VerifiesTyped(request[c], Client.uid, AsPeer(Client), Server.id.svc, Versions,
                              ServerPolicy)
             /\ \E to \in {"received", "checkpointed"} : server' = [server EXCEPT ![c] = to]
    <3>1. ServerPolicy = "required" => request[c].protocol.minor # 0
      BY <2>3 DEF VerifiesTyped, Verifies, HeadPolicyMet
    <3> QED BY <2>1, <2>3, <3>1, TaskMoves
  <2> QED BY <1>1, <2>2, <2>3 DEF Receive, Goes
<1>2. ASSUME NEW c \in Calls,
             Checkpoint(c) \/ CheckpointFails(c) \/ Admit(c) \/ WindowFull(c) \/ Denies(c)
      PROVE  Refusals'
  <2>1. /\ UNCHANGED <<setup, journal, request>>
        /\ server[c] \in {"received", "checkpointed", "handling"}
        /\ \/ /\ refused' = refused
              /\ \E to \in {"checkpointed", "handling"} : server' = [server EXCEPT ![c] = to]
           \/ refused' = refused \cup {c} /\ server' = [server EXCEPT ![c] = "handled"]
    BY <1>2 DEF Checkpoint, CheckpointFails, Admit, WindowFull, Denies, Answers, Goes, services,
                callerVars
  <2>2. server[c] \in Early /\ (ServerPolicy = "required" => request[c].protocol.minor # 0)
    BY <2>1 DEF Refusals, Early
  <2>3. CASE /\ refused' = refused
             /\ \E to \in {"checkpointed", "handling"} : server' = [server EXCEPT ![c] = to]
    BY <2>1, <2>2, <2>3, TaskMoves
  <2>4. CASE refused' = refused \cup {c} /\ server' = [server EXCEPT ![c] = "handled"]
    BY <2>1, <2>2, <2>4, TaskMoves
  <2> QED BY <2>1, <2>3, <2>4
<1>3. ASSUME NEW c \in Calls, ReadHead(c) \/ Respond(c) \/ Aborts(c) PROVE Refusals'
  <2>1. /\ UNCHANGED <<setup, journal, request, refused>>
        /\ \E to \in {"handled", "answering", "gone"} : server' = [server EXCEPT ![c] = to]
    BY <1>3 DEF ReadHead, Respond, Aborts, Leaves, Goes, services, callerVars
  <2> QED BY <2>1, TaskMoves
<1>4. ASSUME NEW c \in Calls, Handle(c) PROVE Refusals'
  <2>1. /\ UNCHANGED <<setup, request, refused>> /\ server[c] = "handling"
        /\ server' = [server EXCEPT ![c] = "handled"]
    BY <1>4 DEF Handle, Answers, Goes, callerVars
  <2>2. CASE journal' = journal
    BY <2>1, <2>2, TaskMoves
  <2>3. CASE journal' = Append(journal, [op |-> OpOf[c], by |-> c, era |-> era])
    <3>1. /\ Len(journal') = Len(journal) + 1 /\ Len(journal) \in Nat
          /\ \A i \in 1..Len(journal') :
               journal'[i] = IF i <= Len(journal) THEN journal[i]
                             ELSE [op |-> OpOf[c], by |-> c, era |-> era]
      BY <2>3 DEF Types
    <3>2. \A d \in Calls : d # c => Effects(d)' = Effects(d)
      BY <3>1 DEF Effects
    <3>3. c \notin refused /\ (ServerPolicy = "required" => request[c].protocol.minor # 0)
      BY <2>1 DEF Refusals, Early
    <3>4. \A d \in Calls : server'[d] = IF d = c THEN "handled" ELSE server[d]
      BY <2>1 DEF Types
    <3>5. ServerPolicy' = ServerPolicy /\ refused' \subseteq Calls
      BY <2>1 DEF ServerPolicy, Refusals
    <3> SUFFICES ASSUME NEW d \in Calls
                 PROVE  /\ d \in refused => Effects(d)' = {}
                        /\ server[d]' \in Early => Effects(d)' = {} /\ d \notin refused
                        /\ /\ ServerPolicy = "required"
                           /\ \/ server[d]' \in {"received", "checkpointed", "handling"}
                              \/ Effects(d)' # {}
                           => request[d].protocol.minor # 0
      BY <2>1, <3>5 DEF Refusals, Early
    <3>6. CASE d = c
      BY <3>3, <3>4, <3>6 DEF Early
    <3>7. CASE d # c
      BY <3>2, <3>4, <3>7 DEF Refusals
    <3> QED BY <3>6, <3>7
  <2> QED BY <1>4, <2>2, <2>3 DEF Handle
\* The caller's side, and the machine.
<1>5. ASSUME NEW c \in Calls, Request(c) PROVE Refusals'
  <2>1. /\ UNCHANGED <<setup, journal, refused>> /\ server[c] = "unborn" /\ Effects(c) = {}
        /\ server' = [server EXCEPT ![c] = "reading"]
        /\ \A d \in Calls \ {c} : request'[d] = request[d]
    BY <1>5 DEF Request, Requested, services, Types
  <2>2. \A d \in Calls : Effects(d)' = Effects(d)
    BY <2>1 DEF Effects
  <2>3. \A d \in Calls : server'[d] = IF d = c THEN "reading" ELSE server[d]
    BY <2>1 DEF Types
  <2>4. c \notin refused /\ refused' \subseteq Calls /\ ServerPolicy' = ServerPolicy
    BY <2>1 DEF Refusals, Early, ServerPolicy
  <2> QED BY <2>1, <2>2, <2>3, <2>4 DEF Refusals, Early
<1>6. CASE \/ UNCHANGED <<setup, journal, request, refused, server>>
           \/ UNCHANGED <<setup, request, refused>> /\ (Crash \/ Restore)
  <2>1. \A c \in Calls : server[c]' = server[c] \/ server[c]' = "gone"
    BY <1>6 DEF Crash, Restore, Stop
  <2>2. \A c \in Calls : Effects(c)' \subseteq Effects(c)
    <3>1. CASE journal' = journal
      BY <3>1 DEF Effects
    <3>2. CASE Restore
      BY <3>2, RestoreForgets DEF Types
    <3> QED BY <1>6, <3>1, <3>2 DEF Crash, services
  <2>3. ServerPolicy' = ServerPolicy /\ refused' = refused /\ request' = request
    BY <1>6 DEF ServerPolicy
  <2> QED BY <2>1, <2>2, <2>3 DEF Refusals, Early
<1>7. ASSUME NEW c \in Calls,
             Begin(c) \/ Return(c) \/ MeetsEnd(c) \/ ReturnFails(c) \/ GivesUp(c)
      PROVE  UNCHANGED <<setup, journal, request, refused, server>>
  BY <1>7 DEF Begin, Return, MeetsEnd, ReturnFails, GivesUp, Ends, serverVars, services
<1>8. CASE Tick \/ UNCHANGED vars
  BY <1>6, <1>8 DEF Tick, vars, services, callerVars, serverVars
<1>9. CASE Crash \/ Restore
  BY <1>6, <1>9 DEF Crash, Restore, callerVars
<1> QED BY <1>1, <1>2, <1>3, <1>4, <1>5, <1>6, <1>7, <1>8, <1>9
        DEF Next, Step, CallerStep, ServerStep, Mishap

LEMMA InvImplies == IInv /\ Refusals => EffectFollowsCheckpoint
<1> SUFFICES ASSUME IInv, Refusals, NEW i \in 1..Len(journal)
             PROVE  LET by == journal[i].by
                        asked == Asked(by)
                    IN  /\ by \notin refused
                        /\ ServerPolicy = "required" =>
                             /\ request[by].protocol.minor # 0 /\ asked # NoHead
                             /\ Has(asked.at, journal[i].op)
                             /\ Len(asked.at) <= Len(heldByServer)
                             /\ asked.at = SubSeq(heldByServer, 1, Len(asked.at))
  BY DEF EffectFollowsCheckpoint, Asked
<1> DEFINE c == journal[i].by
<1>1. c \in Calls /\ i \in Effects(c)
  <2> DEFINE Entries == [op : Ops, by : Calls, era : Nat]
  <2>1. journal \in Seq(Entries)
    BY DEF IInv, Types
  <2>2. journal[i] \in Entries
    <3> HIDE DEF Entries
    <3> QED BY <2>1
  <2> QED BY <2>2 DEF Effects
<1>1a. c \notin refused /\ (ServerPolicy = "required" => request[c].protocol.minor # 0)
  BY <1>1 DEF Refusals
<1> SUFFICES ASSUME ServerPolicy = "required"
             PROVE  /\ Asked(c) # NoHead
                    /\ Has(Asked(c).at, journal[i].op)
                    /\ Len(Asked(c).at) <= Len(heldByServer)
                    /\ Asked(c).at = SubSeq(heldByServer, 1, Len(Asked(c).at))
  BY <1>1a
<1>2. Retained(c) /\ server[c] # "unborn"
  BY <1>1 DEF IInv, Checkpointed, Requested
<1>3. CoversIntent(c, Asked(c).at)
  BY <1>1, <1>2 DEF IInv, Requested, Retained
<1>4. Mutates(c) /\ journal[i].op = OpOf[c]
  BY DEF IInv, Mutations
<1>5. Has(Asked(c).at, journal[i].op) /\ Asked(c).at \in Seq(Ops)
  BY <1>3, <1>4 DEF CoversIntent
<1>6. Asked(c).at = SubSeq(heldByServer, 1, Len(Asked(c).at))
  BY <1>2, <1>5, PrefixIsSubSeq DEF IInv, Types, Retained
<1> QED BY <1>2, <1>5, <1>6 DEF Retained, Prefix

\* Nothing takes effect on a server before it retains the head its caller sent with the
\* request, or a longer one, and nothing that is refused takes effect at all:
\* dispatch_connection_with_journal_heads checkpoints first, and answers a refusal without
\* asking the quota or the handler.
THEOREM EffectsAreCheckpointed == Spec => []EffectFollowsCheckpoint
<1>1. Init => IInv /\ Refusals
  BY InitInv DEF Init, Refusals, Effects, Early
<1>2. IInv /\ Refusals /\ [Next]_vars => (IInv /\ Refusals)'
  BY StepInv, RefusalsStep
<1>3. IInv /\ Refusals => EffectFollowsCheckpoint
  BY InvImplies
<1> QED BY <1>1, <1>2, <1>3, PTL DEF Spec

(***************************************************************************)
(* Answers.  While a task has answered "ok" and waits to read the journal, *)
(* the effect is in it, as a restore of the journal ends the task; it is   *)
(* in the head the task then reads, and in the head of its response, which *)
(* is the last thing the task does.  A caller returns "ok" only after the  *)
(* head of that response is retained, and what is retained only grows.     *)
(***************************************************************************)
JournalEntries == [op : Ops, by : Calls, era : 0..MaxRestores]
Bodies == {None, "rejected", "busy", "ok", "denied"}

Bounds ==
  /\ setup \in Deployments
  /\ now \in 0..MaxTime /\ era \in 0..MaxRestores /\ mishaps \in 0..MaxMishaps

Logs ==
  /\ journal \in Seq(JournalEntries) /\ heldByClient \in Seq(JournalEntries)
  /\ head \in [Calls -> Seq(JournalEntries)]

Results ==
  /\ body \in [Calls -> Bodies] /\ outcome \in [Calls -> Bodies \cup {"failed"}]
  /\ DOMAIN response = Calls

Mutators == {c \in Calls : server[c] = "handling" /\ Mutates(c)}
Slotted == slots = Mutators /\ IsFiniteSet(slots) /\ Cardinality(slots) <= Slots

Evidence(c, at) == Mutates(c) => HasEffect(at, OpOf[c])

Answering(c) ==
  /\ server[c] = "handled" /\ body[c] = "ok" => Evidence(c, journal)
  /\ server[c] = "answering" /\ body[c] = "ok" /\ ServerPolicy = "required" =>
       Evidence(c, head[c])

Responded(c) ==
  response[c] # NoFrame =>
    /\ server[c] = "gone" /\ response[c].body \in Bodies
    /\ response[c].head # NoHead =>
         /\ response[c].head.at \in Seq(JournalEntries)
         /\ response[c].body = "ok" => Evidence(c, response[c].head.at)

Answered == \A c \in Calls : Answering(c) /\ Responded(c)

Believed ==
  \A c \in Calls : outcome[c] = "ok" /\ Edge[c].policy = "required" =>
    /\ response[c] # NoFrame /\ response[c].body = "ok" /\ response[c].head # NoHead
    /\ Len(response[c].head.at) < Len(heldByClient) \/ response[c].head.at = heldByClient

AnswersInv == Bounds /\ Logs /\ Results /\ Slotted /\ Answered /\ Believed

LEMMA BoundsStep ==
  ASSUME Bounds, Next
  PROVE  Bounds'
<1>1. setup' = setup /\ MaxTime \in Nat /\ MaxMishaps \in Nat /\ MaxRestores \in Nat
  BY EdgeAssumption, Frame DEF Bounds, MaxTime, MaxMishaps, MaxRestores
<1>2. now' \in 0..MaxTime
  <2>1. now' = now \/ Tick
    BY DEF Next, Step, CallerStep, ServerStep, Mishap, Begin, Request, Return, MeetsEnd,
           ReturnFails, GivesUp, Receive, Checkpoint, Admit, Handle, ReadHead, Respond,
           CheckpointFails, WindowFull, Denies, Aborts, Crash, Restore
  <2> QED BY <1>1, <2>1 DEF Tick, Bounds
<1>3. era' \in 0..MaxRestores
  <2>1. era' = era \/ Restore
    BY DEF Next, Step, CallerStep, ServerStep, Mishap, Begin, Request, Return, MeetsEnd,
           ReturnFails, GivesUp, Receive, Checkpoint, Admit, Handle, ReadHead, Respond,
           CheckpointFails, WindowFull, Denies, Aborts, Tick, Crash, services
  <2> QED BY <1>1, <2>1 DEF Restore, Bounds
<1>4. mishaps' \in 0..MaxMishaps
  <2>1. \/ mishaps' = mishaps
        \/ Crash
        \/ \E c \in Calls : Mishap(c)
    BY DEF Next, Step, CallerStep, ServerStep, Begin, Request, Return, MeetsEnd, Receive,
           Checkpoint, Admit, Handle, ReadHead, Respond, Tick, Restore
  <2> QED BY <1>1, <2>1 DEF Crash, Mishap, ReturnFails, GivesUp, CheckpointFails, WindowFull,
                            Denies, Aborts, Bounds
<1> QED BY <1>1, <1>2, <1>3, <1>4 DEF Bounds, MaxTime, MaxMishaps, MaxRestores

\* A journal that grows keeps every effect.
LEMMA EffectsStay ==
  ASSUME NEW S, NEW s \in Seq(S), NEW e \in S, NEW op, HasEffect(s, op)
  PROVE  HasEffect(Append(s, e), op)
<1>1. PICK i \in 1..Len(s) : s[i].op = op
  BY DEF HasEffect
<1>2. i \in 1..Len(Append(s, e)) /\ Append(s, e)[i] = s[i]
  BY <1>1
<1> QED BY <1>1, <1>2 DEF HasEffect

\* What the handler leaves behind.
LEMMA HandleJournal ==
  ASSUME Types, Bounds, Logs, NEW c \in Calls, Handle(c)
  PROVE  /\ journal' \in Seq(JournalEntries)
         /\ Evidence(c, journal')
         /\ \A d \in Calls : Evidence(d, journal) => Evidence(d, journal')
<1> DEFINE e == [op |-> OpOf[c], by |-> c, era |-> era]
<1>1. e \in JournalEntries
  BY EdgeAssumption DEF JournalEntries, Bounds
<1>2. journal' = IF Mutates(c) /\ ~ HasEffect(journal, OpOf[c])
                   THEN Append(journal, e) ELSE journal
  BY DEF Handle
<1>3. journal \in Seq(JournalEntries) /\ e.op = OpOf[c]
  BY DEF Logs
<1> HIDE DEF e
<1>4. CASE Mutates(c) /\ ~ HasEffect(journal, OpOf[c])
  <2>1. journal' = Append(journal, e) /\ journal' \in Seq(JournalEntries)
    BY <1>1, <1>2, <1>3, <1>4
  <2>2. Len(journal') \in 1..Len(journal') /\ journal'[Len(journal')] = e
    BY <1>1, <1>3, <2>1
  <2>3. HasEffect(journal', OpOf[c])
    BY <1>3, <2>2 DEF HasEffect
  <2>4. \A op : HasEffect(journal, op) => HasEffect(journal', op)
    BY <1>1, <1>3, <2>1, EffectsStay
  <2> QED BY <2>1, <2>3, <2>4 DEF Evidence
<1>5. CASE ~ (Mutates(c) /\ ~ HasEffect(journal, OpOf[c]))
  <2>1. journal' = journal
    BY <1>2, <1>5
  <2> QED BY <1>3, <1>5, <2>1 DEF Evidence
<1> QED BY <1>4, <1>5

\* What a response that is believed says.
LEMMA BelievedResponse ==
  ASSUME Answered, NEW c \in Calls, response[c] # NoFrame, Acceptable(c),
         Edge[c].policy = "required"
  PROVE  /\ response[c].head # NoHead
         /\ response[c].head.at \in Seq(JournalEntries)
BY DEF Answered, Responded, Acceptable, VerifiesResponseTo, Verifies, HeadPolicyMet

LEMMA LogsStep ==
  ASSUME Types, Bounds, Logs, Answered, Next
  PROVE  Logs'
<1>1. JournalEntries' = JournalEntries
  BY Frame DEF JournalEntries, MaxRestores
<1>2. journal' \in Seq(JournalEntries)
  <2>1. CASE Restore
    <3>1. PICK n \in 0..(Len(journal) - 1) : journal' = SubSeq(journal, 1, n)
      BY <2>1 DEF Restore
    <3>2. journal \in Seq(JournalEntries) /\ n \in Nat /\ n <= Len(journal)
      BY DEF Logs
    <3>3. \A i \in 1..n : journal[i] \in JournalEntries
      BY <3>2
    <3> QED BY <3>1, <3>2, <3>3, SubSeqProperties
  <2>2. ASSUME NEW c \in Calls, Handle(c) PROVE journal' \in Seq(JournalEntries)
    BY <2>2, HandleJournal
  <2> QED BY <2>1, <2>2, Frame DEF Logs
<1>3. heldByClient' \in Seq(JournalEntries)
  <2>1. ASSUME NEW c \in Calls, Return(c) \/ ReturnFails(c)
        PROVE  heldByClient' \in Seq(JournalEntries)
    BY <2>1, BelievedResponse DEF Return, ReturnFails, Logs
  <2>2. ASSUME NEW c \in Calls, MeetsEnd(c) \/ GivesUp(c) PROVE heldByClient' = heldByClient
    BY <2>2 DEF MeetsEnd, GivesUp, services
  <2> QED BY <2>1, <2>2, Frame DEF Logs
<1>4. head' \in [Calls -> Seq(JournalEntries)]
  <2>1. <<>> \in Seq(JournalEntries)
    OBVIOUS
  <2>2. ASSUME NEW c \in Calls, Request(c) \/ Receive(c) \/ Checkpoint(c) \/ Admit(c) \/ Handle(c)
                                \/ CheckpointFails(c) \/ WindowFull(c) \/ Denies(c)
        PROVE  head' = head
    BY <2>2 DEF Request, Receive, Checkpoint, Admit, Handle, CheckpointFails, WindowFull, Denies
  <2>3. ASSUME NEW c \in Calls, ReadHead(c) PROVE head' \in [Calls -> Seq(JournalEntries)]
    BY <2>1, <2>3 DEF ReadHead, Logs
  <2>4. ASSUME NEW c \in Calls, Respond(c) \/ Aborts(c)
        PROVE  head' \in [Calls -> Seq(JournalEntries)]
    BY <2>1, <2>4 DEF Respond, Aborts, Leaves, Logs
  <2>5. CASE Crash \/ Restore
    BY <2>1, <2>5 DEF Crash, Restore, Stop
  <2> QED BY <2>2, <2>3, <2>4, <2>5, Frame DEF Logs
<1> QED BY <1>1, <1>2, <1>3, <1>4 DEF Logs

LEMMA ResultsStep ==
  ASSUME Results, Answered, Next
  PROVE  Results'
<1>1. body' \in [Calls -> Bodies]
  <2>1. ASSUME NEW c \in Calls, Request(c) \/ Receive(c) \/ ReadHead(c) PROVE body' = body
    BY <2>1 DEF Request, Receive, ReadHead
  <2>2. ASSUME NEW c \in Calls,
               \/ Checkpoint(c) \/ Admit(c) \/ Handle(c) \/ CheckpointFails(c)
               \/ WindowFull(c) \/ Denies(c)
        PROVE  body' \in [Calls -> Bodies]
    BY <2>2 DEF Checkpoint, Admit, Handle, CheckpointFails, WindowFull, Denies, Answers,
                Results, Bodies
  <2>3. ASSUME NEW c \in Calls, Respond(c) \/ Aborts(c) PROVE body' \in [Calls -> Bodies]
    BY <2>3 DEF Respond, Aborts, Leaves, Results, Bodies
  <2>4. CASE Crash \/ Restore
    BY <2>4 DEF Crash, Restore, Stop, Bodies
  <2> QED BY <2>1, <2>2, <2>3, <2>4, Frame DEF Results
<1>2. outcome' \in [Calls -> Bodies \cup {"failed"}]
  <2>1. ASSUME NEW c \in Calls, Return(c) PROVE outcome' \in [Calls -> Bodies \cup {"failed"}]
    <3>1. response[c].body \in Bodies
      BY <2>1 DEF Return, Answered, Responded
    <3> QED BY <2>1, <3>1 DEF Return, Ends, Results
  <2>2. ASSUME NEW c \in Calls, MeetsEnd(c) \/ ReturnFails(c) \/ GivesUp(c)
        PROVE  outcome' \in [Calls -> Bodies \cup {"failed"}]
    BY <2>2 DEF MeetsEnd, ReturnFails, GivesUp, Ends, Results
  <2> QED BY <2>1, <2>2, Frame DEF Results
<1>3. DOMAIN response' = Calls
  <2>1. \/ response' = response
        \/ \E c \in Calls : Respond(c)
    BY Frame DEF Crash, Restore, Request, Receive, Checkpoint, Admit, Handle, ReadHead,
                 CheckpointFails, WindowFull, Denies, Aborts
  <2> QED BY <2>1 DEF Respond, Results
<1> QED BY <1>1, <1>2, <1>3 DEF Results

\* One task moves, and the slot goes with it.
LEMMA SlotMoves ==
  ASSUME Types, Slotted, NEW c \in Calls, NEW to, Slots \in Nat, setup' = setup,
         server' = [server EXCEPT ![c] = to],
         \/ to # "handling" /\ slots' = slots \ {c}
         \/ to # "handling" /\ server[c] # "handling" /\ slots' = slots
         \/ to = "handling" /\ ~ Mutates(c) /\ server[c] # "handling" /\ slots' = slots
         \/ /\ to = "handling" /\ Mutates(c) /\ server[c] # "handling"
            /\ Cardinality(slots) < Slots /\ slots' = slots \cup {c}
  PROVE  Slotted'
<1>1. Slots' = Slots
  BY DEF Slots
<1>2. slots = Mutators /\ IsFiniteSet(slots) /\ Cardinality(slots) <= Slots
      /\ Cardinality(slots) \in Nat
  BY FS_CardinalityType DEF Slotted
<1>3. \A d \in Calls : server'[d] = IF d = c THEN to ELSE server[d]
  BY DEF Types
<1>4. slots' = Mutators'
  BY <1>2, <1>3 DEF Mutators, Mutates
<1>5. IsFiniteSet(slots') /\ Cardinality(slots') <= Slots
  <2>1. CASE slots' \subseteq slots
    <3>1. IsFiniteSet(slots') /\ Cardinality(slots') <= Cardinality(slots)
      BY <1>2, <2>1, FS_Subset
    <3>2. Cardinality(slots') \in Nat
      BY <3>1, FS_CardinalityType
    <3> QED BY <1>2, <3>1, <3>2
  <2>2. CASE slots' = slots \cup {c} /\ c \notin slots /\ Cardinality(slots) < Slots
    <3>1. IsFiniteSet(slots') /\ Cardinality(slots') = Cardinality(slots) + 1
      BY <1>2, <2>2, FS_AddElement
    <3> QED BY <1>2, <2>2, <3>1
  <2>3. server[c] # "handling" => c \notin slots
    BY <1>2 DEF Mutators
  <2> QED BY <2>1, <2>2, <2>3
<1> QED BY <1>1, <1>4, <1>5 DEF Slotted

LEMMA SlottedStep ==
  ASSUME Types, Requested, Bounds, Slotted, Next
  PROVE  Slotted'
<1>1. setup' = setup /\ Slots \in Nat
  BY Frame, EdgeAssumption DEF Bounds, Slots
<1>2. ASSUME NEW c \in Calls,
             \/ Request(c) \/ Receive(c) \/ Checkpoint(c) \/ Admit(c) \/ Handle(c)
             \/ ReadHead(c) \/ Respond(c) \/ CheckpointFails(c) \/ WindowFull(c) \/ Denies(c)
             \/ Aborts(c)
      PROVE  Slotted'
  <2>1. CASE Request(c)
    <3>1. server[c] # "handling"
      BY <2>1 DEF Request, Requested
    <3> QED BY <1>1, <2>1, <3>1, SlotMoves DEF Request
  <2>2. CASE Receive(c)
    <3>1. PICK to \in {"received", "checkpointed", "gone"} : server' = [server EXCEPT ![c] = to]
      BY <2>2 DEF Receive, Goes
    <3> QED BY <1>1, <2>2, <3>1, SlotMoves DEF Receive
  <2>3. CASE Checkpoint(c)
    <3>1. PICK to \in {"checkpointed", "handled"} : server' = [server EXCEPT ![c] = to]
      BY <2>3 DEF Checkpoint, Goes, Answers
    <3> QED BY <1>1, <2>3, <3>1, SlotMoves DEF Checkpoint
  <2>4. CASE Admit(c)
    <3>1. server[c] # "handling"
      BY <2>4 DEF Admit
    <3>2. \/ server' = [server EXCEPT ![c] = "handled"] /\ slots' = slots
          \/ /\ server' = [server EXCEPT ![c] = "handling"]
             /\ ~ (Mutates(c) /\ Cardinality(slots) >= Slots)
             /\ slots' = IF Mutates(c) THEN slots \cup {c} ELSE slots
      BY <2>4 DEF Admit, Goes, Answers
    <3>3. Cardinality(slots) \in Nat
      BY FS_CardinalityType DEF Slotted
    <3>4. CASE server' = [server EXCEPT ![c] = "handled"] /\ slots' = slots
      BY <1>1, <3>1, <3>4, SlotMoves
    <3>5. CASE Mutates(c) /\ server' = [server EXCEPT ![c] = "handling"]
               /\ Cardinality(slots) < Slots /\ slots' = slots \cup {c}
      BY <1>1, <3>1, <3>5, SlotMoves
    <3>6. CASE ~ Mutates(c) /\ server' = [server EXCEPT ![c] = "handling"] /\ slots' = slots
      BY <1>1, <3>1, <3>6, SlotMoves
    <3> QED BY <1>1, <3>2, <3>3, <3>4, <3>5, <3>6
  <2>5. CASE Handle(c) \/ Denies(c)
    <3>1. server' = [server EXCEPT ![c] = "handled"] /\ slots' = slots \ {c}
      BY <2>5 DEF Handle, Denies, Answers, Goes
    <3> QED BY <1>1, <3>1, SlotMoves
  <2>6. CASE ReadHead(c) \/ Respond(c) \/ CheckpointFails(c) \/ WindowFull(c)
    <3>1. PICK to \in {"answering", "gone", "handled"} : server' = [server EXCEPT ![c] = to]
      BY <2>6 DEF ReadHead, Respond, CheckpointFails, WindowFull, Answers, Leaves, Goes
    <3>2. server[c] # "handling" /\ slots' = slots
      BY <2>6 DEF ReadHead, Respond, CheckpointFails, WindowFull
    <3> QED BY <1>1, <3>1, <3>2, SlotMoves
  <2>7. CASE Aborts(c)
    <3>1. server' = [server EXCEPT ![c] = "gone"] /\ slots' = slots \ {c}
      BY <2>7 DEF Aborts, Leaves, Goes
    <3> QED BY <1>1, <3>1, SlotMoves
  <2> QED BY <1>2, <2>1, <2>2, <2>3, <2>4, <2>5, <2>6, <2>7
<1>3. CASE Crash \/ Restore
  <2>1. slots' = {} /\ server' = [c \in Calls |-> IF Busy(c) THEN "gone" ELSE server[c]]
    BY <1>3 DEF Crash, Restore, Stop
  <2>2. Mutators' = {}
    BY <2>1 DEF Mutators, Busy
  <2>3. IsFiniteSet(slots') /\ Cardinality(slots') = 0
    BY <2>1, FS_EmptySet
  <2> QED BY <1>1, <2>1, <2>2, <2>3 DEF Slotted, Slots
<1>4. CASE UNCHANGED <<server, slots>>
  BY <1>1, <1>4 DEF Slotted, Mutators, Mutates, Slots
<1> QED BY <1>2, <1>3, <1>4, Frame

LEMMA AnsweredStep ==
  ASSUME Types, Requested, Bounds, Logs, Results, Answered, Next
  PROVE  Answered'
<1>1. setup' = setup /\ JournalEntries' = JournalEntries /\ ServerPolicy' = ServerPolicy
  BY Frame DEF JournalEntries, MaxRestores, ServerPolicy
\* A step of another call's task.
<1>2. ASSUME NEW d \in Calls, UNCHANGED <<server[d], body[d], head[d], response[d]>>,
             Evidence(d, journal) => Evidence(d, journal')
      PROVE  Answering(d)' /\ Responded(d)'
  BY <1>1, <1>2 DEF Answered, Answering, Responded, Evidence, Mutates
<1>3. ASSUME NEW c \in Calls,
             \/ Request(c) \/ Receive(c) \/ Checkpoint(c) \/ Admit(c) \/ Handle(c)
             \/ ReadHead(c) \/ Respond(c) \/ CheckpointFails(c) \/ WindowFull(c) \/ Denies(c)
             \/ Aborts(c)
      PROVE  \A d \in Calls :
               /\ Evidence(d, journal) => Evidence(d, journal')
               /\ d # c => UNCHANGED <<server[d], body[d], head[d], response[d]>>
  <2>1. \A d \in Calls : Evidence(d, journal) => Evidence(d, journal')
    <3>1. CASE Handle(c)
      BY <3>1, HandleJournal
    <3>2. CASE ~ Handle(c)
      <4>1. journal' = journal
        BY <1>3, <3>2 DEF Request, Receive, Checkpoint, Admit, ReadHead, Respond,
                          CheckpointFails, WindowFull, Denies, Aborts, services
      <4> QED BY <4>1 DEF Evidence, Mutates
    <3> QED BY <3>1, <3>2
  <2>2. ASSUME NEW d \in Calls \ {c} PROVE UNCHANGED <<server[d], body[d], head[d], response[d]>>
    <3>1. server'[d] = server[d]
      BY <1>3 DEF Request, Receive, Checkpoint, Admit, Handle, ReadHead, Respond,
                  CheckpointFails, WindowFull, Denies, Aborts, Goes, Answers, Leaves, Types
    <3>2. body'[d] = body[d]
      BY <1>3 DEF Request, Receive, Checkpoint, Admit, Handle, ReadHead, Respond,
                  CheckpointFails, WindowFull, Denies, Aborts, Answers, Leaves, Results
    <3>3. head'[d] = head[d]
      BY <1>3 DEF Request, Receive, Checkpoint, Admit, Handle, ReadHead, Respond,
                  CheckpointFails, WindowFull, Denies, Aborts, Leaves, Logs
    <3>4. response'[d] = response[d]
      BY <1>3 DEF Request, Receive, Checkpoint, Admit, Handle, ReadHead, Respond,
                  CheckpointFails, WindowFull, Denies, Aborts, Results
    <3> QED BY <3>1, <3>2, <3>3, <3>4
  <2> QED BY <2>1, <2>2
\* A task that goes on, with no response so far.
<1>4. ASSUME NEW c \in Calls, NEW to, server' = [server EXCEPT ![c] = to], server[c] # "gone",
             response'[c] = response[c],
             \/ to \notin {"handled", "answering"}
             \/ to = "handled" /\ body'[c] # "ok"
      PROVE  Answering(c)' /\ Responded(c)'
  <2>1. server'[c] = to
    BY <1>4 DEF Types
  <2>2. response'[c] = NoFrame
    BY <1>4 DEF Answered, Responded
  <2> QED BY <1>4, <2>1, <2>2 DEF Answering, Responded
<1>5. ASSUME NEW c \in Calls, Request(c) \/ Receive(c) PROVE Answering(c)' /\ Responded(c)'
  <2>1. PICK to \in {"reading", "received", "checkpointed", "gone"} :
          server' = [server EXCEPT ![c] = to]
    BY <1>5 DEF Request, Receive, Goes
  <2>2. server[c] # "gone" /\ response' = response
    BY <1>5 DEF Request, Receive, Requested
  <2> QED BY <1>4, <2>1, <2>2
<1>6. ASSUME NEW c \in Calls,
             Checkpoint(c) \/ CheckpointFails(c) \/ Admit(c) \/ WindowFull(c) \/ Denies(c)
      PROVE  Answering(c)' /\ Responded(c)'
  <2>1. server[c] # "gone" /\ response' = response
    BY <1>6 DEF Checkpoint, Admit, CheckpointFails, WindowFull, Denies
  <2>2. \/ \E to \in {"checkpointed", "handling"} : server' = [server EXCEPT ![c] = to]
        \/ /\ server' = [server EXCEPT ![c] = "handled"]
           /\ \E b \in {"rejected", "busy", "denied"} : body' = [body EXCEPT ![c] = b]
    BY <1>6 DEF Checkpoint, Admit, CheckpointFails, WindowFull, Denies, Answers, Goes
  <2>3. CASE \E to \in {"checkpointed", "handling"} : server' = [server EXCEPT ![c] = to]
    BY <1>4, <2>1, <2>3
  <2>4. CASE /\ server' = [server EXCEPT ![c] = "handled"]
             /\ \E b \in {"rejected", "busy", "denied"} : body' = [body EXCEPT ![c] = b]
    <3>1. body'[c] # "ok"
      BY <2>4 DEF Results
    <3> QED BY <1>4, <2>1, <2>4, <3>1
  <2> QED BY <2>2, <2>3, <2>4
<1>7. ASSUME NEW c \in Calls, Handle(c) PROVE Answering(c)' /\ Responded(c)'
  <2>1. server'[c] = "handled" /\ server[c] # "gone" /\ response' = response
    BY <1>7 DEF Handle, Answers, Goes, Types
  <2>2. response'[c] = NoFrame
    BY <2>1 DEF Answered, Responded
  <2>3. Evidence(c, journal')
    BY <1>7, HandleJournal
  <2> QED BY <2>1, <2>2, <2>3 DEF Answering, Responded, Evidence, Mutates
<1>8. ASSUME NEW c \in Calls, ReadHead(c) PROVE Answering(c)' /\ Responded(c)'
  <2>1. /\ server[c] = "handled" /\ server'[c] = "answering" /\ UNCHANGED <<body, response>>
        /\ head'[c] = IF ServerPolicy = "required" THEN journal ELSE <<>>
    BY <1>8 DEF ReadHead, Goes, Types, Logs
  <2>2. response'[c] = NoFrame
    BY <2>1 DEF Answered, Responded
  <2>3. body[c] = "ok" => Evidence(c, journal)
    BY <2>1 DEF Answered, Answering
  <2> QED BY <1>1, <2>1, <2>2, <2>3 DEF Answering, Responded, Evidence, Mutates
<1>9. ASSUME NEW c \in Calls, Respond(c) PROVE Answering(c)' /\ Responded(c)'
  <2>1. server[c] = "answering" /\ server'[c] = "gone"
    BY <1>9 DEF Respond, Leaves, Goes, Types
  <2>2. response[c] = NoFrame
    BY <2>1 DEF Answered, Responded
  <2>3. CASE response' = response
    BY <2>1, <2>2, <2>3 DEF Answering, Responded
  <2>4. CASE response' # response
    <3> DEFINE h == IF ServerPolicy = "required" THEN SignHead(Server.id, Server.secret, head[c])
                    ELSE NoHead
    <3>1. response'[c] = SignResponse(Server.id, Server.secret, request[c], body[c], now, h)
      BY <1>9, <2>4 DEF Respond, Results
    <3>2. response'[c].body = body[c] /\ response'[c].head = h
      <4> HIDE DEF h
      <4> QED BY <3>1 DEF SignResponse
    <3>3. body[c] \in Bodies /\ head[c] \in Seq(JournalEntries)
      BY DEF Results, Logs
    <3>4. h # NoHead => h.at = head[c] /\ (body[c] = "ok" => Evidence(c, head[c]))
      BY <2>1 DEF SignHead, Answered, Answering
    <3> HIDE DEF h
    <3> QED BY <1>1, <2>1, <3>2, <3>3, <3>4 DEF Answering, Responded, Evidence, Mutates
  <2> QED BY <2>3, <2>4
<1>10. ASSUME NEW c \in Calls, Aborts(c) PROVE Answering(c)' /\ Responded(c)'
  BY <1>4, <1>10 DEF Aborts, Leaves, Goes, Busy
<1>11. CASE Crash \/ Restore
  <2>1. server' = [c \in Calls |-> IF Busy(c) THEN "gone" ELSE server[c]] /\ response' = response
    BY <1>11 DEF Crash, Restore, Stop
  <2>2. ASSUME NEW d \in Calls PROVE Answering(d)' /\ Responded(d)'
    <3>1. server'[d] \in {"gone", "unborn"} /\ (server[d] = "gone" => server'[d] = "gone")
      BY <2>1 DEF Busy
    <3> QED BY <1>1, <2>1, <3>1 DEF Answered, Answering, Responded, Evidence, Mutates
  <2> QED BY <2>2 DEF Answered
<1>12. CASE UNCHANGED <<server, body, head, response, slots>>
  <2>1. \A d \in Calls : server[d] = "handled" /\ Evidence(d, journal) => Evidence(d, journal')
    <3>1. ASSUME NEW c \in Calls, Handle(c) PROVE FALSE
      <4>1. server[c] = "handling" /\ server'[c] = "handled"
        BY <3>1 DEF Handle, Answers, Goes, Types
      <4> QED BY <1>12, <4>1
    <3>2. journal' = journal \/ Restore
      BY <3>1, Frame
    <3>3. CASE Restore
      <4>1. server' = [c \in Calls |-> IF Busy(c) THEN "gone" ELSE server[c]]
        BY <3>3 DEF Restore, Stop
      <4> QED BY <1>12, <4>1 DEF Busy
    <3> QED BY <3>2, <3>3 DEF Evidence, Mutates
  <2> QED BY <1>1, <1>12, <2>1 DEF Answered, Answering, Responded, Evidence, Mutates
<1>13. ASSUME NEW c \in Calls,
              \/ Request(c) \/ Receive(c) \/ Checkpoint(c) \/ Admit(c) \/ Handle(c)
              \/ ReadHead(c) \/ Respond(c) \/ CheckpointFails(c) \/ WindowFull(c)
              \/ Denies(c) \/ Aborts(c)
       PROVE  Answered'
  <2>1. Answering(c)' /\ Responded(c)'
    BY <1>5, <1>6, <1>7, <1>8, <1>9, <1>10, <1>13
  <2>2. ASSUME NEW d \in Calls \ {c} PROVE Answering(d)' /\ Responded(d)'
    BY <1>2, <1>3, <1>13
  <2> QED BY <2>1, <2>2 DEF Answered
<1> QED BY <1>11, <1>12, <1>13, Frame

LEMMA BelievedStep ==
  ASSUME Bounds, Logs, Results, Answered, Believed, Next
  PROVE  Believed'
<1>1. setup' = setup /\ Edge' = Edge
  BY Frame DEF Edge
<1> SUFFICES ASSUME NEW d \in Calls, outcome'[d] = "ok", Edge[d].policy = "required"
             PROVE  /\ response'[d] # NoFrame /\ response'[d].body = "ok"
                    /\ response'[d].head # NoHead
                    /\ \/ Len(response'[d].head.at) < Len(heldByClient')
                       \/ response'[d].head.at = heldByClient'
  BY <1>1 DEF Believed
<1>2. response[d] # NoFrame => response'[d] = response[d]
  <2>1. ASSUME NEW c \in Calls, Respond(c), response[d] # NoFrame PROVE response'[d] = response[d]
    <3>1. d # c
      BY <2>1 DEF Respond, Answered, Responded
    <3> QED BY <2>1, <3>1 DEF Respond, Results
  <2>2. \/ response' = response
        \/ \E c \in Calls : Respond(c)
    BY Frame DEF Crash, Restore, Request, Receive, Checkpoint, Admit, Handle, ReadHead,
                 CheckpointFails, WindowFull, Denies, Aborts
  <2> QED BY <2>1, <2>2
<1>3. outcome[d] = "ok" =>
        /\ response[d] # NoFrame /\ response[d].body = "ok" /\ response[d].head # NoHead
        /\ response[d].head.at \in Seq(JournalEntries)
        /\ \/ Len(response[d].head.at) < Len(heldByClient)
           \/ response[d].head.at = heldByClient
  BY DEF Believed, Answered, Responded
<1>4. CASE UNCHANGED <<heldByClient, outcome>>
  BY <1>2, <1>3, <1>4
<1>5. ASSUME NEW c \in Calls, MeetsEnd(c) \/ GivesUp(c)
      PROVE  outcome[d] = "ok" /\ heldByClient' = heldByClient
  BY <1>5 DEF MeetsEnd, GivesUp, Ends, Results, services
<1>6. ASSUME NEW c \in Calls, Return(c) \/ ReturnFails(c)
      PROVE  /\ response'[d] # NoFrame /\ response'[d].body = "ok" /\ response'[d].head # NoHead
             /\ \/ Len(response'[d].head.at) < Len(heldByClient')
                \/ response'[d].head.at = heldByClient'
  <2>1. response' = response /\ response[c] # NoFrame
    BY <1>6 DEF Return, ReturnFails, serverVars
  <2>2. heldByClient \in Seq(JournalEntries) /\ Len(heldByClient) \in Nat
    BY DEF Logs
  <2>3. \/ heldByClient' = heldByClient
        \/ /\ Acceptable(c) /\ Edge[c].policy = "required"
           /\ heldByClient' = response[c].head.at
           /\ Len(heldByClient') > Len(heldByClient) \/ heldByClient' = heldByClient
    BY <1>6 DEF Return, ReturnFails, Retains
  <2>4. heldByClient' \in Seq(JournalEntries) /\ Len(heldByClient') \in Nat
        /\ (Len(heldByClient') > Len(heldByClient) \/ heldByClient' = heldByClient)
    BY <2>1, <2>2, <2>3, BelievedResponse
  <2>5. CASE d # c
    <3>1. outcome[d] = "ok"
      BY <1>6, <2>5 DEF Return, ReturnFails, Ends, Results
    <3>2. Len(response[d].head.at) \in Nat
      BY <1>3, <3>1
    <3> QED BY <1>3, <2>1, <2>2, <2>4, <3>1, <3>2
  <2>6. CASE d = c
    <3>1. /\ Acceptable(c) /\ heldByClient' = response[c].head.at
          /\ outcome'[c] = response[c].body
      BY <1>6, <2>6 DEF Return, ReturnFails, Ends, Results
    <3>2. response[c].head # NoHead
      BY <2>1, <2>6, <3>1, BelievedResponse
    <3> QED BY <2>1, <2>6, <3>1, <3>2
  <2> QED BY <2>5, <2>6
<1> QED BY <1>2, <1>3, <1>4, <1>5, <1>6, Frame

LEMMA InitAnswers == Init => AnswersInv
<1> SUFFICES ASSUME Init PROVE AnswersInv
  OBVIOUS
<1> USE DEF Init
<1>1. Slots \in Nat /\ MaxTime \in Nat /\ MaxMishaps \in Nat /\ MaxRestores \in Nat
  BY EdgeAssumption DEF Slots, MaxTime, MaxMishaps, MaxRestores
<1>2. Bounds /\ Logs /\ Results /\ Answered /\ Believed
  BY <1>1 DEF Bounds, Logs, Results, Bodies, None, Answered, Answering, Responded, Believed
<1>3. Slotted
  BY <1>1, FS_EmptySet DEF Slotted, Mutators
<1> QED BY <1>2, <1>3 DEF AnswersInv

LEMMA StepAnswers == IInv /\ AnswersInv /\ [Next]_vars => AnswersInv'
<1>1. ASSUME IInv, AnswersInv, Next PROVE AnswersInv'
  BY <1>1, BoundsStep, LogsStep, ResultsStep, SlottedStep, AnsweredStep, BelievedStep
     DEF IInv, AnswersInv
<1>2. ASSUME AnswersInv, UNCHANGED vars PROVE AnswersInv'
  <2> USE <1>2 DEF AnswersInv, vars, services, callerVars, serverVars
  <2>1. Bounds' /\ Logs' /\ Results'
    BY DEF Bounds, Logs, Results, JournalEntries, MaxTime, MaxMishaps, MaxRestores
  <2>2. Slotted' /\ Answered' /\ Believed'
    BY DEF Slotted, Mutators, Mutates, Slots, Answered, Answering, Responded, Evidence,
           JournalEntries, MaxRestores, ServerPolicy, Believed, Edge
  <2> QED BY <2>1, <2>2
<1> QED BY <1>1, <1>2

\* Every variable keeps its type, and the slots taken are those of the mutations whose
\* handlers run, never more than there are: each is given back when its handler ends, its
\* task is dropped or its process dies (EndpointQuota::admit in dispatch_connection).
THEOREM EdgeTypeCorrect == Spec => []TypeOK
<1>1. IInv /\ AnswersInv /\ Refusals => TypeOK
  BY DEF IInv, AnswersInv, Refusals, Types, Bounds, Logs, Results, Slotted, Mutators, Bodies,
         JournalEntries, TypeOK
<1>2. Init => Refusals
  BY DEF Init, Refusals, Effects, Early
<1>3. IInv /\ Refusals /\ [Next]_vars => Refusals'
  BY RefusalsStep
<1> QED BY <1>1, <1>2, <1>3, InitInv, StepInv, InitAnswers, StepAnswers, PTL DEF Spec

\* A caller that is told its mutation succeeded retains a signed head that covers the
\* effect, or a longer one, whatever fails and however often the server is restored:
\* call_with_journal_head retains the head of the response before it returns the result.
THEOREM SuccessIsCovered == Spec => []OkCoversEffect
<1>1. AnswersInv => OkCoversEffect
  <2> SUFFICES ASSUME AnswersInv, NEW c \in Calls, outcome[c] = "ok", Edge[c].policy = "required"
               PROVE  /\ Mutates(c) => HasEffect(response[c].head.at, OpOf[c])
                      /\ Len(response[c].head.at) <= Len(heldByClient)
    BY DEF OkCoversEffect
  <2>1. /\ response[c] # NoFrame /\ response[c].body = "ok" /\ response[c].head # NoHead
        /\ \/ Len(response[c].head.at) < Len(heldByClient)
           \/ response[c].head.at = heldByClient
    BY DEF AnswersInv, Believed
  <2>2. response[c].head.at \in Seq(JournalEntries) /\ Evidence(c, response[c].head.at)
    BY <2>1 DEF AnswersInv, Answered, Responded
  <2>3. heldByClient \in Seq(JournalEntries)
    BY DEF AnswersInv, Logs
  <2> QED BY <2>1, <2>2, <2>3 DEF Evidence
<1> QED BY <1>1, InitInv, StepInv, InitAnswers, StepAnswers, PTL DEF Spec

\* No result is returned over a journal that is behind, or beside, the one under an earlier
\* result: after a restore the server's answers are refused until its journal has outgrown
\* what was lost (the checkpoint sink of call_with_journal_head).
THEOREM SuccessNeverGoesBack == Spec => OkNeverBehind
<1> DEFINE Ahead ==
      \A c, d \in Calls :
        /\ outcome'[c] = "ok" /\ outcome[c] # "ok" /\ Edge[c].policy = "required"
        /\ outcome[d] = "ok" /\ Edge[d].policy = "required"
        => \/ Len(response[c].head.at) > Len(response[d].head.at)
           \/ response[c].head.at = response[d].head.at
<1>1. AnswersInv /\ [Next]_vars => [Ahead]_vars
  <2> SUFFICES ASSUME AnswersInv, Next, NEW c \in Calls, NEW d \in Calls,
                      outcome'[c] = "ok", outcome[c] # "ok", Edge[c].policy = "required",
                      outcome[d] = "ok", Edge[d].policy = "required"
               PROVE  \/ Len(response[c].head.at) > Len(response[d].head.at)
                      \/ response[c].head.at = response[d].head.at
    OBVIOUS
  <2>1. Return(c)
    <3>1. PICK e \in Calls : Return(e) \/ MeetsEnd(e) \/ ReturnFails(e) \/ GivesUp(e)
      BY Frame
    <3>2. e = c /\ ~ MeetsEnd(e) /\ ~ ReturnFails(e) /\ ~ GivesUp(e)
      BY <3>1 DEF Return, MeetsEnd, ReturnFails, GivesUp, Ends, AnswersInv, Results
    <3> QED BY <3>1, <3>2
  <2>2. Acceptable(c) /\ Retains(heldByClient, response[c].head.at) /\ response[c] # NoFrame
    BY <2>1 DEF Return, Ends, AnswersInv, Results
  <2>3. /\ response[d] # NoFrame /\ response[d].head # NoHead
        /\ \/ Len(response[d].head.at) < Len(heldByClient)
           \/ response[d].head.at = heldByClient
    BY DEF AnswersInv, Believed
  <2>4. /\ response[d].head.at \in Seq(JournalEntries) /\ response[c].head.at \in Seq(JournalEntries)
        /\ heldByClient \in Seq(JournalEntries)
    BY <2>2, <2>3, BelievedResponse DEF AnswersInv, Answered, Responded, Logs
  <2> QED BY <2>2, <2>3, <2>4 DEF Retains
<1> QED BY <1>1, InitInv, StepInv, InitAnswers, StepAnswers, PTL DEF Spec, OkNeverBehind

(***************************************************************************)
(* Genuine heads.  Unless the server was restored, its journal only grows, *)
(* so that whatever it signed and the client retained looks back on it.    *)
(***************************************************************************)
HeadsLookBack ==
  /\ Prefix(heldByClient, journal)
  /\ \A c \in Calls :
       /\ server[c] = "answering" => Prefix(head[c], journal)
       /\ response[c] # NoFrame /\ response[c].head # NoHead =>
            Prefix(response[c].head.at, journal)

Genuine == MaxRestores = 0 => HeadsLookBack

\* A head of the retained sequence is the retained head.
Agrees(at, held) == Len(at) = Len(held) => at = held

\* What the checkpoint sinks are asked to retain, of either side, is never a fork of what
\* they retain, however the heads overtake each other: at worst it is older.
NoFalseFork ==
  \A c \in Calls :
    /\ server[c] = "received" => Agrees(Asked(c).at, heldByServer)
    /\ /\ MaxRestores = 0
       /\ response[c] # NoFrame /\ response[c].head # NoHead
       => Agrees(response[c].head.at, heldByClient)

LEMMA PrefixesAgree ==
  ASSUME NEW S, NEW s \in Seq(S), NEW t \in Seq(S), NEW u \in Seq(S),
         Prefix(s, u), Prefix(t, u)
  PROVE  Agrees(s, t)
<1> SUFFICES ASSUME Len(s) = Len(t) PROVE s = t
  BY DEF Agrees
<1>1. \A i \in 1..Len(s) : s[i] = t[i]
  BY DEF Prefix
<1> QED BY <1>1, SeqEqual

\* Without a restore the journal only grows.
LEMMA JournalGrows ==
  ASSUME Types, Bounds, Logs, Next, MaxRestores = 0, NEW s \in Seq(JournalEntries),
         Prefix(s, journal)
  PROVE  Prefix(s, journal')
<1>1. ~ Restore
  BY DEF Restore, Bounds
<1>2. ASSUME NEW c \in Calls, Handle(c) PROVE Prefix(s, journal')
  <2> DEFINE e == [op |-> OpOf[c], by |-> c, era |-> era]
  <2>1. e \in JournalEntries
    BY EdgeAssumption DEF JournalEntries, Bounds
  <2>2. journal' = journal \/ journal' = Append(journal, e)
    BY <1>2 DEF Handle
  <2>3. journal \in Seq(JournalEntries)
    BY DEF Logs
  <2> HIDE DEF e
  <2> QED BY <2>1, <2>2, <2>3, PrefixOfLonger
<1> QED BY <1>1, <1>2, Frame

LEMMA GenuineStep ==
  ASSUME Types, Bounds, Logs, Results, Answered, Genuine, Next
  PROVE  Genuine'
<1>1. MaxRestores' = MaxRestores /\ ServerPolicy' = ServerPolicy
  BY Frame DEF MaxRestores, ServerPolicy
<1> SUFFICES ASSUME MaxRestores = 0, HeadsLookBack PROVE HeadsLookBack'
  BY <1>1 DEF Genuine
<1>2. /\ heldByClient \in Seq(JournalEntries) /\ head \in [Calls -> Seq(JournalEntries)]
      /\ journal \in Seq(JournalEntries)
      /\ \A c \in Calls : response[c] # NoFrame /\ response[c].head # NoHead =>
                            response[c].head.at \in Seq(JournalEntries)
  BY DEF Logs, Answered, Responded
<1>3. \A s \in Seq(JournalEntries) : Prefix(s, journal) => Prefix(s, journal')
  BY JournalGrows
<1>4. Prefix(heldByClient', journal')
  <2>1. ASSUME NEW c \in Calls, Return(c) \/ ReturnFails(c)
        PROVE  Prefix(heldByClient', journal')
    <3>1. heldByClient' = heldByClient
          \/ /\ heldByClient' = response[c].head.at /\ response[c] # NoFrame
             /\ Acceptable(c) /\ Edge[c].policy = "required"
      BY <2>1 DEF Return, ReturnFails
    <3> QED BY <1>2, <1>3, <3>1, BelievedResponse DEF HeadsLookBack
  <2>2. ASSUME NEW c \in Calls, MeetsEnd(c) \/ GivesUp(c) PROVE heldByClient' = heldByClient
    BY <2>2 DEF MeetsEnd, GivesUp, services
  <2> QED BY <1>2, <1>3, <2>1, <2>2, Frame DEF HeadsLookBack
<1>5. ASSUME NEW d \in Calls, server'[d] = "answering" PROVE Prefix(head'[d], journal')
  <2>1. CASE server'[d] = server[d] /\ head'[d] = head[d]
    BY <1>2, <1>3, <1>5, <2>1 DEF HeadsLookBack
  <2>2. CASE ReadHead(d)
    <3>1. head'[d] \in {journal, <<>>} /\ journal' = journal
      BY <2>2 DEF ReadHead, Logs, services
    <3>2. Prefix(journal, journal) /\ Prefix(<<>>, journal)
      BY <1>2 DEF Prefix
    <3> QED BY <3>1, <3>2
  <2>3. ASSUME NEW c \in Calls,
               \/ Request(c) \/ Receive(c) \/ Checkpoint(c) \/ Admit(c) \/ Handle(c)
               \/ ReadHead(c) \/ Respond(c) \/ CheckpointFails(c) \/ WindowFull(c)
               \/ Denies(c) \/ Aborts(c)
        PROVE  (server'[d] = server[d] /\ head'[d] = head[d]) \/ ReadHead(d)
    <3>1. CASE c = d
      BY <1>5, <2>3, <3>1 DEF Request, Receive, Checkpoint, Admit, Handle, Respond,
                              CheckpointFails, WindowFull, Denies, Aborts, Goes, Answers,
                              Leaves, Types
    <3>2. CASE c # d
      BY <2>3, <3>2 DEF Request, Receive, Checkpoint, Admit, Handle, ReadHead, Respond,
                        CheckpointFails, WindowFull, Denies, Aborts, Goes, Answers, Leaves,
                        Types, Logs
    <3> QED BY <3>1, <3>2
  <2>4. ~ Crash /\ ~ Restore
    BY <1>5 DEF Crash, Restore, Stop, Busy
  <2> QED BY <2>1, <2>2, <2>3, <2>4, Frame
<1>6. ASSUME NEW d \in Calls, response'[d] # NoFrame, response'[d].head # NoHead
      PROVE  Prefix(response'[d].head.at, journal')
  <2>1. CASE response'[d] = response[d]
    BY <1>2, <1>3, <1>6, <2>1 DEF HeadsLookBack
  <2>2. CASE response'[d] # response[d]
    <3>1. Respond(d)
      <4>1. \/ response' = response
            \/ \E c \in Calls : Respond(c)
        BY Frame DEF Crash, Restore, Request, Receive, Checkpoint, Admit, Handle, ReadHead,
                     CheckpointFails, WindowFull, Denies, Aborts
      <4> QED BY <2>2, <4>1 DEF Respond, Results
    <3> DEFINE h == IF ServerPolicy = "required" THEN SignHead(Server.id, Server.secret, head[d])
                    ELSE NoHead
    <3>2. response'[d] \in {response[d], SignResponse(Server.id, Server.secret, request[d], body[d], now, h)}
      BY <3>1 DEF Respond, Results
    <3>3. response'[d].head = h
      <4> HIDE DEF h
      <4> QED BY <2>2, <3>2 DEF SignResponse
    <3>4. h # NoHead => h.at = head[d]
      BY DEF SignHead
    <3>5. server[d] = "answering" /\ journal' = journal
      BY <3>1 DEF Respond, services
    <3> QED BY <1>6, <3>3, <3>4, <3>5 DEF HeadsLookBack
  <2> QED BY <2>1, <2>2
<1> QED BY <1>4, <1>5, <1>6 DEF HeadsLookBack

\* Concurrent calls may present their heads to the sinks out of order, which are then
\* refused as older (CheckpointError::Rollback); but as long as no journal was restored, no
\* honest head is ever taken for a fork, on either side.
THEOREM HonestHeadsNeverFork == Spec => []NoFalseFork
<1>1. Init => Genuine
  BY DEF Init, Genuine, HeadsLookBack, Prefix
<1>2. ASSUME IInv, AnswersInv, Genuine, [Next]_vars PROVE Genuine'
  <2>1. CASE Next
    BY <1>2, <2>1, GenuineStep DEF IInv, AnswersInv
  <2>2. CASE UNCHANGED vars
    BY <1>2, <2>2 DEF Genuine, HeadsLookBack, MaxRestores, vars, services, callerVars,
                      serverVars
  <2> QED BY <1>2, <2>1, <2>2
<1>3. ASSUME IInv, AnswersInv, Genuine PROVE NoFalseFork
  <2>1. ASSUME NEW c \in Calls, server[c] = "received" PROVE Agrees(Asked(c).at, heldByServer)
    <3>1. Asked(c) # NoHead
      BY <1>3, <2>1 DEF IInv, Checkpointed
    <3>2. CoversIntent(c, Asked(c).at) /\ Prefix(heldByServer, intents)
      BY <1>3, <2>1, <3>1 DEF IInv, Requested
    <3> QED BY <1>3, <3>2, PrefixesAgree DEF CoversIntent, IInv, Types
  <2>2. ASSUME NEW c \in Calls, MaxRestores = 0, response[c] # NoFrame, response[c].head # NoHead
        PROVE  Agrees(response[c].head.at, heldByClient)
    <3>1. /\ response[c].head.at \in Seq(JournalEntries)
          /\ heldByClient \in Seq(JournalEntries) /\ journal \in Seq(JournalEntries)
      BY <1>3, <2>2 DEF AnswersInv, Answered, Responded, Logs
    <3>2. Prefix(response[c].head.at, journal) /\ Prefix(heldByClient, journal)
      BY <1>3, <2>2 DEF Genuine, HeadsLookBack
    <3> QED BY <3>1, <3>2, PrefixesAgree
  <2> QED BY <2>1, <2>2 DEF NoFalseFork
<1> QED BY <1>1, <1>2, <1>3, InitInv, StepInv, InitAnswers, StepAnswers, PTL DEF Spec

(***************************************************************************)
(* What safety says of termination: every call has so many steps left.     *)
(***************************************************************************)
CallerLeft(c) ==
  CASE caller[c] = "idle" -> 10
    [] caller[c] = "dialling" -> 9
    [] caller[c] = "waiting" -> 1
    [] OTHER -> 0

ServerLeft(c) ==
  CASE server[c] = "reading" -> 7
    [] server[c] = "received" -> 6
    [] server[c] = "checkpointed" -> 5
    [] server[c] = "handling" -> 4
    [] server[c] = "handled" -> 3
    [] server[c] = "answering" -> 2
    [] OTHER -> 0

Left(c) == CallerLeft(c) + ServerLeft(c)

\* A caller that waits has a task on the server that answers it or has ended.
Served == \A c \in Calls : caller[c] = "waiting" => server[c] # "unborn"

\* One call moves, its caller or its task, and the others stay.
LEMMA CallMoves ==
  ASSUME Types, Requested, NEW c \in Calls, Step(c) \/ Mishap(c)
  PROVE  /\ Left(c)' < Left(c)
         /\ \A d \in Calls \ {c} : Left(d)' = Left(d)
         /\ caller'[c] = "waiting" => server'[c] # "unborn" \/ caller[c] = "waiting"
         /\ server[c] # "unborn" => server'[c] # "unborn"
<1> USE DEF Types
<1>1. ASSUME NEW from, NEW to, caller[c] = from, caller' = [caller EXCEPT ![c] = to],
             UNCHANGED server,
             \/ from = "idle" /\ to = "dialling"
             \/ from \in {"dialling", "waiting"} /\ to = "done"
      PROVE  /\ Left(c)' < Left(c) /\ \A d \in Calls \ {c} : Left(d)' = Left(d)
             /\ caller'[c] # "waiting" /\ server'[c] = server[c]
  <2>1. CallerLeft(c)' < CallerLeft(c) /\ CallerLeft(c) \in Nat /\ CallerLeft(c)' \in Nat
    BY <1>1 DEF CallerLeft
  <2>2. ServerLeft(c)' = ServerLeft(c) /\ ServerLeft(c) \in Nat
    BY <1>1 DEF ServerLeft
  <2>3. \A d \in Calls \ {c} : Left(d)' = Left(d)
    BY <1>1 DEF Left, CallerLeft, ServerLeft
  <2> QED BY <1>1, <2>1, <2>2, <2>3 DEF Left
<1>2. ASSUME NEW to, server' = [server EXCEPT ![c] = to], UNCHANGED caller,
             \/ server[c] = "reading" /\ to \in {"received", "checkpointed"}
             \/ server[c] = "received" /\ to \in {"checkpointed", "handled"}
             \/ server[c] = "checkpointed" /\ to \in {"handling", "handled"}
             \/ server[c] = "handling" /\ to = "handled"
             \/ server[c] = "handled" /\ to = "answering"
             \/ server[c] \notin {"unborn", "gone"} /\ to = "gone"
      PROVE  /\ Left(c)' < Left(c) /\ \A d \in Calls \ {c} : Left(d)' = Left(d)
             /\ caller'[c] = caller[c] /\ server'[c] # "unborn"
  <2>1. ServerLeft(c)' < ServerLeft(c) /\ ServerLeft(c) \in Nat /\ ServerLeft(c)' \in Nat
    BY <1>2 DEF ServerLeft
  <2>2. CallerLeft(c)' = CallerLeft(c) /\ CallerLeft(c) \in Nat
    BY <1>2 DEF CallerLeft
  <2>3. \A d \in Calls \ {c} : Left(d)' = Left(d)
    BY <1>2 DEF Left, CallerLeft, ServerLeft
  <2>4. caller'[c] = caller[c] /\ server'[c] # "unborn"
    BY <1>2
  <2> QED BY <2>1, <2>2, <2>3, <2>4 DEF Left
<1>3. CASE Begin(c)
  BY <1>1, <1>3 DEF Begin, serverVars
<1>4. CASE Return(c) \/ MeetsEnd(c) \/ ReturnFails(c) \/ GivesUp(c)
  BY <1>1, <1>4 DEF Return, MeetsEnd, ReturnFails, GivesUp, Ends, serverVars
<1>5. CASE Request(c)
  <2>1. /\ caller[c] = "dialling" /\ server[c] = "unborn"
        /\ caller' = [caller EXCEPT ![c] = "waiting"] /\ server' = [server EXCEPT ![c] = "reading"]
    BY <1>5 DEF Request, Requested
  <2>2. Left(c) = 9 /\ Left(c)' = 8
    BY <2>1 DEF Left, CallerLeft, ServerLeft
  <2>3. \A d \in Calls \ {c} : Left(d)' = Left(d)
    BY <2>1 DEF Left, CallerLeft, ServerLeft
  <2> QED BY <2>1, <2>2, <2>3
<1>6. CASE Receive(c) \/ Checkpoint(c) \/ Admit(c) \/ CheckpointFails(c) \/ WindowFull(c)
  BY <1>2, <1>6 DEF Receive, Checkpoint, Admit, CheckpointFails, WindowFull, Answers, Goes,
                    callerVars
<1>7. CASE Handle(c) \/ Denies(c) \/ ReadHead(c) \/ Respond(c) \/ Aborts(c)
  BY <1>2, <1>7 DEF Handle, Denies, ReadHead, Respond, Aborts, Answers, Leaves, Goes, Busy,
                    callerVars
<1> QED BY <1>3, <1>4, <1>5, <1>6, <1>7 DEF Step, Mishap, CallerStep, ServerStep

\* The steps of the machine: the tasks of a server that stops end.
LEMMA MachineMoves ==
  ASSUME Types, Tick \/ Crash \/ Restore \/ UNCHANGED vars
  PROVE  \A c \in Calls :
           /\ Left(c)' <= Left(c)
           /\ caller'[c] = caller[c] /\ (server[c] # "unborn" => server'[c] # "unborn")
<1> SUFFICES ASSUME NEW c \in Calls
             PROVE  /\ Left(c)' <= Left(c)
                    /\ caller'[c] = caller[c] /\ (server[c] # "unborn" => server'[c] # "unborn")
  OBVIOUS
<1>1. caller' = caller
  BY DEF Tick, Crash, Restore, callerVars, vars
<1>2. server'[c] = server[c] \/ (server[c] # "unborn" /\ server'[c] = "gone")
  BY DEF Tick, Crash, Restore, Stop, Busy, serverVars, vars, Types
<1>3. CallerLeft(c)' = CallerLeft(c) /\ CallerLeft(c) \in Nat
  BY <1>1 DEF CallerLeft
<1>4. ServerLeft(c)' <= ServerLeft(c) /\ ServerLeft(c) \in Nat /\ ServerLeft(c)' \in Nat
  BY <1>2 DEF ServerLeft
<1> QED BY <1>1, <1>2, <1>3, <1>4 DEF Left

\* A call has at most ten steps left, those of its caller and of the endpoint's task for it;
\* each uses one up, failures included, and nothing that happens elsewhere gives one back.
THEOREM CallsRunOut ==
  Spec => [][\A c \in Calls :
               /\ Left(c) \in 0..10 /\ Left(c)' <= Left(c)
               /\ Step(c) \/ Mishap(c) => Left(c)' < Left(c)]_vars
<1> DEFINE RunsOut(c) ==
      /\ Left(c) \in 0..10 /\ Left(c)' <= Left(c)
      /\ Step(c) \/ Mishap(c) => Left(c)' < Left(c)
<1>1. ASSUME IInv, NEW c \in Calls PROVE Left(c) \in 0..10 /\ Left(c) \in Int
  <2>1. caller[c] \in {"idle", "dialling"} => server[c] = "unborn"
    BY <1>1 DEF IInv, Requested
  <2> QED BY <2>1 DEF Left, CallerLeft, ServerLeft
<1>2. ASSUME IInv, Next, NEW c \in Calls PROVE RunsOut(c)
  <2>1. Left(c) \in 0..10 /\ Left(c) \in Int
    BY <1>1, <1>2
  <2>2. Step(c) \/ Mishap(c) => Left(c)' < Left(c)
    BY <1>2, CallMoves DEF IInv
  <2>3. CASE \E d \in Calls : Step(d) \/ Mishap(d)
    <3>1. PICK d \in Calls : Step(d) \/ Mishap(d)
      BY <2>3
    <3>2. Left(d)' < Left(d) /\ \A e \in Calls \ {d} : Left(e)' = Left(e)
      BY <1>2, <3>1, CallMoves DEF IInv
    <3>3. Left(c)' <= Left(c)
      <4>1. Left(c)' \in Int
        BY DEF Left, CallerLeft, ServerLeft
      <4> QED BY <2>1, <3>2, <4>1
    <3> QED BY <2>1, <2>2, <3>3
  <2>4. CASE Tick \/ Crash \/ Restore
    BY <1>2, <2>1, <2>2, <2>4, MachineMoves DEF IInv
  <2> QED BY <1>2, <2>3, <2>4 DEF Next
<1>3. IInv /\ [Next]_vars => [\A c \in Calls : RunsOut(c)]_vars
  BY <1>2
<1> QED BY <1>3, InitInv, StepInv, PTL DEF Spec

\* No caller waits for a task that was never started: what a waiting caller reads next is
\* the answer of a task that still runs, an answer already written, or the end of a stream.
THEOREM CallersAreServed == Spec => []Served
<1>1. Init => Served
  BY DEF Init, Served
<1>2. ASSUME IInv, Served, [Next]_vars PROVE Served'
  <2>1. ASSUME NEW c \in Calls, Step(c) \/ Mishap(c) PROVE Served'
    <3>1. \A d \in Calls \ {c} : caller'[d] = caller[d] /\ server'[d] = server[d]
      BY <1>2, <2>1 DEF IInv, Types, Step, Mishap, CallerStep, ServerStep, Begin, Request,
                        Return, MeetsEnd, ReturnFails, GivesUp, Ends, Receive, Checkpoint,
                        Admit, CheckpointFails, WindowFull, Handle, Denies, ReadHead, Respond,
                        Aborts, Answers, Leaves, Goes, callerVars, serverVars
    <3>2. /\ caller'[c] = "waiting" => server'[c] # "unborn" \/ caller[c] = "waiting"
          /\ server[c] # "unborn" => server'[c] # "unborn"
      BY <1>2, <2>1, CallMoves DEF IInv
    <3> QED BY <1>2, <3>1, <3>2 DEF Served
  <2>2. CASE Tick \/ Crash \/ Restore \/ UNCHANGED vars
    BY <1>2, <2>2, MachineMoves DEF IInv, Served
  <2> QED BY <1>2, <2>1, <2>2 DEF Next
<1> QED BY <1>1, <1>2, InitInv, StepInv, PTL DEF Spec
=============================================================================
