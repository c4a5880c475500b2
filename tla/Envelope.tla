------------------------------ MODULE Envelope ------------------------------
(***************************************************************************)
(* Protocol versions and the verification of signed RPC envelopes          *)
(* (crates/bloom-rpc-wire: envelope.rs, audit.rs), as operators.           *)
(*                                                                         *)
(* A signature is the secret that made it: it verifies under the public    *)
(* half of that secret and under no other, and covers the whole record, so *)
(* that a signed record is never changed on its way.                       *)
(*                                                                         *)
(*   identity  [svc, epoch, key]: service_id, boot_epoch,                  *)
(*             application_key_id                                          *)
(*   peer      [id, public, uid]: PeerAcl, and with an audience            *)
(*             AuthenticatedPeer                                           *)
(*   envelope  [kind, protocol, op, digest, id, audience, sent, deadline,  *)
(*             head, body, sig]                                            *)
(*   head      [svc, key, at, sig], or NoHead; at is the journal position  *)
(***************************************************************************)
EXTENDS Naturals

NoHead == [svc |-> "none"]

\* ProtocolVersionRange::contains; require refuses what it does not contain.
Contains(range, version) ==
  /\ range.minor_min <= range.minor_max
  /\ version.major = range.major
  /\ version.minor >= range.minor_min
  /\ version.minor <= range.minor_max

\* expected_request_digest: no two bodies have one digest.
RequestDigest(body) == [sha256 |-> body]

\* SignedJournalHead::verify_sender_identity
HeadOfSender(head, id, public) ==
  /\ head.svc = id.svc /\ head.key = id.key
  /\ head.sig = public

\* SignedEnvelope::verify_sender_journal_head: protocol minor 0 has no heads, and
\* an edge that requires them refuses minor 0; a later minor has one exactly where
\* the edge requires it, and then the sender's own.
HeadPolicyMet(env, public, policy) ==
  IF policy = "required"
    THEN env.protocol.minor # 0 /\ env.head # NoHead /\ HeadOfSender(env.head, env.id, public)
    ELSE env.head = NoHead

\* SignedEnvelope::verify, with the audience the receiver expects.
Verifies(env, uid, peer, audience, range, policy) ==
  /\ Contains(range, env.protocol)
  /\ uid = peer.uid /\ env.id = peer.id /\ env.audience = audience
  /\ env.deadline > env.sent
  /\ env.kind = "request" => env.digest = RequestDigest(env.body)
  /\ env.sig = peer.public
  /\ HeadPolicyMet(env, peer.public, policy)

\* SignedEnvelope::verify_typed: method and operation_id are those of the body.
VerifiesTyped(env, uid, peer, audience, range, policy) ==
  /\ Verifies(env, uid, peer, audience, range, policy)
  /\ env.kind = "request"
  /\ env.op = env.body.op

\* SignedEnvelope::verify_response_to
AnswersRequest(env, request) ==
  /\ env.kind = "response" /\ request.kind = "request"
  /\ env.protocol = request.protocol
  /\ env.op = request.op /\ env.digest = request.digest

VerifiesResponseTo(env, uid, peer, audience, request, range, policy) ==
  /\ Verifies(env, uid, peer, audience, range, policy)
  /\ AnswersRequest(env, request)

\* sign_request: the digest is that of the body.
SignRequest(me, secret, audience, protocol, body, sent, deadline, head) ==
  [kind |-> "request", protocol |-> protocol, op |-> body.op, digest |-> RequestDigest(body),
   id |-> me, audience |-> audience, sent |-> sent, deadline |-> deadline,
   head |-> head, body |-> body, sig |-> secret]

\* sign_response: protocol, method, operation and digest are the request's.
SignResponse(me, secret, request, body, sent, head) ==
  [kind |-> "response", protocol |-> request.protocol, op |-> request.op,
   digest |-> request.digest, id |-> me, audience |-> request.id.svc, sent |-> sent,
   deadline |-> request.deadline, head |-> head, body |-> body, sig |-> secret]

\* sign_journal_head
SignHead(me, secret, at) == [svc |-> me.svc, key |-> me.key, at |-> at, sig |-> secret]
=============================================================================
