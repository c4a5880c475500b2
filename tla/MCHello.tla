------------------------------ MODULE MCHello ------------------------------
(* One connection between any two of these configurations. *)
EXTENDS HelloHandshake

V(minor) == [major |-> 1, minor |-> minor]
W(from, to) == [major |-> 1, minor_min |-> from, minor_max |-> to]
Windows == {[current |-> V(v), range |-> W(r[1], r[2])] :
              v \in 0..2, r \in {<<0, 1>>, <<1, 2>>, <<0, 2>>, <<2, 1>>}}
           \cup {[current |-> [major |-> 2, minor |-> 1], range |-> W(0, 2)]}

Id(svc, epoch) == [svc |-> svc, epoch |-> epoch, key |-> "k"]
Config(id, secret, uid, pins, w) ==
  [id |-> id, secret |-> secret, uid |-> uid, pins |-> pins,
   current |-> w.current, range |-> w.range]

Broker == [id |-> Id("broker", 1), public |-> "kb", uid |-> 1]
Signer == [id |-> Id("signer", 1), public |-> "ks", uid |-> 1]
Session == [id |-> Id("session", 1), public |-> "ke", uid |-> 2]
OtherUid == [Session EXCEPT !.uid = 3]

\* A broker, a signer, a broker of another boot, a signer with a replaced key under
\* the same id, a broker under another UID, and a broker that pins another server.
MCClientConfigs ==
  {Config(Id("broker", 1), "kb", 1, <<Session>>, w) : w \in Windows}
  \cup {Config(Id("signer", 1), "ks", 1, <<Session>>, [current |-> V(1), range |-> W(0, 2)]),
        Config(Id("broker", 2), "kb", 1, <<Session>>, [current |-> V(1), range |-> W(0, 2)]),
        Config(Id("signer", 1), "kn", 1, <<Session>>, [current |-> V(1), range |-> W(0, 2)]),
        Config(Id("broker", 1), "kb", 4, <<Session>>, [current |-> V(1), range |-> W(0, 2)]),
        Config(Id("broker", 1), "kb", 1, <<OtherUid>>, [current |-> V(1), range |-> W(0, 2)])}

\* A sentinel with two peers of one UID, and endpoints with a single peer.
MCServerConfigs ==
  {Config(Id("session", 1), "ke", 2, <<Broker, Signer>>, w) : w \in Windows}
  \cup {Config(Id("session", 1), "ke", 2, <<Signer>>, [current |-> V(1), range |-> W(0, 2)]),
        Config(Id("session", 2), "kf", 2, <<Broker>>, [current |-> V(2), range |-> W(1, 2)])}
=============================================================================
