------------------------------- MODULE MCEdge -------------------------------
(***************************************************************************)
(* A machine's calls to a broker: the deployments TLC looks at.            *)
(***************************************************************************)
EXTENDS AuthorityEdge

MCClient == [id |-> [svc |-> "machine", epoch |-> 1, key |-> "km"], secret |-> "sm", uid |-> 1]
MCServer == [id |-> [svc |-> "broker", epoch |-> 1, key |-> "kb"], secret |-> "sb", uid |-> 2]
MCVersions == [major |-> 1, minor_min |-> 0, minor_max |-> 1]

\* Three attempts of one operation, one of each of two others, and a read.
MCOpOf == [m1 |-> "move", m2 |-> "move", m3 |-> "move", p |-> "pay", s |-> "sign", r |-> "list"]

With(policy, minor) == [policy |-> policy, protocol |-> [major |-> 1, minor |-> minor]]
Everyone(edge) == [c \in Calls |-> edge]

Required == [calls |-> {}, edge |-> Everyone(With("required", 1)), policy |-> "required",
             slots |-> 1, time |-> 0, mishaps |-> 0, restores |-> 0]

\* Two writers, one slot; a failure, a deadline that passes, or both.
Contended == [Required EXCEPT !.calls = {"m1", "p"}, !.time = 1, !.mishaps = 1]

\* Two writers and a reader, undisturbed.
Reading == [Required EXCEPT !.calls = {"m1", "p", "r"}]

\* Two writers; the server is restored from an older journal at any time, and may fail.
Restored == [Required EXCEPT !.calls = {"m1", "p"}, !.slots = 2, !.restores = 1,
                             !.mishaps = 1]

\* An operation tried again and again, alone and beside another that is tried once.
Retries == [Required EXCEPT !.calls = {"m1", "m2", "m3"}, !.slots = 2, !.time = 1,
                            !.mishaps = 1]
Overtaken == [Required EXCEPT !.calls = {"m1", "m2", "m3", "p"}, !.slots = 2]

\* Callers with a head, without one, and with a head in the version that has none.
Mixed == [Required EXCEPT !.calls = {"m1", "p", "s"}, !.slots = 2, !.mishaps = 1,
            !.edge = [Everyone(With("required", 1)) EXCEPT !["p"] = With("forbidden", 1),
                                                           !["s"] = With("required", 0)]]

\* A plain edge: two writers, one slot, no heads.
Plain == [Contended EXCEPT !.edge = Everyone(With("forbidden", 1)), !.policy = "forbidden"]

MCDeployments == {Contended, Reading, Restored, Retries, Overtaken, Mixed, Plain}
=============================================================================
