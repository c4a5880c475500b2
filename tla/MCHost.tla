------------------------------- MODULE MCHost -------------------------------
(***************************************************************************)
(* Small instances, for TLC, of the parts of ServiceHost.  They share no   *)
(* state: a behaviour runs one of them, which part names, while the others *)
(* stay as they start.                                                     *)
(***************************************************************************)
EXTENDS ServiceHost

VARIABLE part

hostVars == <<part, serviceVars>>

\* Of three starts of one service the last has the pid of the first.
ReusedPids == [a |-> "p1", b |-> "p2", c |-> "p1"]

\* Takes by four threads, two of one name and one of no valid name, under every sound
\* and unsound environment.
NamesAsked == [a |-> "rpc", b |-> "rpc", c |-> "control", d |-> "nul"]
Lists == {<<"rpc">>, <<"rpc", "control">>, <<"rpc", "rpc">>, <<"control", "nul">>,
          <<"rpc", "control", "other">>, <<"rpc", "control", "other", "spare">>}
AnyEnvironment ==
  {[pid |-> p, count |-> n, names |-> l, open |-> o] :
     p \in BOOLEAN, n \in 0..4, l \in Lists, o \in {{}, {1}, {2, 3}, 1..2, 1..3, 1..4}}

\* Two threads of one process and a second process on one log.
WrittenBy == [e1 |-> "service", e2 |-> "service", e3 |-> "helper"]

\* Frames of values at and beyond each limit, alone and in lists and objects.
Scalars == {Scalar(n) : n \in 1..(MaxString + 1)}
Flat ==
  UNION {Scalars, {List(l) : l \in UNION {[1..n -> Scalars] : n \in 0..(MaxList + 1)}},
         {Object(<<k, 1>>, <<v, w>>) : k \in 1..(MaxString + 1), v, w \in Scalars}}
Within(inner) == UNION {{List(<<v>>), Object(<<1>>, <<v>>)} : v \in inner}
NestedValues ==
  LET one == Within(Flat)
  IN  UNION {Flat, one, Within(one)}

\* One beginning is enough of a part that does not run.
HostInit ==
  /\ part \in {"bind", "activation", "log", "guard", "decimals", "frames"}
  /\ Init /\ (part # "bind" => dir["path"] = "none" /\ ~ foreign /\ ~ serialized)
  /\ Activation!Init /\ Log!Init /\ Guard!Init
  /\ part # "activation" =>
       env = [pid |-> FALSE, count |-> 0, names |-> <<"rpc">>, open |-> {}]
  /\ part # "guard" => ~ prompt /\ status = Guard!NoStatus
  /\ TextArrives /\ (part # "decimals" => text = <<>>)
  /\ part = "frames" => FrameArrives
  /\ part # "frames" => frame = EncodeFrame(Scalar(1)) /\ result = NotYet

Runs(name) == part = name /\ UNCHANGED part
RunsBind == Runs("bind") /\ OnlyBind
RunsActivation == Runs("activation") /\ OnlyActivation

HostNext ==
  \/ RunsBind /\ Next
  \/ RunsActivation /\ Activation!Next
  \/ Runs("log") /\ OnlyLog /\ Log!Next
  \/ Runs("guard") /\ OnlyGuard /\ Guard!Next
  \/ Runs("decimals") /\ OnlyWire /\ ReadDecimal
  \/ Runs("frames") /\ OnlyWire /\ DecodeFrame

\* The fairness of each part.
Fairness ==
  /\ \A s \in Starts : WF_hostVars(RunsBind /\ Step(s))
  /\ \A t \in Threads : WF_hostVars(RunsActivation /\ Activation!Step(t))

HostSpec == HostInit /\ [][HostNext]_hostVars /\ Fairness

\* Every take ends, and the first of an announced name is not refused.
TakesEnd == part = "activation" => Activation!TakesEnd
=============================================================================
