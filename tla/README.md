# Verification of bloom-service-runtime

TLA+ models of the service runtime shared by the Bloom services (Machine, Broker,
Signer, sentinel), their TLC instances, and proofs checked by TLAPS. The reference is
the Rust code under `src/crates/`; `PROJECT.json` maps every definition to its lines.

## 1. The system

The runtime is a set of crates linked into several local services that talk over Unix
sockets. Every authority-bearing message carries a signed journal head of its sender;
the receiver retains the newest head of each peer, so that a peer that rolls its journal
back or forks it is noticed.

| Component | State | Operations | Interacts through |
|---|---|---|---|
| Checkpoint store (`bloom-audit-checkpoint`) | a directory of signed heads; per store a pin set and a cache (directory stamp, newest head per service); two mutexes; a flock on the directory | `open`, `open_with_history`, `append`, `append_diagnosed`, `latest` | other stores, in this or another process, over the same directory; called by the RPC edge |
| Authority-edge key history (same crate, 898-985) | none (files) | load and check packaging's keys and handovers | feeds `open_with_history` |
| Endpoint quota (`bloom-triad-local-transport`) | two sliding windows of admission times, a semaphore of mutation slots | `admit`, drop of `EndpointAdmission` | shared by all connections of an endpoint |
| Hello handshake (same crate) | none beyond the connection | `authenticate_client`, `authenticate_server`, `authenticate_server_one_of` | four signed frames per connection |
| RPC call and dispatch (same crate) | the connection; the journals behind `JournalExchange` | `call*`, `receive_request`, `dispatch_connection*`, `send_response*` | handshake, quota, checkpoint store, clock |
| Identity and manifest loading (same crate) | none | file ownership, mode and content checks | start of a service |
| Wire envelopes, versions, codec (`bloom-rpc-wire`) | none | verify, canonical bytes, version windows | used by the RPC edge |
| Trusted time (`bloom-trusted-time`) | previous anchor and its sub-millisecond rest; the caller's persisted floor, anchor and boot epoch | `sample`, `evaluate_durable_clock` | concurrent requests; restarts and reboots through the persisted state |
| Service activation (`bloom-service-activation`) | descriptors not yet taken; a socket path | `take_unix_listener`, `take_tcp_listener`, `bind_owned_unix_listener`, `bind_private_unix_listener` | other processes binding the same path |
| Platform containment (`bloom-platform-containment`) | none | freshness and identity of an attestation | start of a service |
| Observability (`bloom-service-observability`) | per event a buffer, a lock | append one event to a log that may be rotated | external log rotation |

### What is hard, and what correctness means

* **Checkpoint store.** Stores share a directory but decide from private caches, `open` reads
  without a lock, keys are handed over (even at an unchanged journal position) while stores
  opened under the former pins run on, and a publication is a sequence stage, link, unlink,
  fsync, read back that may be cut anywhere. Correct means: the retained history of a peer
  never forks or goes back (`NoFork`, `AppendsAdvance`), a replaced key never returns
  (`KeySuccession`), reported evidence is what is retained and what was accepted can be read
  after a restart (`RetainedSound`, from `EvidenceExact` and `Reopenable`), and what was
  answered `Ok` survives (`AckedDurable`, `AckedNeverRegress`, `AckedUnique`).
* **Quota.** The clock is read outside the locks and may be set, so a window's queue is
  not sorted; a permit is taken between two gates that may refuse. Correct means: the
  rate bound holds in real time, and no permit leaks.
* **Trusted time.** The anchor and the wall clock are read at different moments, the
  process may restart and the machine reboot between two readings, and the boot may be
  unknown. Correct means: saved time never goes back, within a boot it runs ahead of the
  anchor by at most the permitted step, fractions of a millisecond are not lost, and a
  slewed clock is not taken for one set back.
* **Hello.** The two ends are configured apart, may be of different boots, keys and version
  windows, and one pin of several is chosen by the UID the kernel reports. Correct means:
  an end admits only the identity it pins, both support the version of either, a client
  admits only a server that has admitted it (`Agreement`, `AbstractSpec`), compatible ends
  succeed (`CompatibleSucceed`), and nobody waits for ever (`BothEnd`).
* **RPC edge.** Calls of one client run on connections of their own, so their heads reach
  the sinks in any order; deadlines pass while a handler runs; the handler of an abandoned
  attempt goes on; either end dies; the server may come back with an older journal. Correct
  means: a result is covered by retained evidence (`OkCoversEffect`), only what was
  checkpointed takes effect (`EffectFollowsCheckpoint`), a journal that went back is not
  believed (`OkNeverBehind`), every call ends (`CallsEnd`), and retries get through
  (`Reconciles`).
* **Activation and endpoints.** Starts probe, unlink and rename one path with other starts
  and crashes between any two system calls; threads race to adopt the descriptors of the
  service manager. Correct means: the path names finished sockets only
  (`DirectoryInOrder`), serialized starts are reachable (`ServingReachable`) and recover
  (`Recovers`); a descriptor has one owner (`SoleOwner`), stands under its name in a
  complete set (`AllAsAnnounced`), and every take ends (`TakesEnd`).
* **Log and containment.** The log is renamed and created again under its writers, writes are
  short or fail, also midway (`LogFaithful`, `JsonLines`); the containment file is replaced
  between the looks of a check at it, and the clock set back (`ChecksAreRight`).
* **Wire.** Signatures cover a canonical form that the receiver computes again, so a number
  or a frame must have one encoding, also at its limits (`OneEncoding`).

`PROJECT.json` lists each hazard at its line, with the properties that cover it.

## 2. Modules

| Module | Models |
|---|---|
| `CheckpointChain` | the pure rules: well-formed pin sets, live and retained verification, handovers, whether a head advances its tail, the order of a listing (`Orders`: every order the sort may leave), chain checks, the tail a scan yields |
| `CheckpointStore` | the store: one action per step of `open`, `append_diagnosed` and `latest` that another store, process or failure may separate, and the environment |
| `PeerHeadRegister` | abstract specification: per peer one position that only moves forward, and reports of exactly that position |
| `CheckpointRefinement` | the refinement mapping: the position of a service is the greatest sequence in the directory |
| `EndpointQuota` | the admission quota: clock, request gate, slot, journal gate, unwinding, completion |
| `DurableClock` | trusted time: the sampler, `evaluate_durable_clock`, and the service that saves its decisions |
| `Envelope` | versions, signed envelopes and heads, and their verification, as operators |
| `HelloHandshake` | both ends of one connection, its stream, failures and dropped tasks |
| `MutualAdmission` | abstract specification of the hello: who may admit whom, and when |
| `AuthorityEdge` | callers, endpoint tasks, journals, retained heads, deadlines and slots |
| `EndpointBind` | starts that probe, bind, publish and clean up one endpoint |
| `ActivationSet` | takes of descriptors that systemd handed over |
| `SecureLog` | the append writer beside log rotation |
| `ContainmentGuard` | the check of the containment status beside the process that writes it |
| `WireDecimals`, `WireFrames` | decimal texts and frames, as operators |
| `WireEncoding` | the reading of a text as a number and of a frame as a value |
| `ServiceHost` | composes the four parts above and `WireEncoding`: they share no state, so a step of the host is a step of one of them |
| `MCCheckpoint`, `MCOutage`, `MCQuota`, `MCClock`, `MCHello`, `MCEdge`, `MCBind`, `MCHost`, `MCLog` | the instances for TLC |
| `CheckpointStoreProofs`, `CheckpointRefinementProofs`, `EndpointQuotaProofs`, `DurableClockProofs`, `HelloHandshakeProofs`, `AuthorityEdgeProofs`, `ServiceHostProofs`, `WireEncodingProofs` | the proofs |

Definitions named `X_Something` next to a definition `X` are faulty variants of it (a
dropped check, an off-by-one); they show that a property notices such a bug.

### CheckpointStore and the code

* A head is `[svc, seq, hash, key, sig]`; `sig` tells whether the signature verifies.
  Record bytes are either intact or `damaged`; the name of a record is its service,
  sequence and key (`SameName`, `checkpoint_filename`).
* `dir` is the directory, `durable` the part of it some fsync covered, `stamp` the pair
  of times (with the identity of the root) that `RootStamp` compares. Only a link changes
  it: temporary files live beside the root, and damage in place changes neither times
  nor names of the root.
* `cfg[p]` is the packaging generation store `p` was opened under; `Rotate` installs the
  next, which packaging does and no code of the repository (the loading and checking of what
  it installed is not modelled). `cache[p]` is `CheckpointState`. `pc[p]` runs
  `closed -> opening -> idle -> decide -> publish -> sync -> finalize` (or `settle`).
* The operation mutex, held to the end of a call, is what makes a store one process with
  one `pc`; the flock is `Locked`, derived from the program counters, so that it vanishes
  with its holder. `latest` takes the shared flock and, since nobody writes meanwhile, is
  one step, as is a rescan inside `append_diagnosed`. `open` holds no lock: `OpenBegin`
  takes the stamp and the listing starts, `OpenScan` ends it with whatever subset of the
  links made meanwhile `read_dir` showed, and compares stamps.
* `answer` is what the last step returned, `acked` all heads ever answered `Ok`; both are
  history variables, which only properties read.
* `left` bounds the mishaps (`Budget`): process deaths, failing I/O calls, damage, and
  power failures, which keep any superset of `durable`.

Simplifications: replacement of the root inode and failures before anything is staged
change no state and are left out; a leftover temporary name shows as a failing
`Prepare`; the sort is modelled as the insertion sort the standard library uses for at
most 20 records, over every listing order.

### EndpointQuota and the code

A request is a connection's task. `Observe` is `now_ms()`, `RequestGate`, `AcquireSlot`,
`JournalGate` are the three parts of `admit`, each atomic under its own lock; `Unwind` is
the drop of the permit when the journal gate refuses, `Finish` the drop of
`EndpointAdmission` however the dispatch ends. `time` is real time, `lag` and `lead` how
far the wall clock has been set back and forward; `since` and `passed` are history.

### DurableClock and the code

`SampleAnchor` is the part of `sample` under the mutex, `advance_sample_state` included;
`SampleWall` is the wall-clock reading after it, `SampleFails` its error path: the anchor has
advanced, and what the sample would have reported is reported to nobody. `Decide` is
`evaluate_durable_clock` and the caller's saving of the result, which may fail. The caller is
not in the repository: it saves the effective time with the anchor of the reading and the boot
it knows, as the tests do. `serialized` says whether it holds one lock over all of this. Times
are in units of the anchor; `Ms` units make a millisecond. `held`, `origin` and `setBack` are
history. An absent reading (`utc_ms: None`, lines 120-125) is not modelled, because `sample`
never returns one: it answers an error instead.

### HelloHandshake and the code

`state` is the await each of `authenticate_client` and `authenticate_server(_one_of)` is at,
`inbox` the frames on their way to each end, `open` whether the end still holds the stream:
the functions return an error without closing it, their caller drops it (`Drops`).
`cfg` is a choice of configuration per end; `Candidates` are the pins of the kernel's UID,
`chosen` the one the answer was verified against. A random challenge is named for the end
that drew it; a signature is the secret that made it. The map of pairs of states to
`MutualAdmission` is `Abstract`.

### AuthorityEdge and the code

An attempt `c` is one `call` on a connection of its own. `caller[c]` is where
`call_with_journal_head` is, `server[c]` where the endpoint's task for it is: `Receive` is
`receive_request`, `Checkpoint` is `checkpoint_request_head`, `Admit` is the quota, `Handle`
the handler with the drop of its admission, `ReadHead` is `local_journal_head`, `Respond` is
`send_response` with its deadline, `Return` the verification of the response, its deadline
and the checkpoint of its head, in that order. Verification is `Envelope`'s; heads are
retained as `PeerHeadRegister` allows (`Retains`). A head is the journal it was taken of,
so that "covers the effect" can be said of it. `Restore` gives the server an older copy of
its journal. The mishaps are `Crash`, `Aborts`, `GivesUp`, `WindowFull`, `Denies` and the
sinks that fail for reasons of their own, with or without having retained the head:
`CheckpointFails` on the server, which answers the call as rejected, and `ReturnFails` on the
client, which also stands for a caller that dies between its checkpoint and its result.
`refused` holds the calls the server answered without handling them (history).
The handler takes effect once per operation: the callers of the transport retry, so the
services must be idempotent, which is an assumption on them.

### EndpointBind, ActivationSet, SecureLog, ContainmentGuard and the code

`EndpointBind` has one action per system call of `bind_unix_listener_with_modes` and
`remove_owned_stale_socket`; `dir` maps the two kinds of names (the path, and one temporary
name per pid) to the start whose socket they link. `ActivationSet` follows `take_fd`,
`linux::take`, the load under `ACTIVATION` (one step, because `OnceLock` lets the others wait)
and `NamedActivation::take` under its lock. `SecureLog` separates `flush` into lock, open,
validate and write, lets `write_all` be cut in two and fail before or between the two parts,
and repeats the flush, of the whole buffer, on drop as `Drop for SecureEventWriter` does;
`torn` remembers the beginnings that failed writes left (history); `Rename`, `Create` and
`SetMode` are the rotation of the host. `ContainmentGuard` separates the inspection, the
reading of the clock, the reading of the file and the comparison; the process that looks at
the filter and replaces the file is external.

### WireDecimals, WireFrames, WireEncoding and the code

A text is a sequence of digits of a small base and of other bytes; `Read` is what `str::parse`
makes of it, digit by digit, `Text` what `to_string` makes of a number, `IsCanonical` and
`DecimalLeq` are the helpers of `ids.rs`. A JSON value is a scalar, a list or an object, known
by the lengths, depth and width that the limits tell apart; `ShapeOk[depth][value]` is
`validate_json_shape`, `TextLength(Canonical(v))` the number of bytes `encode_frame` counts, and
`Decodes` the checks of `decode_frame` in their order. `WireEncoding` reads: `ReadDecimal` is
the parsing of a text that arrived as `DecimalU64`, which keeps the text of the number it found
(`Text[Value(text)]`), and as `DecimalU256`, which keeps the text it was given; `DecodeFrame` is
`decode_frame`, of the text of any value, canonical or with a space too many, or of no JSON,
under a length that is right or off by one. (`read_frame` of the transport hands it as many
bytes as are declared, never more or fewer, so the last two cases are for its other callers.)

## 3. Runs

| Run | Instance | Shows |
|---|---|---|
| `checkpoint_sharing` | 2 stores, 1 service, 5 heads on both sides of an equal-sequence handover plus a fork, 2 pin generations, 1 crash, 1 I/O failure | every safety property of an undamaged directory, and the refinement of `PeerHeadRegister` |
| `checkpoint_outage` | two views, no process death or error inside a call: 2 stores, 1 service, 2 power failures; and 1 store at a time, 2 pinned peers and a stranger, a forged head, 1 damaged record; a pin set that contradicts itself (51,590 states) | acknowledged heads are durable, and never superseded by older or forked ones; `RetainedSound`: exact evidence and a readable directory across services, power failures and damage |
| `checkpoint_coarse` | 2 stores, a stamp that a link need not change, 1 crash, 1 damage | even then `hard_link` keeps one acknowledged head per key and sequence |
| `checkpoint_torn` (violation) | 1 store, 1 crash and 1 I/O failure | finding 1 below |
| `checkpoint_twice_rotated` (violation) | 1 store, 3 pin generations at one position | finding 2 below |
| `endpoint_quota` | 4 requests (1 read-only), 1 slot, 2 requests per 4 ticks, 1 journal admission per 3 ticks, 4 instants, clock set back and forward by 1, delay up to 1 | permits, bounds and the real-time rate |
| `clock` | 2 calls, serialized or not, 2 boots, 2 units per millisecond, 4 milliseconds of wall clock, the clock set once and slewed freely, initial states none, zero and legacy (2.1 million states) | monotone saved time and an exact sampler always; the forward guard and no invented rollback while calls are serialized |
| `hello` | any of 20 client and 15 server configurations, 1 dropped task (6,101 states) | agreement, the refinement of `MutualAdmission`, both ends end, compatible ends succeed |
| `edge` | 7 deployments of up to 4 attempts, 2 slots, 1 deadline, 1 mishap, 1 restore (68,516 states) | coverage of results, checkpoint before effect and no effect of what was refused, no belief in a journal that went back, termination, retries |
| `host` | 6 parts, one at a time (173,996 states) | endpoints, descriptors, log, containment, numbers and frames |
| `bind_race` (violation) | 2 starts that overlap, no fault | finding 3 below |
| `log_torn` (violation) | 2 events of one process, 1 file, failing and short writes | finding 4 below |

`edge` puts its deployments into one run: `setup` chooses one in `Init` and never changes,
and carries the policy of both ends and the bounds to look at it in. `Contended` has two
writers for one slot, a deadline that passes and a mishap; `Reading` adds a reader;
`Restored` goes back to any older journal at any time; `Retries` tries one operation three
times, `Overtaken` does so beside another; `Mixed` has callers without heads and of the
protocol minor that has none; `Plain` is the edge without heads.

`checkpoint_outage` explores the states of either view (`InView`, a constraint): power failures
with two stores over one peer, and all peers with the stores opened one at a time.

`host` does what `edge` does for components that share no state: `part` names the one that
runs, and the variables of the others stay as they start. `MCHost` extends `ServiceHost`, which
composes all five components (the wire runs as two parts, numbers and frames). The parts are
three starts of which two have one pid, and two faults; four threads under every combination of
pid, count, list of names and open descriptors; three writers in two processes, one rotation
and two short or failing writes; one check, a clock set back by one and a maximum age of two;
every text of at most five bytes in base three, one more than the longest number has; frames
of values at and just beyond each limit: strings and keys of one byte and of two, lists of up
to three values, and values nested one level deeper than allowed.

Why these bounds are enough: two stores are the smallest number whose caches can
disagree, and the flock admits one writer at a time; the heads contain each relation a
pair can have (older, newer, equal, fork, handover, former key after its successor); a
third generation is needed only for a second handover, which has its own run. One mishap
of a kind cuts one call; two power failures allow a loss, a recovery and a loss. Four
requests are more than each limit plus one and let a read-only request interleave. Two
boots let an anchor be compared across one reboot, two units per millisecond give a rest to
carry, and four milliseconds exceed the permitted step of one on either side of a saved
time and reach the end of the range, where the arithmetic overflows. The configurations of
the hello contain each way in which two ends may not suit (boot, key, UID, shared UID,
version below, above, empty window), one at a time and against each other's windows. Two
writers are the smallest number whose heads overtake each other, and three attempts one
more than a mishap and a deadline can spoil. Three starts let a pid come back.

Deadlock is checked where some part can always move: the checkpoint and clock runs (some
store or process can always restart). Every other instance ends, because its calls,
takes, requests or frames are all done, so its configuration does not check deadlock;
that nothing waits for ever is there a liveness property.

Fairness, all of it weak and per task:

* `hello`: `WF(Step(e))` per end. The runtime polls a task whose read or write is ready.
  Dropping a task is not fair, dropping the stream of a failed end is part of its step,
  because its caller returns.
* `edge`: `WF(Step(c))` per attempt, the caller's and the endpoint's task together: of one
  attempt never both can go on alone. Mishaps, the clock, a crash and a restore are not fair.
* `host`: `WF(Step(s))` per start and `WF(Step(t))` per take: a process that was started
  runs. Faults, deaths and the drop of a listener are not fair, and of the writers and the
  check nothing is asked to happen.

The other runs state safety properties only, without fairness.

`WindowBound` is stated for the window shortened by `MaxDelay` (how long a task may sit
between reading the clock and the last gate) and by `MaxLead` (how far the clock is set
forward): without either reduction TLC finds a violation. A clock set back by less than a
window makes the gates stricter; set back by a whole window it lets a request that passed
after the setting be pruned by one that read the clock before it, and TLC finds the bound
violated (limit 1, `MaxLag` equal to `Window`). `Reconciles` counts what can spoil an attempt
(a mishap, a passing deadline, and twice each other call, whose head may overtake on the way
there and back) and claims success only for more attempts than that.

## 4. Findings

1. *An acknowledged head may not be durable* (`checkpoint_torn`, `AckedDurable`). A
   publisher that dies, or whose fsync fails, between `hard_link` and the directory fsync
   leaves a visible record. The next `append` of that head answers `AlreadyPresent` from
   the cached tail with no fsync, whereas the path through `AlreadyExists` syncs first for
   exactly this reason (its comment says so). A power failure then takes the head back.
2. *A directory the store wrote can become unreadable* (`checkpoint_twice_rotated`,
   `Reopenable`). Records at one sequence are ordered by a direct handover, else by name.
   After two handovers at one position (2 to 3 to 1) the comparison is not transitive, and
   for some listing orders the chain check refuses the directory.
3. *A start can take the path away from a live listener* (`bind_race`,
   `LiveNeverReplaced`). `remove_owned_stale_socket` proves the path absent or stale, but
   the unlink and the rename that follow act on whatever the path names by then. Two starts
   that both probe before either publishes both succeed, and the second replaces the first,
   which goes on serving a socket nobody can reach. Serialized starts never do this
   (`ServingReachable`), which is what a service manager gives.
4. *A line of the log may hold a torn event and another one* (`log_torn`, `JsonLines`). When
   `write_all` fails after a part of an event, the part stays in the file without a newline,
   and what is written next, by the flush on drop (of the whole buffer again) or by the next
   event, goes on in the same line. The sink is documented as "JSON Lines". What does hold is
   `LogFaithful`: each event is whole in the log exactly once if its writer succeeded, what
   else is there are beginnings, at most one per failed flush, and a line that is not one
   event follows such a beginning or was shared with another process.

Recorded without a run: with stamps too coarse to tell two links apart, a stale cache
passes for fresh and an older head can be linked. The code states the assumption (comment
in `latest`), so the proofs take `CoarseStamps = FALSE`, and `checkpoint_coarse` shows
what is left without it.

A mutation keeps its slot until its handler ends, also when its caller has given up, so
that retries of one operation can be refused for want of the slots its own abandoned
attempts hold: `Reconciles` needs more slots than mishaps. `encode_frame` checks the
length of a frame only, so a sender can make one that every receiver refuses for its depth
or width; `OneEncoding` takes this into account. A start that dies between bind and
rename leaves its temporary name, which refuses a later start of the same pid
(`Recovers` excludes it).

`ForwardBounded` and `NoSpuriousRollback` hold for a caller that serializes its calls,
and only then. If readings are decided out of order, a reading older than the saved one
falls back to the milliseconds its own sample reported, which the saved state has
already counted, so the guard admits that much more; and its wall clock may lie below
the saved floor, which reports a rollback although the clock was never set back. The
crate leaves the lock to the service, so this is a requirement on callers. The `+ 1` in
`ForwardBounded` is the sampler's carried rest; TLC refutes the bound without it.

## 5. Proofs

Each proof module states its invariant in named parts, one lemma per action or group of
actions, and the theorems last.

### `CheckpointStoreProofs`

| Theorem | Property | Hypotheses beside the assumptions on the constants |
|---|---|---|
| `TypeCorrect` | `TypeOK` | none |
| `NeverForks` | `NoFork` | exact stamps |
| `AppendsOnlyAdvance` | `AppendsAdvance` | exact stamps |
| `AnswersAreDurable` | `AckedDurable` | no call is cut (`Budget` of crashes and I/O failures 0), any power failures |
| `AnswersAreUnique` | `AckedUnique` | `OneKindOfMishap`; stamps may be coarse |
| `AnswersNeverRegress` | `AckedNeverRegress` | exact stamps, `OneKindOfMishap` |
| `RetainedStaysSound` | `RetainedSound` | exact stamps, `PackagedApart` |
| `ReplacedKeysStop` | `KeySuccession` | exact stamps, `PackagedApart`, `RotatesOneWay` |

What the hypotheses say, and why they are there:

* *Exact stamps* is `CoarseStamps = FALSE`: a link changes the directory's times, which the
  code relies on (comment in `latest`).
* *`OneKindOfMishap`*: the power never fails, or no call is cut. Finding 1 is what happens
  with both: a head answered `Ok` is lost, and may then be answered differently.
* *`PackagedApart`*: no two handovers of one pin set meet at one journal position. Finding 2
  is what happens otherwise.
* *`RotatesOneWay`*: while a key is current, the key that some generation lets follow it is
  not pinned yet; a rotation that goes back and forth has no former key.

The instances of `checkpoint_sharing`, `checkpoint_outage` and `checkpoint_coarse` satisfy
what the theorems about their properties ask for.

`NoFork` is not inductive: a store links what its cache admits, so the invariant must
say what caches know. `IInv` adds `Exclusive` (at most one store is inside an append) and
`StoreInv(p)`: a cache whose stamp is the current one holds, for each service, a head of
the directory that every record of the service precedes; a store past its decision holds
a head that advances that tail, and its stamp is still the current one because nobody
else can link; the snapshot of an opening store is the whole directory if its stamp is.
`AppendsAdvance` follows at `Link`, the only action that adds a record.

For what is answered there is an invariant for each kind of mishap. With no call cut, what is
in the directory and not durable is the link of a store that is about to sync it
(`CarefulInv`), so an idempotent answer, which syncs nothing, is about a durable head. While
the power stays on, what was answered is in the directory, which only grows (`PoweredInv`).
`AckedUnique` then needs only that names are unique (`NamesUnique`: `hard_link` replaces
nothing), whatever the stamps.

For `RetainedSound` the invariant must say that the directory passes the chain check, under
the pins of the store that will report from it (`ChainInv`): a current cache names the end
of each service's chain (`CacheChained`), a store that publishes holds a head its live pins
admit (`PublishLive`), and between link and rescan the directory is the chain with that head
at its end (`LinkChained`). Its core is `Orders`: with handovers apart every order the sort
may leave of a chain passes the check and ends in the same tail, which is what makes a
restart accept what an append accepted (`Reopenable`). The proof also shows that, with exact
stamps, the branch that settles an `AlreadyExists` is never taken (`NeverSettles`).

### `CheckpointRefinementProofs`

`StoreImplementsRegister`, for `CoarseStamps = FALSE` and
no power failure (`Budget["power"] = 0`; a loss of unsynced links moves the position back,
which the register has no step for). It uses `IInv`: the initial state maps to the
initial state; `Link` maps to `Retain`, or to a stutter of the position at an
equal-sequence handover; an answer with evidence maps to `Report` because the evidence
has the position of the newest record. `PositionsAssumption` says that a position is not
the value for none.

### `EndpointQuotaProofs`

`QuotaTypeCorrect`, `PermitsNeverLeak`, `GatesStayBounded` (`TypeOK`, `SlotsConserved`,
`GatesBounded`), from `QuotaAssumption`. `free <= Slots` and the conservation of permits
need each other and a strengthening, `ReadersUnpermitted`: a read-only request is never where
a permit is held, else its completion would keep the permit.

`WindowStaysBounded` (`WindowBound`) takes `SetBackWithinWindow` besides: the clock is set
back by less than a window of either gate. The bound counts requests in real time, whereas a
gate remembers clock readings, pops them only from the front and pushes them out of order. The
invariant relates the two: two readings differ from the real time between them by what the
clock was set, and passing follows reading within the delay (`ClockInv`); and whatever passed
within a shortened window still has a place of its own in the queue (`Remembered`, an
injection of those requests into the places). As the queue has at most `Limit` places, there
are no more such requests.

### `DurableClockProofs`

`ClockTypeCorrect`, `SamplerStaysExact` and
`SavedTimeNeverDecreases`, from `ClockAssumption`, whether or not calls are serialized.
The invariant adds that the sampler's anchor lies between its first one and the clock,
which makes every reported interval a natural number; `DivCarry` is the arithmetic of
carrying a rest. `DecisionForward` shows of each outcome that it is a time in range and
not before the saved one.

`RollbacksAreReal` (`NoSpuriousRollback`) and `ForwardStaysBounded` (`ForwardBounded`) are
about serialized calls, of which `Readings` says what a reading in progress is worth: one
call at a time holds one (`OneAtATime`), the saved anchor and epoch are those the history
holds (`HeldMatches`), the reading is not behind a saved anchor of its boot and reports at
most what the anchor counted since and the carried rest (`AnchorsAhead`), and, unless the
clock was set back, no saved time is ahead of the wall clock (`WallAhead`).

### `HelloHandshakeProofs`

From `HelloAssumption` alone, for any configurations and number of dropped tasks.

* `HelloTypeCorrect`, `HelloAgrees` and `HelloImplements` (`TypeOK`, `Agreement`,
  `AbstractSpec`). `Agreement` speaks of ends that have admitted each other, but what makes
  them right was checked earlier and perhaps by an end that is gone; so the invariant says
  which frames can be on their way at each pair of states (`Shape`) and what each state proves
  was checked (`Knows`): the answer carries what the client found out.
* `HelloNeverDeadlocks` and `HelloRunsOut` are the safety half of `BothEnd`, which is what TLC
  checks: neither end has a timeout, but the two never wait for each other, nor for an end
  that is done (`NobodyStarves`, from `Shape`), and each step, failures and drops included,
  uses up one of at most ten (`Left`).

### `AuthorityEdgeProofs`

All from `EdgeAssumption`, for any calls, deployments and number of failures and restores.

* `EffectsAreCheckpointed` (`EffectFollowsCheckpoint`): all heads of the client look back on one
  journal, so what the server retains and what it is asked to retain are prefixes of it, and
  a newer head extends every retained one (`CheckpointInv`); `Requested` says that a request
  is written once, before the server knows of its call. Steps that only move a call away from
  where it could be let in are one lemma (`MovesInv`). `Refusals` says that a refused call has
  no effect and is past the states from which it could have one (`Early`).
* `EdgeTypeCorrect` (`TypeOK`), `SuccessIsCovered` (`OkCoversEffect`) and `SuccessNeverGoesBack`
  (`OkNeverBehind`) have a second invariant, `AnswersInv`, about the other direction: a slot is
  taken exactly where the handler of a mutation runs; a response that says of a mutation that it
  succeeded carries a head taken of a journal that has the effect, although the journal may have
  been replaced since (`Answered`); and a result returned as a success has its head, or a longer
  one, retained (`Believed`).
* `HonestHeadsNeverFork` (`NoFalseFork`): heads of concurrent calls overtake each other, and a
  sink refuses those that come late as older; that it never takes one for a fork, which would
  accuse an honest peer, needs that a head of the retained length is the retained head. On the
  server that follows from `CheckpointInv`. On the client it holds while the server is not
  restored (`MaxRestores = 0`; after a restore a fork is one), from `Genuine`: then every head
  under way looks back on the journal as it is.
* `CallsRunOut` is the safety half of `CallsEnd`: each call has at most ten steps left,
  each step of its caller or task and each mishap uses one, and no other step gives one back.
  `CallersAreServed` adds that a caller that waits has a task that answers it or has ended.

### `ServiceHostProofs`

From `ServiceAssumption` and `EncodingAssumption`, for every number of starts, threads, writers,
files and checks; `ServiceTypeCorrect` (`ServiceTypeOK`) is the type invariant of the five parts.

* Endpoints: `DirectoryStaysInOrder` and `ServingStaysReachable` (`DirectoryInOrder`,
  `ServingReachable`). `InOrder` adds that starts of one pid are never alive together, which is
  what makes a temporary name the own of its start; `Alone` that of serialized starts one works
  at a time and finds nobody serving.
* Activation: `OneOwner` (`SoleOwner`) and `TakesWhatWasAnnounced` (`AllAsAnnounced`).
  `TakesInv` adds that nothing is adopted before the load and that a table entry or a take is
  evidence of a sound environment; as many descriptors adopted as announced are all of them
  (`AllAdopted`, by cardinality). `AnnouncedIsFound` (`AnnouncedFound`) is the safety half of
  `TakesEnd`: under a sound environment an announced name is refused only after a take of that
  name had its descriptor, because each descriptor waits in the table until then (`KeptForOne`).
* Log: `LogStaysFaithful` (`LogFaithful`). `LogInv` says that a writer between locking and
  unlocking is the only one of its process (`Locked`), that the last thing its process wrote
  before an end, or before where a half-written event goes on, is the beginning of that event
  (`Whole`), that of each fragment that is not torn there is exactly one copy once the event
  has it (`Once`), that only beginnings are torn and no more of an event than flushes of it
  failed (`TornBeginnings`, `LeftByFailures`), and that a writer whose file was renamed under
  it can be the only late one of its process (`LateOnes`).
* Containment: `GuardChecksRightly` (`ChecksAreRight`). `GuardInv` says what the status file is
  evidence of (`Evidence`), how clock and real time differ (`Timed`), and what a prompt host
  has refreshed by then (`Prompt`).
* Wire: `ReadFromOneEncoding` (`OneEncoding`), from the lemmas of `WireEncodingProofs`.

### `WireEncodingProofs`

For every base, greatest numbers, limits and set of values that holds the parts of its members.
What is read here is computed by recursion over digits, depth and nesting, so the proofs need
induction, and first that the recursive functions exist: a definition `f[n \in Nat] == ...` is
the solution of its equation only if there is one.

* `LeastElement`, `StrongInduction` and `Induction` state induction of sets of numbers (a set
  that contains 0 and successors contains all of `Nat`), so that it needs no theorem with an
  operator parameter; they rest on `NatLessThanWellFounded` and `WFMin` of the library.
  `Recursion` proves that a function exists whose value at `n` is computed from that at one
  lesser number; `TextDef`, `ReadDef`, `LevelDef` and `ShapeOkDef` obtain with it the equations of
  the model's functions.
* Numbers: texts of numbers are canonical (`CanonicalText`); canonical texts are ordered as the
  numbers are, by length and then by bytes, which is `decimal_leq` (`DecimalOrder`); the number
  read from a number's text is that number (`TextRead`), and the text of the number read from a
  canonical text is that text (`TextOfValue`). Hence exactly the texts of the numbers
  of the width are kept, byte for byte (`FitsExactly`).
* Frames: `validate_json_shape`, which descends with a depth, accepts exactly the values with
  nothing below the greatest depth and nothing too long above it (`ShapeIsLimits`); hence what
  is decoded are the frames that `encode_frame` makes of values within the limits
  (`DecodesOneFrame`).

### Assumptions

Each theorem rests on the named assumption of its component, which says of the constants what
the code says of them, and TLC evaluates it on the runs. `ServiceAssumption` gathers those of the
parts of a host that are instantiated or extended (`BindAssumption` among them), because TLC
does not evaluate the assumptions of a module that is only instantiated; `EncodingAssumption`
gathers `DecimalsAssumption`, `FramesAssumption` and that the markers for "not read" and
"refused" are no values.

### Only model-checked

The liveness properties `BothEnd`, `CompatibleSucceed`, `CallsEnd`, `Reconciles`, `Recovers` and
`TakesEnd`: liveness under fairness and `ENABLED` are out of the prover's reach. Of `BothEnd`,
`CallsEnd` and `TakesEnd` the part that is safety is proved, as said above; what TLC adds is that
fair tasks take the steps that are left. Every other property of a passing run is stated by a
theorem.

## 6. Not modelled, and what is left

* Identity and manifest loading, and the file checks of the authority-edge key history: a
  sequence of checks of files at start that keeps no state. What they yield is modelled
  (pin sets and their rotations in `CheckpointStore`, configurations in `HelloHandshake`).
* Tokens and hexadecimal identifiers of the wire: a check of characters each. Of the codec,
  the layout of bytes beyond what the limits see.
* The launchd call of service activation (one external call per name), the subscriber,
  spans and test capture of observability (formatting).
* Cryptography: a signature verifies or it does not, and digests do not collide.
* Build files and the integration tests of the host.

Two hazards have no property: a listing that `open` reads while a handover is linked is
verified before the stamps are compared, so that `open` may refuse a sound directory
(it fails closed, and the service is started again); and a leftover temporary file of the
checkpoint store makes a later `Prepare` fail, which is among the I/O failures.

Worth adding: a composition of `AuthorityEdge` with `CheckpointStore` itself. The edge assumes
of a sink (`Retains`) the guard of the register that the store is proved to implement
(`StoreImplementsRegister`), but the two are never run together: what a restart of a service
loses with the power is in the store's runs and not in those of the edge.
