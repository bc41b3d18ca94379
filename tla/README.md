# HoloDesk in TLA+

HoloDesk streams a Windows desktop to a headset. A Rust host captures the
desktop, encodes it to H.264 and sends it in QUIC datagrams; a Swift client
shows it and sends pointer and keyboard input back. A control stream carries
the handshake, authentication, session resume, input events and goodbye.

This directory has TLA+ modules of the parts of that program whose correctness
depends on order, concurrency, failure and time, the TLC configurations that
check them on small instances, and TLAPS proofs of the properties that matter
most for every value of the constants. `PROJECT.json` relates each definition to
the lines it models and lists runs, mutants, findings, hazards and theorems.

## Inventory

Paths are relative to the root of the repository.

| Part | State | Operations | Interacts with |
| --- | --- | --- | --- |
| Session registry, `host/session` | map of session records behind an `RwLock` | create, hold, resume, terminate, prune | called by every connection task; asks the token service |
| Resume tokens, `host/auth/resume_token.rs` | secret, ttl | issue, validate | registry, peers |
| Authorized users, `host/auth/user_store.rs` | list behind an `RwLock`, JSON file | load, check_or_bootstrap, register, persist | called by every connection task |
| Identity validation, `validator.rs`, `jwks.rs` | cached key set | validate, refresh | connection task, Apple's JWKS endpoint |
| Listener and connection task, `host/transport/server.rs` | protocol state, session id, input session, video stream | accept, handshake, auth, resume, read loop, cleanup | everything on the host |
| Control protocol, `connection.rs`, `protocol.rs` | handshake flags, goodbye flags, receive buffer | on_receive, record results, goodbye | connection task, client |
| Video worker, `server.rs` | stop flag, stall watchdog, packetizer | capture, encode, send, stop, join | capture, encoder, QUIC datagrams |
| Video datagrams, `media.rs`, `H264VideoDatagram.swift` | next id; table of incomplete units | packetize, push, prune, evict | video worker, decoder |
| Input replay, `host/input` | focus, pressed buttons and keys, last sequence, display bounds | motion, button, wheel, key, focus, release_all | control stream task, datagram task, video worker, Windows |
| Capture and encoder, `host/capture`, `host/encode` | DXGI duplication, Media Foundation transform | acquire, recover, encode, drain, abort | video worker, Windows |
| Client session, `SessionClient.swift` | state, binding, transport and its generation | connect, resume, disconnect, monitors | QUIC bridge, application |
| Client QUIC bridge, `HBQuicConnectionBridge.m`, `NetworkFrameworkQuicClient.swift` | pending waits, queues | open, send, receive, close | Network.framework |
| Client video path, `VideoStreamPipeline.swift`, `H264VideoDecoder.swift`, `VideoRenderer.swift` | reassembler, decoder that needs a key frame | consume, decode, reset | client session |

What is hard here: connection tasks race on the registry and on the user list;
the clock is read before a lock is waited for; a connection can end in many
ways and not all of them clean up; results are lost after the state they report
has changed; datagrams are lost and reordered against each other and against
the control stream; the desktop may refuse a call half way through a release;
the file of users is overwritten in place; the video worker blocks inside
drivers while it is asked to stop; the client is a reentrant actor. `hazards` in
`PROJECT.json` has each of them at its line.

## Modules

### Sessions: `SessionManager`, `HostSessions`, `SessionLifecycle`

`SessionManager` has the registry's state and, per critical section of its
methods, an operator that yields the map the section leaves behind. Tokens are
records `[session_id, expires_at, nonce, secret]`; `Validate` accepts what was
signed with the secret in use and has not expired, which is all the HMAC is for.
`HostSessions` runs the methods from concurrent connection tasks. A method is
several steps: `prune_expired` reads the clock (`StartPrune`), later takes the
lock and prunes with the clock it read (`PruneExpired`), and the method takes the
lock again for its own section. Between any two steps other tasks run and the
clock moves. A result may be lost (`SendResult`), issuing may fail, an error may
end the task without cleanup (`FailWithoutCleanup`), the process may restart and
with it lose the map and, unless one is configured, the secret.

`SessionLifecycle` is the abstract specification: a session begins, is held,
resumed with a token that is then spent, and ends, with at most one connection
at a time. `ImplementsLifecycle` is the refinement, with a session that was
signed and is lost with the map seen as ended.

### Input: `InputSession`

One session's replay state and what the desktop makes of it (`os_buttons`,
`os_keys`, `cursor`). Handlers run under a mutex and are one step each. A
backend call may fail; a handler that fails before its first effect is no step.
`release_all` sends up-events in the order of the `BTreeSet`s and stops at the
first refusal (`StoppedByFailure`). `Close` is the end of the control stream
with its `release_all`, `Drop` the exit through `?`, which has none. Motion and
bounds may still change afterwards: their tasks are stopped later.

### Access: `UserStore`, `HostAccess`

`UserStore` has `check_or_bootstrap` as the sequence of its locks: `IsAuthorized`
(read lock), `Bootstrap` (read lock), `RegisterUser` (write lock, kept),
`PersistOpen` (the file is emptied), `PersistWrite` (the text arrives and the lock
is given back). A crash can come between any two. A torn file keeps the host from
starting, as in the code.

`HostAccess` puts the way to it in front: the listener, which accepts, waits for
the handshake inside its loop, joins finished tasks and closes the endpoint when
none is left; and in each connection's task the key cache (`LookupCached`, `Fetch`,
`Store`, the second `LookupCached`) and `Decode`, which is good or bad by choice and
hands the user to the store. The provider rotates its keys (`Rotate`) and cached
keys expire (`Expire`) at any moment; answers are stored however old they are. A
fetch or a handshake may hang. `excused` is a history variable: it records what
could rightly make a key unknown.

### Video datagrams: `MediaDatagrams`

The packetizer, a network that loses and reorders (QUIC never duplicates a
datagram), and the reassembler with its timeout and its limited table. A payload
is the byte range it holds. A unit's presentation time stands for its metadata.
A push prunes, then evicts from a full table, then looks its unit up, in that
order, as the code does: the eviction may hit the unit itself.

### Video: `H264Bitstream`, `H264Encoder`, `VideoEncoder`, `DesktopCapture`, `VideoWorker`

`H264Bitstream` has the functions of `host/encode/src/lib.rs` that turn AVCC records,
length-prefixed and Annex B payloads into Annex B, on sequences of bytes, and the
reference they are compared with: NAL units as H.264 has them (`IsUnit`: no start code
inside, no zero at the end), the formats they come in (`AnnexB`, `LengthPrefixed`,
`AvccRecord`) and what a decoder finds between start codes (`UnitsOf`).

`H264Encoder` is one `encode` after the other against a Media Foundation transform.
The transform (external) holds at most `Capacity` frames, finishes them on its own
and, when asynchronous, announces each output; the encoder reads announcements
into one flag (`Pump`), so several count as one. `call` is the place inside `encode`:
conversion, `ProcessInput`, the wait of two seconds, the drain, `ProcessOutput`.
The transform may refuse input, answer nothing, change its format, fail, or be
aborted from another thread between any two steps. `IsHeader` and `IsSample` say what
bytes it may hand out: parameter sets and units in one of the formats, of any number and
length that the length fields can say. The code guesses the format of a header from its
first bytes, and the size of length fields from the longest that fits; a header behind
lengths is one that neither guess mistakes. `UnitIsSample` excepts samples that
`looks_like_annex_b` mistakes in the same way (`Ambiguous`).

`VideoEncoder` is the abstract encoder: a call takes a frame of the encoder's size
with a texture, is busy, and ends. `H264Encoder` implements it
(`ImplementsVideoEncoder`), and `VideoWorker` is built on it.

`DesktopCapture` is the duplication of one display: `open` with its retries,
`acquire_frame` with the release of the frame before, and the recovery, which makes
a new duplication and reads the bounds again in two calls. Windows changes the
display or takes the duplication away between any two steps.

`VideoWorker` runs the worker thread on top of both, next to the watchdog, the
monitor task, the threads that abort an encoder and the end of the connection
task. `at` is the place of the worker, `Blocked` the places where it is inside a
call that may never return. The mutex of the abort handle is seen held only where
the code keeps it across such a call (`SlotLocked`). Time is left out: any stage may
turn out to be longer than the watchdog's limit.

### Control stream: `ControlConnection`, `ControlStream`

`ControlConnection` has the two state machines of `connection.rs` as operators on
the set of boolean fields that are true. `ControlStream` runs one connection from
its acceptance to its close. `hpc` is the place of the host's task: the first
read and the loop over its messages, the second read with the handshake, the
goodbye of a host that closes by itself, the main loop, and the way out (`Settle`
holds or terminates the session, `CleanUp` releases input and joins the worker,
`Finish`, `HostCloses`). A message of a batch is one step, so an error in the
middle of a batch leaves the effects of the messages before it. `Fail` is the
exit through `?`, which skips the way out. `Admit` and `Answer` are two steps: the
session exists before the client is told.

The stream delivers in order, a read takes any number of the frames that are
there (`Read`), and `Truncate` cuts what is under way when the connection is lost
or closed. At the other end is one of three: the smoke client of the same crate
(a whole batch per read, checked by its own state machine), the headset (one
message per receive; the user may leave or drop the connection at any moment),
or a peer that sends any messages in any order.

The session is a single variable here, since one task serves one session;
`HostSessions` has what concurrent tasks do to the registry. Credentials are good
or bad by choice. The worker appears as `video` and the shapes it sends.

### Client: `SessionClient`

The actor of `SessionClient.swift`. `task` has one entry for each call of the app and one
for each monitor: the await it is at, the transport it is about, what is left of the
close it waits for and the token it resumes with. Every step runs from one await to the
next, as the actor does, and any other task may run in between. `Invalidate` is
`invalidateCurrentTransport`: it takes whatever transport there is, also when a task that
was overtaken calls it from its catch. Only `generation` tells such a task apart, and
`applyConnectedSession` (`Apply`) does not look at it. `overtaken` is a history variable
that records that a task went on across an await although another had begun meanwhile;
where the code promises nothing then, the properties say so.

`wire` has one link for each transport. A fresh one has no bridge yet, so that a close
does nothing; `Start` opens it, `Opens` succeeds or fails, `Lose` cuts what is under way,
`Close` sends the goodbye first, which is queued while the connection is opening and for
ever if it never opens; `Deinit` closes what nobody refers to. A cancelled receive gets
no message that has not arrived yet. At the other end is the host as `SessionLifecycle`
promises it, the abstract specification that `HostSessions` implements: so what is shown
of a resume end to end rests on the registry's own refinement. Sessions and tokens are
numbered like the transport they began on. The host may say goodbye, notice a loss
late, and end through `?` when it cannot send a result.

## Runs

| Run | Checks | Shows |
| --- | --- | --- |
| `sessions` | `SingleUse`, `OneTaskPerSession`, `TerminatedIsFinal`, `ExpiredHoldIsLost`, `ImplementsLifecycle` | two tasks, two sessions, three nonces, one restart, a clock that moves both ways |
| `sessions_held_token` | `HeldSessionHasToken`, violated | a session connected for longer than the ttl is held with no usable token |
| `sessions_leaked` | `ActiveSessionIsServed`, violated | an exit through `?` leaves a session Active with nobody serving it |
| `input` | `NothingPressedWithoutFocus`, `MotionIsNewest`, `NothingStuckUnlessRefused`, `PointerLandsOnDisplay` | failing backend, changing and empty displays, an unsupported key |
| `input_unsupported_key` | `NothingStuck`, violated | an unsupported key keeps the keys behind it down |
| `users` | `StoreStaysClosed`, `GrantIsDurable`, `UnknownKeyIsExcused`, `EveryCheckEnds` | two connections for each of two starts, two users, keys that rotate and expire, crashes, disk errors, bootstrap mode on and off |
| `users_first_race` | `OnlyFirstUserRegistered`, violated | two first users are both registered |
| `media` | `AssembledIsSent`, `SentUnitsAreTiled`, `DeliveredOnce`, `DroppedIsLost` | four units of one or two fragments, a table of two, ids that saturate |
| `control` | `HostSpeaksInOrder`, `ServedWasAdmitted`, `FateFollowsGoodbye`, `ReturnsClean`, `ConformingNeverRefused`, `HandshakeEnds` | every configuration of host and client, every split into reads, loss at any point, and a peer that sends anything |
| `encoder` | `OutputOnlyWhenAnnounced`, `WaitsForSomething`, `UnitIsSample`, `EncodeEnds`, `ImplementsVideoEncoder` | transforms of both kinds, every format of headers and samples, aborts and format changes at any point |
| `video` | `OneFrameOut`, `NoSilentEnd`, `BoundsFollowCapture`, `EncoderFitsFrame`, `OldEncoderFlushed`, `WedgedStreamIsClosed`, `TeardownEnds` | a display that changes twice, hanging calls, an end of the connection at any point, synthetic streams |
| `client` | `ConsistentAtRest`, `ConnectedMatchesHost`, `Settles` | a connect with a disconnect, a drop and two losses, or with another connect that cancels it, at any point of each other and of the automatic resume |

Type invariants are theorems instead of invariants of the runs; those of `HostAccess` and
`SessionClient` are stated in their proof modules (`AccessTypeOK`, `ClientTypeOK`,
`HostTypeOK`). The violations are the
disagreements between code and documents listed under `findings`.

Where a property names an exception, the exception is something the code does and a
reader should know of:

- `WedgedStreamIsClosed` and `TeardownEnds` except `SlotLocked`. The temporary of
  `if let Some(handle) = abort_slot.lock().unwrap().clone()` keeps the mutex locked while
  the old encoder is aborted. If that call hangs, the watchdog stops the worker and
  then waits for the mutex in front of its `connection.close`, and
  `ActiveVideoStream::stop` waits there too: the stream stops silently.
- `ConsistentAtRest` and `ConnectedMatchesHost` except a client that was `overtaken`. A
  handshake whose result has arrived when a disconnect gives its transport up still ends
  in `applyConnectedSession`. The client is then connected with a monitor of an older
  generation, and `handleTransportTermination` ignores the loss of that connection.
- `HandshakeEnds` excepts a validation that never ends (`Validating`). On a miss of the
  key cache it awaits `reqwest::get`, which has no timeout; keep-alive holds the
  connection up and neither client has a timeout on its result, so the client waits as
  long as the fetch hangs. Nothing of this kind is behind a resume token.
- Nothing says that the listener keeps accepting (`docs/Status.md`). `serve_internal`
  awaits each QUIC handshake inside its loop: while one hangs nobody else is accepted,
  and one that fails ends the listener and every connection (`HostStops`). `HostAccess`
  has both. That it accepts when neither happens is only that its task is polled.
- Nothing says that a resume within the ttl succeeds. A client that notices the loss
  before the host does is refused, because the session is still Active, and so is one
  whose `resume_result` was lost; the refusal makes it forget its token.

### Bounds

- Sessions: two tasks are enough for every race on one record; two session ids
  let a task work on another session while the first is held; three nonces give
  a session that is created and resumed twice, or two sessions one of which is
  resumed. With `Ttl = 1` and a clock that moves between 0 and 1, tokens and hold
  windows expire, and stepping back makes either outlive the other; the held
  token run has `Ttl = 2` and a clock that only moves forward. Tasks, ids and
  nonces are symmetric.
- Input: sequence numbers up to 3 let one datagram be overtaken twice; the
  displays include one of width 0 and coordinates lie on both sides of it.
- Access: two connections let two fetches overtake each other and two first users
  race; one rotation between two keys lets an older answer overwrite a newer one;
  two starts let a crash be followed by a load.
- Encoder: a capacity of two is the least for which two announcements merge and
  the transform can still be full; two encoders let an abort hit the old one. The
  headers and samples are short, but of every format, with sets of their own, with empty
  units and with one the guess mistakes; length is left to the proof.
- Video: two changes let the display change again before the recovery from the
  first is over, or back; two encoders are one replacement; two attempts at
  opening are one retry.
- Media: sizes 0 to 5 with a limit of 2 and at most 2 fragments give units that
  are refused as empty or too large, single, exactly filled and partly filled;
  `MaxId = 3` saturates with the fourth unit; the table holds two, one fewer than
  there are ids, so that it overflows.
- Control stream: three messages of the free peer are a hello, a handshake and
  one message behind it, in one read or several, or a handshake out of order; one
  input and one pointer shape can be anywhere between the others.
- Client: two connects are one that cancels the other; a connect, a disconnect and a
  drop are the three kinds of calls that can meet; two losses let the resume itself
  be lost. One token may expire, before or after it is presented. `Scenario` keeps the
  second connect apart from disconnect and drop, and leaves it one loss or one expiry.
  The bound of ten on the number of transports is not reached: calls and losses bound
  it first.

### Fairness and deadlock

`EveryCheckEnds` needs weak fairness of what a task does next inside
`check_or_bootstrap`. Tokio polls every task that can go on, a `RwLock` is given to
waiters in order, and a file operation ends with success or an error. Nothing is
assumed of the listener, fetches, peers, crashes or starts. `HandshakeEnds`
needs weak fairness of the client's own steps and of the host's task (`HostPolled`), for
the same reason: both are polled whenever what they wait for has happened. Two waits of
the host's task may be for something that never happens, and are not forced to end: for
the peer's stream (`AwaitsStream`), which has a timeout only if one is configured, and
for the validation of an identity token (`Validating`), which may fetch keys. A resume
token is validated locally. What a user does, what the free peer sends, pointer shapes
and the loss of the connection are never forced. `EncodeEnds` needs the
worker's thread to run and the transform to finish frames it holds; a call that
hangs inside the driver is `Blocked` in `VideoWorker` instead. There the worker runs
on only where it is not `Blocked`, a stall that lasts is noticed by the watchdog, the
watchdog, monitor and join run on, and a task whose connection is closed ends: its
read fails. Both liveness properties of the worker hold
also when a call never returns. `Settles` needs one weak fairness condition, that the
client goes on as long as one of its tasks can: Swift resumes every task whose await
is over. Nothing is assumed there of the app, the network or the host.

Deadlock is checked except for `HostAccess`, where the host may
really be down for good (the file is torn and `load` refuses it, or the bound on
starts is reached), `ControlStream`, where a connection ends, and `SessionClient`, where
the calls are used up and the client rests.

## Proofs

Eight modules, one for each component (`HostSessionsProofs`, `InputSessionProofs`,
`HostAccessProofs`, `MediaDatagramsProofs`, `ControlStreamProofs`, `H264EncoderProofs`,
`VideoWorkerProofs`, `SessionClientProofs`), prove for every value of the constants:

- `RegistryCorrect`: `RegistryInvariant` is inductive. Single use of tokens is not
  inductive by itself: a nonce that has won must be in no record
  (`SpentNonceIsGone`), which a creation or a resume could break unless nonces of
  different tokens differ (`NoncesDiffer`), records hold only signed nonces
  (`RecordsAreSigned`) and a session about to be inserted is not there yet
  (`InsertedSessionIsNew`). `TypeCorrect`, `TokensAreSingleUse` and `SessionsAreOwned`
  follow; `TerminationIsFinal` and `ExpiryIsFinal` are the action properties, proved
  from the same types. They assume nothing of how the clock moves, except that it
  does not leave the natural numbers, and hold for any number of restarts.
- `HostImplementsLifecycle`: the registry implements `SessionLifecycle`, step by step. The
  mapping reads the phase and the tokens of a session off its record and the tokens
  signed for it, and its holder off the tasks. That a step of one task leaves the holders
  of other sessions alone needs `RegistryInvariant`; pruning and restarts end several at once.
- `FocusLossIsClean`, `MotionNeverGoesBack` and `PointerStaysOnDisplay` hold whatever
  the desktop refuses; `NothingStaysStuck` holds as long as it has refused nothing
  (`refused` is a history variable), from the invariant that everything the desktop
  holds is tracked.
- `ClosedStoreStaysClosed` rests on: no task is past the emptiness check while the
  store is closed. `GrantsSurvive`, as long as the disk has not failed, rests on the write
  lock: at most one task persists, and what it writes is the list in memory.
- `AccessUsesStore`: the listener, its tasks and the key cache implement the specification
  of the store, so that the two theorems above hold behind the listener too
  (`StoreIsSafeBehindListener`).
- `OnlyExcusedKeysAreUnknown`, from `KeyInvariant` (`KeysAreFollowed`): the key of a token
  is where its task looks next, at the provider, in the answer or in the cache, or
  a rotation, an overtaking answer or an expiry excuses its absence.
- `UnitsAreDeliveredOnce` and `DroppedUnitsAreLost`, for any size, limit, timeout and
  size of the table. Neither is inductive: `MediaInvariant` adds that each datagram and
  each filled slot holds a fragment of the unit that its header names, and where the
  fragments of a unit are: one that is in the table does not come again, nothing is left of
  a unit that was delivered, and a unit that was dropped lacks a fragment that is nowhere
  any more. This holds also once ids saturate and units share one; it needs that QUIC
  does not duplicate a datagram. `UnitsAreAssembledAsSent` and `UnitsAreTiled` are about the same records; the
  tiling is arithmetic on `div_ceil`.
- `HostInvariantHolds`: for a peer that sends any number of messages in any order,
  reads of any size and loss at any point. None of the four properties is inductive.
  `AdmissionInv` ties `session_established` to the protocol's flags and to the
  session, `WireInv` ties what was said to the flags that keep it from being said
  again, `GoodbyeInv` that a goodbye in the flags, the batch or the stream was said,
  `EndInv` where the session may be settled. `HostIsOrderly`,
  `NothingServedUnadmitted`, `GoodbyeDecides` and `OkIsClean` follow;
  `ControlTypeCorrect` includes that no loop of the host handles a message that is
  not there.
- `ConformingClientIsHeard`: a client that follows the protocol is never refused. What the
  host has not handled yet, in the batch and in the stream, is a list of messages of any
  length; `ConformingInvariant` says that the host can take each message of it as things
  stand (`Expected`), that none which is taken once is there twice, and that the client
  goes on only after the host has said what it waits for (`HeardInv`, `ToldInv`). The
  smoke client's flags are a recursive function of the read it handles: that it has
  values (`FoldExists`), and that it remembers an acknowledgement only if the read had one
  (`SmokeAcknowledged`), is proved from the least length for which it would not be so.
- `OutputIsGated` and `WaitIsNotInVain`, for a transform of any capacity. Neither is
  inductive, because one flag stands for many announcements. `EncoderInvariant` adds
  that what is announced, read or unread, is there (`AnnouncedIsReady`) and that a
  transform full of finished frames has an announcement left (`FullIsAnnounced`).
  `EncoderImplementsContract` is the refinement of `VideoEncoder`, proved step by step
  for headers and samples of any kind.
- `UnitsAreSamples`, for headers and samples of any number of units of any length, in
  every format. The encoder's part is short: the header in force is one that was read,
  and it changes only while no access unit is on its way (`UnitsInvariant`). The rest is
  about bytes. A stream (`IsStream`) is units behind start codes of three or four bytes,
  each in a known place. A decoder finds the units of a stream and nothing else
  (`UnitsOfStream`), because no code begins inside a unit or across its end; the types the
  host reads off a stream are those of its units (`TypesOfStream`); streams behind each
  other are a stream (`StreamConcat`). So it is enough that every conversion yields a
  stream: of length-prefixed units without the empty ones (`LengthsToAnnexB`), of the
  sets in an AVCC record (`RecordIsRead`), of every header (`HeaderIsRead`). Both rest on
  reading back a big-endian number that fits into its field (`BigEndianBytes`) from any
  offset. The functions of the model are recursive over offsets. That they have values is
  proved from `UpRecursion` and `DownRecursion`, and what they compute by induction over
  sets of numbers (`SetInduction`, `DownInduction`), which need no operator as a parameter.
- `WorkerTypeCorrect` and `EncoderTypeCorrect` are the types of the two modules.
- `StreamsEndLoudly`: `EndInvariant` adds to `NoSilentEnd` that a worker returns Ok only
  when it was told to stop, that a watchdog past its abort has closed the
  connection, and that a worker that has returned has joined its watchdog.
- `FramesAreGivenBack`: `FrameInvariant` says that a frame the duplication has given out is
  remembered as outstanding, except behind a call that has failed for good.
- `BoundsAreCurrent`: `BoundsInvariant` says where between a recovery and the next dispatch
  the input session may be behind the capture session.
- `OldEncodersAreFlushed` and `FramesFitEncoder` rest on what the slot of the abort handle
  names (`SlotInvariant`), which encoders have been told to flush (`FlushInvariant`) and
  which size the frame and the encoder have at each place (`FitInvariant`).

- `RestIsAlwaysConsistent` and `ConnectedIsMatched`, for any number of calls, transports,
  losses and expiries, which the run of `SessionClient` limits by `Scenario`.
  `ClientInvariant` says for each await what a task there may be about: at most one task
  shakes hands without having been overtaken, on the current transport; a transport that
  is up is the monitored one, or a task is at it or about to close it; the phase
  shown goes with them. `AgreementInvariant` adds the host: a transport is asked for a
  session at most once, so that at most one result is under way, and that result, and
  then the binding of the client, names a session that is streamed to this transport and
  a token that is good, for as long as the host serves it.

Assumptions are the named `ASSUME`s of the modules, which TLC evaluates in every run:
bounds are natural numbers, a ttl, a limit on datagrams and the capacity of a transform are
not zero, the sets of sizes and displays are not empty or of the right type, the kinds of
calls of the client differ (`CallsDiffer`), and headers and samples have one of the formats
(`HeadersAssumption`, `SamplesAssumption`). Of these only the last two say something of the
world outside: that the transform emits H.264. A header that the guesses mistake is outside
of them, and nothing is claimed for it.

Left to TLC:

- liveness (`EveryCheckEnds`, `HandshakeEnds`, `EncodeEnds`,
  `WedgedStreamIsClosed`, `TeardownEnds`, `Settles`) and ENABLED, beyond the prover. Every
  safety property and every action property of the passing runs has a theorem.

## Plan

Done: 1. sessions; 2. input; 3. users; 4. video datagrams; 5. the control stream;
6. the video worker, capture and encoder; 7. the listener and the key cache; 8. the
client's session against the host's sessions; 9. proofs of the safety properties of
all modules, and of the three refinements.

## Not modelled

Byte layouts of datagrams and JSON text, pixel formats, colour conversion and pointer
shapes, codec settings and timestamps, the selection of a display, `flush` of the
encoder (no host calls it), TLS and configuration, JWT verification and its test
mode, the user interface with the order in which it sends input, the decoder of the
client with its wait for a key frame (no message to the host depends on it),
scripts and smoke tools. A watchdog thread that cannot
be started is left out: the stream then has no watchdog. Two rare paths of the Swift
transport on which a completion may never arrive are left out too, and `Settles` does not
cover them: a send that is yielded after its queue has finished, and a bridge that is
dropped while it opens.
Identity of users inside session records is left out: the registry never
compares it. Two sessions replaying input to one desktop at the same time are
not composed.
