# TLA+ models of video-p2p-mvp

The repository is a peer-to-peer screen sharing prototype in Rust with a desktop
shell: a host captures a screen or window, encodes H.264 and Opus, and publishes
over WebRTC; a viewer plays it in its WebView. A small TCP server brings the two
together. The modules here model nearly all of it: the parts whose correctness
depends on several threads, connections or failures as state machines, and the
sequential parts as operators that are evaluated on every input up to a bound.
TLC checks them on small instances, and TLAPS proves the central properties for
every value of the constants.

Source paths below are relative to the repository root.

## 1. The system

| component | where | state | operations |
|---|---|---|---|
| signaling server | `crates/signaling-server/src/main.rs` | map of rooms behind one mutex; two slots and a signal history per room; one writer per client | accept, JOIN, relay, replay, unregister |
| signaling client | `crates/app-core/src/signaling.rs` | non-blocking socket, read buffer, `read_closed` | connect, poll, send |
| session manager | `crates/app-core/src/session.rs` | stage, mode, transport, signaling connection, capture runtime, viewer, selection, logs | start host/viewer, refresh, reconnect, stop, reset, capture start/stop, viewer commands |
| media pipeline | `crates/app-core/src/media_pipeline.rs` | worker thread, stop flag, shared status and diagnostics, the backend (held by runtime or worker) | start, stop, poll_events; `run_worker`, `process_event` |
| WebRTC transport | `crates/transport-webrtc/src/lib.rs` | `SharedState` behind a mutex: connection state, outgoing signals, counters, keyframe recovery | offers, answers, candidates, `publish_video`/`_audio`, close, callbacks |
| keyframe recovery | `crates/transport-webrtc/src/keyframe.rs` | requests, pending, last published, last FIR | observe, should_force, published, reset_pending |
| viewer bridge | `crates/app-core/src/viewer.rs` | generation, bounded queue of signals, playback report | enqueue, drain, sent, report, close |
| viewer player | `apps/desktop/public/viewer-player.mjs` | context per generation, pending ICE, peer connection | sync, poll loop, accept offer, report, close |
| capture catalog, selection | `crates/app-core/src/capture_catalog.rs`, `crates/capture-core` | sources, selected source, audio opt-in | sync, select |
| preferences | `crates/app-core/src/preferences.rs` | one file | load, save |
| capture backends | `crates/capture-macos`, `crates/capture-linux` | status, pending events, native handle | start, poll, stop |
| desktop page | `apps/desktop/public/main.js` | the session it shows, the action and the refresh in flight | user actions with a timeout, refresh, sync of the player |
| desktop application | `apps/desktop/src-tauri/src/main.rs` | the session manager's mutex, a pool of blocking tasks | one command per session operation |
| encoders | `crates/media-codec` | pending audio, the clock of packets, dimensions of the encoder | encode, reset |
| protocol, ICE servers, source ids | `crates/app-core/src/{protocol,ice_servers}.rs`, `crates/capture-*` | none | encode, parse, validate |
| mock media, CLI | `crates/app-core/src/mock_media.rs`, `apps/desktop/src` | none shared | sequential |

### How they interact

* Every client of the signaling server has a handler thread. It changes the map
  of rooms under the mutex, collects the lines to write, releases the mutex, and
  writes them one by one, also to the *other* participant's socket.
* The session manager lives behind one mutex. Its client end of the signaling
  connection is polled, never read by a thread of its own.
* A capture start moves the backend into the worker thread; stop raises an atomic
  flag and joins the thread *while the session mutex is held*, and takes the
  backend back.
* The worker publishes through `TransportPublisher`, which locks the transport's
  shared state several times for one frame. The WebRTC stack's callbacks and the
  RTCP reader change that state between any two of these.
* The WebView polls the backend over IPC. Every command is a task on a pool of
  threads that takes the session mutex when it gets it; the viewer's commands carry
  the generation they belong to.
* The backends of capture deliver through callbacks on queues of the operating
  system (macOS) or through a child process and its pipe (Linux).

### What is hard

* **Writes after unlock.** Two handlers may write to one socket in an order that
  the rooms map never had.
* **Roles, not identities.** A slot is cleared by role. Nothing in the code
  compares the participant.
* **Failures that hit the wrong one.** A write fails because the *reader* went,
  and it is the writer's handler that ends.
* **Checks that go stale.** The worker reads the connection once per iteration,
  again before each sample, again in `write`, and again after a failure.
* **Acknowledgements that come late.** A keyframe answers only the requests
  counted before its write began; the connection may be another one by then.
* **Refreshes inside commands.** Nearly every command looks at the sources first,
  and what it finds may stop the capture, rebind the selection or send nothing.
* **One step of several failing.** A script of steps goes on after a lost
  connection; an error in a batch of lines drops the lines before it.
* **Late executions.** A command the page has given up is still executed, after
  later ones; a callback of a destroyed stream still arrives.
* **Crashes.** The preferences are truncated and written in place.
* **Stopping.** The worker can be starting, publishing, failing or already over
  when stop is called; the backend must come back, and a backend that cannot be
  stopped must not be forgotten.

The properties that make each component correct are in section 4; the hazards they
are aimed at are listed, each at its line, in `PROJECT.json`.

## 2. The modules

| module | models |
|---|---|
| `SignalingServer` | the handler threads of the signaling server |
| `Guests` | connections, roles and signals, which it shares with `Rendezvous` |
| `Rendezvous` | what the server promises, without threads, queues or a map |
| `MediaPipeline` | capture worker, the session that starts and stops it, publisher, connection callback, RTCP reader |
| `KeyframeRecovery` | `keyframe.rs` as operators on its record |
| `SessionManager` | the session's commands, catalog and selection, preferences file, negotiation |
| `PeerTransport`, `SignalingClient` | the transport and the client connection, as operators on records |
| `ViewerPlayback` | a viewer in the WebView: backend session, commands in flight, page and player |
| `CaptureBackends` | the capture runtime of the build; composes the two below |
| `MacCapture`, `LinuxCapture` | the runtimes with the native stream, and with the listing command |
| `CaptureEvents` | events and the status derived from them, common to both |
| `Algorithms` | the sequential parts on every input up to a bound; instantiates the seven below |
| `SignalingProtocol`, `Preferences`, `IceServers`, `SourceIds` | formats, over tokens; `Texts` has the methods of `str` they use |
| `IcePath`, `Encoders` | selection of the ICE path from statistics; clocks of audio packets and video frames |
| `MCSignalingServer`, `MCMediaPipeline`, `MCSessionManager` | instances for TLC: symmetry sets, catalogs |
| `Retain` | `Vec::retain` as a recursive function, one definition for what the provers have to reason about |
| `SignalingServerProofs`, `RendezvousProofs`, `MediaPipelineProofs`, `SessionManagerProofs`, `ViewerPlaybackProofs`, `CaptureBackendsProofs`, `AlgorithmsProofs` | theorems |
| `SequenceLemmas` | lemmas about sequences: induction over numbers and sequences, what `Retain` returns, what the operators of `Texts` compute |

Operators named `Faulty...` are not part of the models. Each is the operator that
follows it with a plausible bug; putting it in that operator's place makes TLC
refute the property it is meant for.

### SignalingServer

One critical section of the code is one action, and one line written is one
action. `stage[c]` is the place of the handler of connection `c`:

| stage | code |
|---|---|
| `new` | `read_line` of the JOIN |
| `announcing` | `apply_writes` in `register_participant` |
| `reading` | `read_line` in `relay_client_messages` |
| `relaying` | `apply_writes` in `relay_signaling_message` |
| `correcting` | the ERROR for an invalid line |
| `rejecting` | the ERROR for a refused JOIN |
| `leaving` | before `unregister_participant` |
| `done` | `handle_client` has returned |

`queue[c]` holds the `QueuedWrite`s of the handler, `wire[c]` every line written to
the socket of `c`. `open` is the key set of the map, `slot` and `history` its
values; the one vector of (role, message) is kept as one sequence per role because
every use filters on a role. A signal is its author and its line number. A
participant's UDP address is abstracted to its connection.

The environment closes connections at any time (`Disconnect`), and a connection in
`Slow` may stop draining its socket (`Stall`, `Resume`). A write to a closed
connection may fail or still be accepted, as with TCP. A connection is used
once; a client that reconnects is another member of `Conns`.

### Rendezvous

A guest is outside, seated, closing, or has left. It is owed (`due`) what its
opposite said and was handed `got`. `SignalingServer` implements it under the
mapping `R` in that module: `due` is what is queued for a connection in *any*
handler, `got` is what is on its wire. A guest's end may cost one guest signals
(`Close`): itself, if its own announcements fail, or its peer, if its relay fails.
That loss is the code's, and is part of the promise.

### MediaPipeline and KeyframeRecovery

Actors: the session (`Control`), the worker thread (`Worker`), the callbacks of
the peer connection and the passing of time (`Peer`). `pc` is the worker's place:

| pc | code |
|---|---|
| `none` / `finished` | no thread / the thread has returned and is not joined yet |
| `starting` | `backend.start` |
| `loop`, `poll`, `next` | head of the loop, `poll_events`, the next event of the batch |
| `gate`, `encode` | `is_connected` in `process_event`, the encoder |
| `before` | `requests_before_write` in `publish_video` |
| `check`, `writing` | `is_connected` in `write`, `write_sample` |
| `ack` | the bookkeeping after the write |
| `refused`, `unsent` | `process_event` returned an error: not connected, or another one |
| `push` | the event goes to the diagnostics |
| `ending` | `backend.stop` |

A backend event is its kind and its source, and the backend may deliver any
events at any poll: a superset of what the macOS and Linux backends deliver. The
encoder may return any frame its interface allows: none, a keyframe, or a delta
frame if no keyframe was forced. Encoding, writing, starting and stopping may each
fail. `Halt` is the raising of the flag in `stop`, `Join*` the code after the join;
`session = "joining"` keeps every other command out because the session's mutex
is held. `Renew` is the session's dropping of a stopped runtime and its transport.

`sent` is a history variable: whether video was written since the peer connected
and since the worker's encoders were made, how many requests were counted when
the current write began, and how many a completed keyframe has answered.

`KeyframeRecovery` abstracts the instant of the last keyframe to `cooling`, which
ends at any time (`CoolDown`), and leaves out the `published` counter.

### SessionManager, PeerTransport, SignalingClient

A command of the application holds the session mutex from its beginning to its
end, but the server, the callbacks of the peer connection and the capture worker
do not wait for it. So a command is a *script*: the list of steps it takes in the
order of the code, and each step, which corresponds to one method or to one stretch
between two reads of something that changes by itself, is an action.

| variable | code |
|---|---|
| `todo` | the steps of the running command not taken yet |
| `events` | signaling events returned by `poll` and not handled yet |
| `outbox` | signals about to be sent, `Drain` of `drain_local_signals` included |
| `mode`, `stage`, `link` | `mode`, `stage`, and whether `transport` is the mock or the live one |
| `catalog`, `selection` | `capture_catalog`, `capture_selection` |
| `capture` | `capture_runtime`: what it captures, whose publisher it holds, whether the worker runs |
| `counted` | the source whose frames the counters count |
| `webrtc`, `made` | the transport, a record of `PeerTransport`; how many were made |
| `client`, `up` | the connection, a record of `SignalingClient`; `signaling_connected` |
| `file`, `optedIn` | what `load` would find; history of what was saved with audio |
| `sent` | history of the signals sent on behalf of the transport |

`Script(command)` is the code of the command; e.g. a refresh is
`<<"sync", "poll", "capture", "offer", "drain", "stage">>`. Steps that handle an
event (`HandleOffer`, ...) and the sending of a signal come before the next step.
A handler that fails drops the events behind it, as the `?` in the code does, and
a failed `connect` leaves the rest of the script to run, also as in the code.
`Sync` discovers sources (any member of `Observations`), replaces or keeps a cached
catalog, and rebinds or drops the selection, stopping the capture first. `Select`
and the update of the configuration save: the file is empty first, the step `write`
writes it, and `Restart`, which is possible at every moment, finds what is there
then; `Truncated` gives the ids a beginning of an id reads as.

### ViewerPlayback

Page and player are one JavaScript thread, so a step is what runs until the next
`await`. `calls` are the player's commands in flight: executed by the backend at any
time and in any order (`Backend`), answered later, or given up by the player
(`CallTimesOut`) and still executed. User actions are calls too; `abandoned` are
those the page has given up. `context` are the playback contexts the player has
made; a closed one takes no further step, except that its calls are executed. The
host's signals reach the backend in any number at any time, and the queue refuses
what is above its limit and fails the viewer.

### CaptureBackends, MacCapture, LinuxCapture

`new_capture_runtime` picks one runtime per build: `platform` is chosen once. In
`MacCapture`, `object` are the Objective-C objects behind the bridge, each with a
serial queue: ScreenCaptureKit's completion, its samples, its own stop and the
startup timer arrive in any order, also after `destroy`. `PollEvents` takes the
packets of the current object, decodes them, derives the status and closes the
bridge after an error. In `LinuxCapture`, a start blocks while the child writes into
a pipe of finite capacity that the parent reads only after the child's end; it
ends by the child's exit or by the timeout. The Linux bridge itself is a plan that
captures nothing, and the model says so.

### Algorithms

A state of `Algorithms` is one input of one problem, and a step makes it longer: TLC
evaluates the operators on all inputs up to the bound, and the invariants compare
them with reference definitions or demand that a conversion and its inverse agree.
Texts are sequences of tokens: a token is a character where a conversion looks at
it, a word where none does. The two encoders are the only parts with a state: `opus`
and `h264` go from one buffer or frame of the input to the next (`EncodeBuffer`,
`EncodeFrame`). A sample is its number and the instant it was captured at, so a
packet tells both what it left out and how far its stamp is off. Sizes of packets,
buffers and frames, the tolerance and the lateness of buffers are constants. What the
statistics, the audio encoder and the listing do in loops (`ActivePair`, `Sum`, `Packetized`,
`ParseListing`), and what `str` does from left to right (`SplitN`, `Replace`, `Joined`), is
written as recursive functions, and what is filtered with `Retain`, for the proofs. `MarksAssumption` says that `None` and
`Invalid` are marks: neither is a text, a port or a message that a codec could return.

## 3. Bounds

| run | instance | why it is enough |
|---|---|---|
| `SignalingSafety` | 3 connections, 1 room, 1 signal each | two occupy a room, the third is refused or replaces one of them |
| `SignalingOrder` | 2 connections, 2 rooms, 3 signals each | a replayed signal, a live one, and one after both; rooms meet only in the map |
| `SignalingLiveness` | 2 connections, both may stall | to a safety property a blocked write is one that has not happened yet; only liveness tells them apart |
| `SignalingEviction` | 2 connections | a relay and a departure |
| `PipelineLifecycle` | 2 sources, diagnostics of 2 entries, all events, no feedback | an event's source is the configured one or another; one more event than fits drops one (64 in the code) |
| `PipelineProgress` | 1 source, video only, 2 requests, 1 FIR | one request answered by a keyframe and one that arrives during its write |
| `PipelineRefused` | 1 source, no feedback | one sample |
| `SessionCapture` | sources `a`, `b`, where `a` is a beginning of `b`; 5 outcomes of discovery; 2 transports; no signaling lines | a source is selected, lost or another one; a transport is the current one or an earlier one |
| `SessionSignaling` | no sources, 1 transport, 2 candidates, 6 kinds of lines, 2 arrived at once | one candidate sent and one behind it when the connection ends; an event handled and one dropped |
| `ViewerPlayback` | queue of 2, 1 early candidate, 2 sessions, 2 contexts, 2 signals, 1 local candidate, 1 action given up | an old and a new generation; both queues reach their limit (128 in the code) |
| `CaptureBackends` | 2 sources and an example, 2 starts, 2 pending events, audio queue of 2, pipe of 1, listings up to 2 | a destroyed object beside the current one; an audio packet too many (32 in the code); a listing that does not fit |
| `Algorithms` | texts of 4 tokens, settings of 3, lists of servers of 5, reports of 3 entries, 3 buffers or frames, 3 windows; packets of 4 samples, buffers of 1, 3, 4 or 9, up to 2 early or late with a tolerance of 1; frames of size 0 to 3 | an escape beside a character that looks like one; two pairs and a candidate; a buffer in time, one within the tolerance and one beyond it; less than a packet, one, and more than two; a refused size, and two sizes that are one to the encoder |

`MaxBatch = 1` because the worker looks at the events of a poll one at a time and
polls again; a longer batch only fixes the sample of the connection for longer.
Symmetry (connections and rooms, sources) is used in the signaling and the pipeline's
safety runs only. Deadlock is checked in `SessionCapture`, `SessionSignaling` and
`CaptureBackends`, where some command is always possible. Elsewhere it is not: all
connections may be done, a pipeline may rest without a command, a viewer may have
used up the bounds, and an input has a last token; these ends are legal.

## 4. Runs

### Holding

| run | properties | what it shows |
|---|---|---|
| `SignalingSafety` | `TypeOK`, `SlotOwnership`, `PairIsAnnounced`, `NothingMissed`, `ImplementsRendezvous` | with rejections, failed writes and departures, a slot belongs to exactly the handler registered for it, both of a pair hear of each other once, a pair misses no signal, and the server implements the abstract promise |
| `SignalingOrder` | `RoomsInUse`, `FirstComerInOrder`, `ReplayInOrder` | the first comer reads PEER before signals, and the signals in order without skipping a stored one; signals that a live relay has overtaken on their way to the later comer are in order among themselves; the map holds just the occupied rooms |
| `SignalingLiveness` | `DisconnectReleasesRole`, `StoredIsDelivered` | with clients that keep draining, roles are released and signals delivered |
| `PipelineLifecycle` | `TypeOK`, `StopQuiesces`, `EndIsVisible`, `NoUnwantedAudio` | starts, restarts and stops at any step of the worker leave nothing capturing unnoticed, and audio stays in without the opt-in |
| `PipelineProgress` | `FeedbackRemembered`, `StreamStartsDecodable`, `StopReturns`, `FeedbackAnswered` | no refresh request is lost, also not one that arrives during a keyframe's write; new encoders begin with a keyframe; stop returns from wherever the worker is; a pending request is answered while video flows |
| `SessionCapture` | `CaptureFollowsSelection`, `CaptureUsesCurrentTransport`, `HostSelectionIsOffered`, `RestoredAudioWasSaved`, `AudioStaysOff` | what is captured is what is selected, on the transport of the session; a crash during a save never restores audio that was not saved; rebinding to another source keeps an opt-out, which is forgotten only when the catalog was empty |
| `SessionSignaling` | `LossIsReported`, `StoppedStaysStopped`, `AnsweredStaysAnswered` | no signal is lost behind a session that looks healthy, nothing late revives a stopped session, an answered transport does not offer again |
| `ViewerPlayback` | `TypeOK`, `SignalsReachPlayerInOrder`, `WireIsOwn`, `FailureIsReported`, `ShownNeverGoesBack` | signals reach the player once and in order or the viewer has failed; nothing of one viewer goes out for another; a failed player's backend is about to be told; an old refresh never hides a newer action |
| `CaptureBackends` | `StatusTellsTruth`, `StreamHasOwner`, `SamplesFollowStart`, `StartIsDecided` | a runtime says that it starts or runs exactly while it holds a stream; a stream that starts or captures belongs to the bridge or was told to stop where it is, but for one exception, see below; samples follow the start they belong to; a start ends in success or failure |
| `Algorithms` | `MessagesSurvive`, `SettingsSurvive`, `NominatedPathIsShown`, `EncodersKeepTime`, `IdsNameTheirSource` | what is sent is what is parsed; settings survive a save, and of each text a file that was cut off gives back a beginning, or one that ends in half an escape; the nominated pair is shown in every order of the report; packets are whole, in sequence and span no gap beyond the tolerance, their stamps drift no further than the buffers, stamps of frames increase and, while every frame has a result, a new size begins with a keyframe; an id leads back to its source |

### Violated

Each of these states what a comment or a document says, and TLC finds a
behaviour of the code that does otherwise.

| run | statement | what happens |
|---|---|---|
| `SignalingEviction` | a disconnect clears only its own slot (`docs/qa/BUG-003-registration-lifecycle.md:24`, `docs/NETWORKING.md:22`) | relaying to a peer that has just gone fails and unregisters the one that relayed |
| `PipelineRefused` | a concurrent disconnect drops the sample (`media_pipeline.rs:196`) | the peer returns before the second look, and the worker ends |

### What the code guarantees, and what it does not

* Only the first comer of a pair is told who its peer is before it gets that peer's
  signals (`FirstComerInOrder`): a live relay may overtake the PEER line and the
  replay of the later one, because writes are applied after the mutex is released.
  `ReplayInOrder` says how far the disorder goes: what was overtaken still comes after
  PEER, in order and complete. A host may therefore see a candidate before the answer;
  the session model lets the transport refuse it. Both properties speak of the signals
  that are stored, that is, until their sender unregisters.
* `AudioStaysOff` has an exception the code makes: if discovery finds no source at all,
  the selection goes with the opt-out in it, and the first source that comes back is
  taken with its default, audio on (`session.rs:1249`, `session.rs:1396`).
* `StreamHasOwner` has one as well: `vpp_sck_destroy` drops the stream, so the stop that
  the completion of a pending start would send (`screen_capture.m:274`) goes to `nil`. If
  ScreenCaptureKit does not heed the stop that was sent before the start completed, that
  stream captures and nothing can stop it (`StartedUnreachably`).
* A backend that cannot be stopped keeps capturing, and the pipeline goes on claiming to
  run; `StopQuiesces` and `RunningHasWorker` exempt it, as does the lost backend.
* `DisconnectReleasesRole` needs clients that drain their sockets: a write has no
  timeout, so a client that stops reading keeps its peer's handler, and the role
  it holds, for as long as it likes.
* `StreamStartsDecodable` counts from the moment the worker notices a change of the
  connection. The comment in `media_pipeline.rs:177` speaks of every connected epoch;
  one whose peer dropped and returned between two samples of the worker may begin
  with a delta frame.
* `docs/ARCHITECTURE.md:53` has disconnection clear pending work. The
  acknowledgement of a write under way may set `pending` after it; the cost is one
  needless keyframe in the next connection.
* `LossIsReported` speaks of signals the client's socket accepted. A line lost
  afterwards, between socket and server, is visible only as a connection that ends.
* A line that is invalid, or a connection that is reset, discards the good lines read in
  the same poll. `LossIsReported` is about signals sent; no property is about these.
* A preferences file cut off in the middle may restore a TURN server without its
  credential, and a text whose last escape was cut is no beginning of the saved one:
  `?transport=udp` is saved as `?transport%3Dudp`, and cut after `%3` it loads as a URL
  that ends in `transport%3`. Likewise the `%0A` between two servers may leave `%0` at
  the end of the first one's credential. `SettingsSurvive` says that nothing worse happens.
* On Linux, a listing larger than the pipe always runs into the timeout, because the
  pipe is read after the child's exit; `StartIsDecided` shows that it ends.

### Fairness

* `SignalingServer!FairSpec`: every handler is scheduled. It is strong fairness
  because a write becomes possible and impossible with the client's draining, and
  a blocked `write_all` goes on as soon as there is room. Clients need not do
  anything. `DrainingSpec` adds that a stalled client drains again.
* `MediaPipeline!FairSpec`: the worker is scheduled and its calls return (a write
  returns after at most 200 ms); an audio buffer has finitely many packets (strong
  fairness of leaving the packet loop); a join of a thread that has ended
  returns.
* `VideoFlows`, the premise of `FeedbackAnswered` only: the backend delivers video
  again and again, the encoder does not drop every frame, and time passes.
* `CaptureBackends!FairSpec`: the worker polls a runtime it has started, the
  startup timer fires, a child that has exited is collected, and the timeout
  passes. ScreenCaptureKit and the child need not do anything.
* `SessionManager`, `ViewerPlayback` and `Algorithms` are checked for safety only and
  assume no fairness: the user, the server and the host may do nothing at all.

## 5. Proofs

All theorems hold for every value of the constants under the named assumptions
(`NoConn` is no connection, `NoFir` no FIR, bounds are natural numbers, ...).

**`SignalingServerProofs`.**
`OwnershipInvariant`: `TypeOK /\ SlotOwnership`. `SlotOwnership` is inductive only
with the types, and with the fact, part of `TypeOK`, that a handler has writes
queued exactly in the writing stages: otherwise a refused handler could get from
its last write into `reading` and unregister the role of another.
`MapCorrect`: `RoomsInUse /\ StoredByOccupant`. It rests on ownership: a room is
removed when the opposite slot is empty, which is right only because the leaving
handler holds the other one. `StoredByOccupant` needs in addition that a vacant
role stores nothing (`VacantStoresNothing`). `TypeCorrect` states the types alone.

The second half of the module is about the wires. `ServerImplementsRendezvous`: every step of the
handler threads is a step of `Rendezvous` or a stutter. The mapping takes a role's
holder, what it has heard and what it is owed from the map, the queues and the
wires, so the step lemmas say how each critical section moves a signal between
them. `NothingIsMissed` then is not proved again: `RendezvousProofs` is instantiated with
the same mapping, and its theorem gives the server's `NothingMissed` over the
queues. `PairsAnnounced` and, in part, `FirstComersServedInOrder` come from the same invariant,
`DeliveryInvariant`, which is `MapInvariant` with

* `NewcomersUnknown`: nobody addresses or mentions a connection that has not joined;
* `WritesFitStage` and `SignalsWereRead`: what a handler has still to write is what its
  stage puts there, and no signal carries a number its sender has not reached;
* `NothingTwice`: apart from `ERROR`, no line is twice on its way to a receiver, or on its
  way and written. Without it a signal that was delivered could be owed still, and
  the step that writes it would not be the abstract hand-over;
* `PeersAreTold`: of two connections that face each other, each has been told of the
  other, or will be, unless one is leaving;
* `FirstComers`: whoever found the room empty reads `PEER` before a signal of that peer,
  and the signals of a peer in the order in which it sent them.

That the first comer misses none of the stored signals needs `Unbroken` on top of it: a
stored signal older than one it has read, or than one being relayed to it, is written
already; and whatever its peer has stored is written or about to be while that peer stays.
It breaks without the rule that a handler whose write has failed unregisters: the next
relay would leave a gap.

**`RendezvousProofs`.** `PromiseKept`: `OneSeatEach`, `NothingMissed` and
`HandedOnce`. The invariant `Promise` adds to them the types and that nothing owed
was handed over; freshness of a signal (`Fresh`) carries `HandedOnce` through `Say`.

**`MediaPipelineProofs`.**
`StopIsComplete`: `WorkerOwnsBackend`, `StopQuiesces` and `RunningHasWorker`, of which the
runs check the second. The
strengthening `EndQuiesces` says that a thread that has *ended* left nothing
capturing, joined or not. `WorkerRuns` and `PeerLeavesPipeline` reduce twenty
worker steps and four peer steps to what they may do to the life cycle.
`RequestsRemembered` (`FeedbackRemembered`) and `FirstFrameIsKey`
(`StreamStartsDecodable`) follow from one invariant, `Recoverable`. `Counted`
relates `before`, `sent.begun` and `sent.covered` at each step of a write;
`Decodable` says that encoders that have written nothing still force a keyframe,
and that a frame under way is one.
`TypeCorrect`, `EndIsSeen` (`EndIsVisible`) and `AudioNeedsOptIn` (`NoUnwantedAudio`)
follow from `Diagnosed`, that is `Recoverable` with
the remaining types; that the worker processes an event that its backend is to encode (`EventInHand`); and that
a worker that ends by itself has said so, in the status and in the last event
(`EndIsTold`). `NoUnwantedAudio` is part of it, since a start that did not ask for
audio must not find any from an earlier one.
`PushType` is what the bounded queue does when it drops: `Retain` keeps events, in
order.

**`SessionManagerProofs`.** All eight properties of the session's runs, and its
types, follow from one invariant, `Inductive`. Most of it is about the list of
steps a command has left. `InOrder` collects what every script observes and every
rest of a script inherits: links to a transport and a server are made only after
the state that held the old ones was replaced (`LinksRenewed`), a command that
starts a capture does not replace the session (`StartsAlone`), a disconnection is
followed by a replacement (`EndsRenewed`), a host begins with a default chosen after
the last look at the catalog (`DefaultsLast`), and selecting is no part of a
beginning (`SelectsAlone`). From it come

* `Prepared`, `Quiet`, `Silent`, `Closing`: what is already stopped or replaced
  when a step is next, e.g. nothing captures while links are awaited;
* `Capturing` and `CaptureUsesCurrentTransport`, which are inductive only together,
  for `CaptureFollowsSelection`;
* `Synced` and `Defaulted` for `HostSelectionIsOffered`: between the new catalog
  and the new mode the selection is already the one a host may have;
* `Unspoken` (a transport that links are still awaited for has handed out nothing),
  `Linked` (signals are in the outbox only while the connection is up), `Told`
  (what is owed is sent or about to be), `Lively` and `Numbered`, for `LossIsReported`;
* `Answered` for `AnsweredStaysAnswered`: an answered transport has its local
  description, the one thing `ensure_host_offer` looks at.

`AudioIsKeptOff` (`AudioStaysOff`) needs of it `HostSelectionIsOffered`: a host selects
nothing only while the catalog is empty. So a default for a host finds nothing to select,
and of the ways to a new selection the user's and the catalog that refills are left.

**`ViewerPlaybackProofs`.** For any limits of the two queues and any number of
sessions, contexts, signals and abandoned commands, the variables keep their
types and the queues their limits (`TypeCorrect`), what is sent to the host
comes from a context of the session (`SendsAreOwn`), a failed player's report
is on its way while the backend still queues for it (`FailuresAreReported`), and
the page never goes back to an older session (`PageGoesForward`). They are inductive
only together with what is under way: a command that was given up is still executed later, so what a context
or the page may still be told has to be bounded. The invariant `Inductive` has four
parts:

* `Types`: with `TypeOK`, the part `Chain` that a context sends its signals one after
  the other, so that the call that carries the first signal is the only one (without
  it the end of a call could drop a signal from an empty queue);
* `Known`: nobody has heard of a generation that has not begun, and what the page is
  about to show is never older than what it shows;
* `Owned`: what is on the wire comes from a context of the session in use, and one
  that was begun;
* `Reporting`: a failed context of the session in use has a report under way.

Two lemmas carry most steps: `Grown` describes what any executed command does to the
session (its generation never goes back), `Moves` what a step of the page or of the
player may do to contexts and calls. The assumptions are those the module names on
its constants: the limits are natural numbers.

The second half of the module proves `SignalsStayInLine`: `SignalsReachPlayerInOrder`. On
top of `Inductive` the invariant `Flow` says that

* a session that lives has at most one context, the player's, and the page shows that
  session (`Single`). It holds because a lively session is still at the epoch it began
  with (`Begun`), so whatever the page hears with that epoch is true (`Truthful`);
  without it a second context of a session would start behind signals the first took;
* a poll was told of a stop only if the session is stopped (`Ended`), the player polls
  once at a time and only with an empty batch (`Asked`);
* what was taken, the batch, the answer of the poll and the queue of the bridge number
  the signals one after the other up to the last (`Line`, `InLine`); before there is a
  context the queue alone does (`Untold`).

`LineGrows` and `NumberedMove` are the two ways a line changes: a signal joins its
end, or goes from the head of one queue to the end of the one before it. Of the limits
only that they are numbers is used: an overflow ends the viewer or the context.

**`CaptureBackendsProofs`.** `StatusIsTrue` (`StatusTellsTruth`), `CaptureIsOwned`
(`StreamHasOwner`, with its exception) and `SamplesAreInOrder`, for any number of streams and
children and any bound on events. The invariant `CaptureInvariant` has a half for each
runtime, since a build has one of them and the variables of the other stay as they
were. `StatusTellsTruth` speaks of what the status will be when all pending events are
applied, a fold over them; `EventByEvent` takes it apart into single events. On macOS it needs

* `Settled`: the last pending event makes the status what it is already, whatever it
  was before; the runtime has applied the pending events and polling applies them again;
* `Held`: the bridge holds an object of the active source, which captures, or has failed
  and has nothing left to say but that;
* `StartedFirst`: while the status is starting, the first packet of a running object is its
  Started, so that no sample comes before it;
* `NoSamplePending`: samples are polled from the bridge and never put aside;
* `OnlyHeld` and `AllStop`, for `StreamHasOwner`: only the bridge's object is active, and one
  that is not active told its stream to stop at the stage it is in, or has let go of it.

On Linux `Silent` takes the place of the first three: no pending event says that
anything starts or runs.

**`AlgorithmsProofs`.** `AnyReportShowsPath` is about the operators alone: a report of any
length over any candidates, in any order, gives `ShowsNominatedPath`; `PathIsShown`
(`NominatedPathIsShown`) applies it to the inputs of the specification. `BestIsActive` is the
induction over the pairs, from `ScoresOrder`: scores are a linear order up to pairs that
score the same, which is all that `max_by_key` needs. That no more is lost than was sent is
`SumsAreNatural`, since `packets_lost` may be negative and is cut off at 0 before it is added.

`TimeIsKept` (`EncodersKeepTime`) holds for any size of packets, any tolerance, buffers and
frames of any sizes, and any number of them. `EncodersKeepTime` is not inductive: it
says nothing of the samples that wait for a packet. `AudioKept` adds

* `Waiting`: the pending samples are numbered up to the last one captured, they are as
  steady as a packet has to be, they follow on what is in the packets, they end where
  the next buffer is expected, and the stamp is off from each by no more than the drift;
* that less than a packet waits between two buffers, so `pending` is never drained late.

The drift is `Tolerance` for each buffer so far, and no less: buffers that are each late
by less than the tolerance add up, because the stamp of what waits goes on from the
first of them. `JoinedKeeps` is the reset after a gap, `DrainedKeeps` one packet,
`PacketizedKeeps` the loop, by induction over its rounds. `VideoKept` adds that the encoder
remembers a stamp that is no older than its last frame's, and, while every frame has
had a result, the size of that frame (`Remembered`): a session that was made anew
for a frame that then fails keeps the new size and the next frame is not forced, which
is why the property has that premise.

The third part of the module is the wire. `MessagesArrive` (`MessagesSurvive`) holds for
texts of any length. It rests on `PayloadsComeBack`: no text is changed by being escaped and
restored, and escaped it has no separator and no newline. `ValuesComeBack` is the same of the
preferences file. The argument:

* A round of escaping replaces each token by itself or by its code (`EscapeFirst`,
  `EscapeBoth`), and is undone by its inverse in every text in which nothing looks
  like its code (`Free`, `EscapeUndone`). That is so for the later rounds
  because the first has put its own code after every percent sign (`Marked`): so the percent
  sign must be escaped first and restored last, and this is the order of the code.
* A line is nested fields, each without the separator, and `SplitN` takes them off one by
  one (`FieldSplit`, `SplitBoth`), the last with all that is left; words likewise
  (`Spaced`, `SpacedWords`, `OnlyWord`).
* Both ends of the wire trim the line. `TrimIs` and `TrimEndIs` say what a trim returns, and
  `PayloadEnd` that blanks at the end of a text are the blanks at the end of its payload:
  the last field loses those and nothing else (`LastField`), the others nothing.
* `SameOperators` identifies the operators of the instances `Wire` and `T` with those of
  `Texts`, about which the lemmas are.

The assumption is `MarksAssumption`; the invariant is that the input is one of the
specification's (`InputGiven`).

The fourth part is the ids of sources. `IdsLeadBack` (`IdsNameTheirSource`) holds for listings
of any length, with windows that are listed twice and windows without a title:

* The lines of a listing are the texts of its rows (`ListingLines`, by induction over the
  rows, `OneMoreRow`), and the words of a row are four and those of its title (`RowWords`),
  so a row has a source exactly if it has a title (`RowIsParsed`).
* The first three tokens of an id name the window, whatever `slugify` has made of the names
  of application and title (`WindowIdIs`). It is these that tell two windows apart.
* `IdsOffered` is kept by each row (`NextSourceKeeps`): no id twice (`NoneTwice`), each offered
  source is of a row so far (`FromRows`), and each row with a title so far is offered
  (`OfAllRows`). The last needs the other two only where an id is there already: then the
  source that has it names the same window. That there are as many beginnings of ids as
  windows is the bijection of `HeadsOfWindows`.
* `TargetFound` is the way back on macOS: another kind's prefix differs in its third token,
  and what follows the own prefix splits into as many numbers as the kind wants.

**`SequenceLemmas`.** Induction over data without a theorem that takes an operator:
of a nonempty set of numbers there is a least one (`LeastElement`, from
`WFMin` and `NatLessThanWellFounded`), so a set that contains 0 and with each number the next
one is all of the numbers (`Induction`). What has to be shown by induction is written as such
a set. `FirstInduction` and `LastInduction` are the same for sequences, which grow at their
head or at their end. `StepsTaken`, `RetainType` and `RetainKeeps` are the instances the
other modules cite most: an invariant of a recursive function over a sequence, and what
`Retain` returns and keeps. The rest is about the operators of `Texts`: what `Escape`,
`Unescape`, `SplitN`, `Words`, `Trim`, `TrimEnd`, `LinesOf` and `Joined` return for a text
made of parts.

Only model-checked:

* The liveness properties `DisconnectReleasesRole`, `StoredIsDelivered`, `StopReturns`,
  `FeedbackAnswered` and `StartIsDecided`: they need fairness, and with it `ENABLED`.
* `ReplayInOrder`: it is about two handlers that write to one connection at once, while the
  lemmas for `FirstComerInOrder` use that one handler writes all of a peer's signals.
* `SettingsSurvive`: `ValuesComeBack` is proved for each value, but the property is also about
  a fold over the lines of a file that is cut off anywhere.

## 6. Not modelled

* Operations of the session that the application does not use: `mark_mock_streaming`,
  `mark_webrtc_ready`, `create_local_offer`, `accept_remote_answer`,
  `add_remote_ice_candidate`, and the `publish_*` family; `publish_debug_capture_samples`,
  which only counts; logs, which have no effect.
* Parsing of the command line (`app.rs`), the sequential wait loop of the command
  line client (`session_flow.rs`), the UDP demonstration (`mock_media.rs`), the GUI
  test driver, examples: sequential code without state that outlives it.
* The data channel's messages, decoders, codec libraries, ScreenCaptureKit, WebRTC
  itself: libraries and I/O. Their effects on the modelled parts are choices of the
  actions, e.g. in `EncodeVideo`, `PollBackend`, `Callback`, `Native`.
* The mapping of snapshots to JSON, forms, drafts, rendering, media elements.
* A panicking thread (poisoned mutexes): the code treats it as fatal.
* The growth of the server's history: the code has no limit to state.

## 7. What is left

1. Two sessions composed with the server: with it, that a host and a viewer that
   keep refreshing become connected, and what a candidate that overtakes its answer
   costs.
2. A proof of `SettingsSurvive` for texts of any length: the conversion of each value is
   proved, the fold over the lines of a file is not.
3. A proof of `ReplayInOrder`, which needs an invariant on what the two handlers that
   write to a later comer have still to write.
