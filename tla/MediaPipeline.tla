---------------------------- MODULE MediaPipeline ----------------------------
(***************************************************************************)
(* The capture/encode/publish worker of app-core/src/media_pipeline.rs, the *)
(* TransportPublisher of transport-webrtc/src/lib.rs it publishes through,  *)
(* and the session that starts and stops it.                                *)
(*                                                                         *)
(* Four actors share state: the worker thread, the session (which holds the *)
(* session mutex for the whole of start and stop), the peer connection's    *)
(* state callback, and the task that reads RTCP feedback.  The transport's  *)
(* state sits behind a mutex that the worker takes and releases several     *)
(* times for one frame, so one such critical section is one action, and the *)
(* connection may change between any two of them.                           *)
(*                                                                         *)
(* An operator whose name begins with Faulty is the operator below it with  *)
(* a plausible mistake; it is not part of the code.                         *)
(***************************************************************************)
EXTENDS KeyframeRecovery, Retain

CONSTANTS
  Sources,      \* capture source ids
  NoConfig,     \* no restart is wanted
  Capacity,     \* how many diagnostic events are kept (64 in the code)
  OptIns,       \* bound: the audio opt-ins the user tries
  Delivered,    \* bound: the kinds of events the capture backend delivers
  MaxBatch      \* bound: events one poll of the capture backend returns

Configs == [source : Sources, audio : OptIns]

ASSUME CapacityAssumption == Capacity \in Nat \ {0}
ASSUME MaxBatchAssumption == MaxBatch \in Nat
ASSUME OptInsAssumption == OptIns \subseteq BOOLEAN
ASSUME NoConfigAssumption == NoConfig \notin Configs

\* An event that is not a sample is named for the status it brings: "running"
\* for Started, "failed" for Error, "stopped" for Stopped, and the new status
\* for StatusChanged ("blocked" is PermissionRequired or PermissionDenied; the
\* worker would not end with a StatusChanged to Stopped, but no backend sends one).
Media    == {"video", "audio"}
Terminal == {"blocked", "failed", "stopped"}
Statuses == Terminal \cup {"starting", "running"}
Kinds    == Media \cup Statuses
Events   == [kind : Kinds, source : Sources]

ASSUME DeliveredAssumption == Delivered \subseteq Kinds

\* One sample on its way to a track.
Frames == {"none", "key", "delta", "audio"}

\* Where the worker is: see the actions below.
Steps == {"none", "starting", "loop", "poll", "next", "gate", "encode", "before",
          "check", "writing", "ack", "refused", "unsent", "push", "ending", "finished"}

VARIABLES
  session,   \* "idle", or "joining" while stop() waits for the worker
  restart,   \* the config start() goes on with after the join, or NoConfig
  handle,    \* MediaPipelineRuntime::worker is Some
  backend,   \* who holds the capture backend: "runtime", "worker" or "lost"
  stop,      \* the stop flag
  config,    \* the config of the last start
  status,    \* Shared::status
  events,    \* Shared::events, as kinds
  pc,        \* where the worker is in run_worker
  capturing, \* the backend has been started and not stopped since
  stopped,   \* what the worker's backend.stop() returned: "ok" or "error"
  batch,     \* the events of the current poll not yet processed
  frame,     \* the sample process_event is publishing
  encoder,   \* Encoders: connected and force_keyframe
  before,    \* publish_video's requests_before_write
  connected, \* connection_state is "connected"
  keyframes, \* the KeyframeRecovery record
  sent       \* history of the video track, see History

shared    == <<status, events>>
lifecycle == <<session, restart, handle, backend, config>>
transport == <<connected, keyframes>>
worker    == <<batch, frame, encoder, before>>
vars == <<lifecycle, stop, shared, pc, capturing, stopped, worker, transport, sent>>

\* stream: video was written since the worker last sampled a change of the
\* connection; begun: requests counted when the write under way began; covered:
\* requests a keyframe written later answers, or a disconnection voids.
History == [stream : BOOLEAN, begun : 0..MaxRequests, covered : 0..MaxRequests]

-----------------------------------------------------------------------------
\* Mistake: an error is recorded without its status.
FaultyStatusAfter(kind, old) == IF kind \in Media \cup {"failed"} THEN old ELSE kind

StatusAfter(kind, old) == IF kind \in Media THEN old ELSE kind

\* A new sample replaces an older one of its kind.
Retained(kind) ==
  IF kind \in Media THEN Retain(events, {i \in 1..Len(events) : events[i] # kind}) ELSE events

\* Mistake: samples and statuses pile up.
FaultyNewest(q) == q

Newest(q) == IF Len(q) > Capacity THEN Tail(q) ELSE q

\* Shared::push
Push(kind) ==
  /\ status' = StatusAfter(kind, status)
  /\ events' = Newest(Append(Retained(kind), kind))

NewEncoder(conn) == [connected |-> conn, force |-> TRUE]

\* Mistake: a new connection goes on with the old encoder.
FaultyEncoderFor(e, conn) == [e EXCEPT !.connected = conn]

\* The encoders for an iteration that samples the connection as conn.
EncoderFor(e, conn) == IF conn # e.connected THEN NewEncoder(conn) ELSE e

Foreign(event) == event.source # config.source

\* Mistake: audio goes out although it was not opted in to.
FaultyEncodes(event) == event.kind \in Media

\* Does process_event encode this event once the peer is connected?
Encodes(event) == event.kind = "video" \/ (event.kind = "audio" /\ config.audio)

\* Mistake: the worker never reads the stop flag.
FaultyStopping == FALSE

Stopping == stop

\* Mistake: the worker returns at once and leaves the backend running.
FaultyBreak == "finished"

\* break 'capture
Break == "ending"

Init ==
  /\ session = "idle" /\ restart = NoConfig /\ handle = FALSE
  /\ backend = "runtime" /\ config \in Configs
  /\ stop = FALSE
  /\ status = "stopped" /\ events = <<>>
  /\ pc = "none" /\ capturing = FALSE /\ stopped = "ok"
  /\ batch = <<>> /\ frame = "none" /\ encoder = NewEncoder(FALSE) /\ before = 0
  /\ connected = FALSE /\ keyframes = NewRecovery
  /\ sent = [stream |-> FALSE, begun |-> 0, covered |-> 0]

-----------------------------------------------------------------------------
(***************************************************************************)
(* The session: MediaPipelineRuntime::start, stop and poll_events.          *)
(***************************************************************************)

\* start() once no worker is left: the thread is spawned with the backend, or
\* the backend is gone already, or spawning fails and drops the backend.
Launch(cfg) ==
  /\ config' = cfg
  /\ events' = <<>>
  /\ status' = "starting"
  /\ stop' = FALSE
  /\ \/ /\ backend = "lost"
        /\ UNCHANGED <<handle, backend, pc>>
     \/ /\ backend # "lost"
        /\ handle' = TRUE /\ backend' = "worker" /\ pc' = "starting"
     \/ /\ backend # "lost"
        /\ handle' = FALSE /\ backend' = "lost" /\ pc' = "none"

Start(cfg) ==
  /\ session = "idle" /\ ~handle
  /\ Launch(cfg)
  /\ UNCHANGED <<session, restart, capturing, stopped, worker, transport, sent>>

\* stop(), and a start() that finds a worker, raise the flag and join.
Halt(next) ==
  /\ session = "idle" /\ handle
  /\ session' = "joining"
  /\ restart' = next
  /\ stop' = TRUE
  /\ UNCHANGED <<handle, backend, config, shared, pc, capturing, stopped,
                 worker, transport, sent>>

\* stop() without a worker.
HaltIdle ==
  /\ session = "idle" /\ ~handle
  /\ stop' = TRUE
  /\ status' = "stopped" /\ events' = <<"stopped">>
  /\ UNCHANGED <<lifecycle, pc, capturing, stopped, worker, transport, sent>>

\* The worker's thread has ended and hands the backend back.  An error of its
\* backend.stop() is returned before the diagnostics are touched, and keeps
\* start() from going on.
JoinFails ==
  /\ session = "joining" /\ pc = "finished" /\ stopped = "error"
  /\ session' = "idle" /\ restart' = NoConfig
  /\ handle' = FALSE /\ backend' = "runtime" /\ pc' = "none"
  /\ UNCHANGED <<config, stop, shared, capturing, stopped, worker,
                 transport, sent>>

Join ==
  /\ session = "joining" /\ pc = "finished" /\ stopped = "ok" /\ restart = NoConfig
  /\ session' = "idle" /\ restart' = NoConfig
  /\ handle' = FALSE /\ backend' = "runtime" /\ pc' = "none"
  /\ status' = "stopped" /\ events' = <<"stopped">>
  /\ UNCHANGED <<config, stop, capturing, stopped, worker, transport, sent>>

JoinAndStart ==
  /\ session = "joining" /\ pc = "finished" /\ stopped = "ok" /\ restart # NoConfig
  /\ session' = "idle" /\ restart' = NoConfig
  /\ Launch(restart)
  /\ UNCHANGED <<capturing, stopped, worker, transport, sent>>

\* poll_events takes the diagnostic events.
PollDiagnostics ==
  /\ session = "idle" /\ events # <<>>
  /\ events' = <<>>
  /\ UNCHANGED <<lifecycle, stop, status, pc, capturing, stopped, worker,
                 transport, sent>>

\* The session drops a stopped runtime with its backend and closes the
\* transport; the next one has a new backend and a new transport.
Renew ==
  /\ session = "idle" /\ ~handle
  /\ backend' = "runtime" /\ stop' = FALSE
  /\ status' = "stopped" /\ events' = <<>>
  /\ capturing' = FALSE /\ stopped' = "ok"
  /\ connected' = FALSE /\ keyframes' = NewRecovery
  /\ sent' = [stream |-> FALSE, begun |-> 0, covered |-> 0]
  /\ UNCHANGED <<session, restart, handle, config, pc, worker>>

Control ==
  \/ \E cfg \in Configs : Start(cfg)
  \/ \E next \in Configs \cup {NoConfig} : Halt(next)
  \/ HaltIdle \/ JoinFails \/ Join \/ JoinAndStart \/ PollDiagnostics \/ Renew

-----------------------------------------------------------------------------
(***************************************************************************)
(* The worker: run_worker with process_event and publish_video/_audio.      *)
(***************************************************************************)

\* What every step of the worker leaves alone.
NotWorkers == <<lifecycle, stop>>

\* The locals of process_event go out of scope.
NoFrame == frame' = "none" /\ before' = 0

\* start() succeeds: the backend runs, starts, waits for a permission, or has
\* met a failure that it will still report among its events.
BackendStarts ==
  /\ pc = "starting"
  /\ status' \in {"starting", "running", "blocked", "failed"}
  /\ capturing' = TRUE
  /\ encoder' = NewEncoder(FALSE)
  /\ sent' = [sent EXCEPT !.stream = FALSE]
  /\ pc' = "loop"
  /\ UNCHANGED <<NotWorkers, events, stopped, batch, frame, before, transport>>

\* A failed start is reported, the backend stopped and the worker gone.
BackendFails ==
  /\ pc = "starting"
  /\ Push("failed")
  /\ pc' = Break
  /\ UNCHANGED <<NotWorkers, capturing, stopped, worker, transport, sent>>

\* The head of the loop: the stop flag, then a sample of the connection.
Sample ==
  /\ pc = "loop"
  /\ \/ Stopping /\ pc' = Break /\ UNCHANGED <<encoder, sent>>
     \/ /\ ~Stopping
        /\ encoder' = EncoderFor(encoder, connected)
        /\ sent' = IF connected # encoder.connected
                   THEN [sent EXCEPT !.stream = FALSE] ELSE sent
        /\ pc' = "poll"
  /\ UNCHANGED <<NotWorkers, shared, capturing, stopped, batch, frame, before, transport>>

\* Drain the backend; the sleep that ends an iteration is not a step.
PollBackend ==
  /\ pc = "poll"
  /\ \E n \in 0..MaxBatch : batch' \in [1..n -> [kind : Delivered, source : Sources]]
  /\ pc' = "next"
  /\ UNCHANGED <<NotWorkers, shared, capturing, stopped, frame, encoder, before,
                 transport, sent>>

PollFails ==
  /\ pc = "poll"
  /\ Push("failed")
  /\ pc' = Break
  /\ UNCHANGED <<NotWorkers, capturing, stopped, worker, transport, sent>>

\* The next event of the batch.
NextEvent ==
  /\ pc = "next"
  /\ \/ batch = <<>> /\ pc' = "loop"
     \/ batch # <<>> /\ Stopping /\ pc' = Break
     \/ batch # <<>> /\ ~Stopping /\ ~Foreign(Head(batch)) /\ pc' = "gate"
  /\ UNCHANGED <<NotWorkers, shared, capturing, stopped, worker, transport, sent>>

\* An event of another source ends the worker, connected or not.
RejectForeign ==
  /\ pc = "next" /\ batch # <<>> /\ ~Stopping /\ Foreign(Head(batch))
  /\ Push("failed")
  /\ pc' = Break
  /\ UNCHANGED <<NotWorkers, capturing, stopped, worker, transport, sent>>

\* process_event: is there a peer, and something to encode?
Gate ==
  /\ pc = "gate"
  /\ pc' = IF connected /\ Encodes(Head(batch)) THEN "encode" ELSE "push"
  /\ UNCHANGED <<NotWorkers, shared, capturing, stopped, worker, transport, sent>>

\* A new encoder starts with a keyframe, and a forced frame is one; an encoder
\* may also drop the frame, or choose a keyframe by itself.
EncodeVideo ==
  /\ pc = "encode" /\ Head(batch).kind = "video"
  /\ LET forced == encoder.force \/ (connected /\ ShouldForce(keyframes)) IN
     \E f \in IF forced THEN {"none", "key"} ELSE {"none", "key", "delta"} :
       /\ frame' = f
       /\ pc' = IF f = "none" THEN "push" ELSE "before"
  /\ UNCHANGED <<NotWorkers, shared, capturing, stopped, batch, encoder, before,
                 transport, sent>>

\* An audio buffer fills any number of packets; each is written in turn.
EncodeAudio ==
  /\ pc = "encode" /\ Head(batch).kind = "audio"
  /\ frame' = "audio"
  /\ pc' \in {"check", "push"}
  /\ UNCHANGED <<NotWorkers, shared, capturing, stopped, batch, encoder, before,
                 transport, sent>>

EncodeFails ==
  /\ pc = "encode"
  /\ pc' = "unsent"
  /\ UNCHANGED <<NotWorkers, shared, capturing, stopped, worker, transport, sent>>

\* publish_video counts the requests before the write.
CountRequests ==
  /\ pc = "before"
  /\ before' = keyframes.requests
  /\ pc' = "check"
  /\ UNCHANGED <<NotWorkers, shared, capturing, stopped, batch, frame, encoder,
                 transport, sent>>

\* write() asks again for the connection.
CheckConnected ==
  /\ pc = "check"
  /\ IF connected
     THEN pc' = "writing" /\ sent' = [sent EXCEPT !.begun = keyframes.requests]
     ELSE pc' = "refused" /\ UNCHANGED sent
  /\ UNCHANGED <<NotWorkers, shared, capturing, stopped, worker, transport>>

Written ==
  /\ pc = "writing"
  /\ pc' \in IF frame = "audio" THEN {"check", "push"} ELSE {"ack"}
  /\ sent' = IF frame = "audio" THEN [sent EXCEPT !.begun = 0]
             ELSE [sent EXCEPT !.stream = TRUE, !.begun = 0,
                     !.covered = IF frame = "key" /\ @ < sent.begun THEN sent.begun ELSE @]
  /\ UNCHANGED <<NotWorkers, shared, capturing, stopped, worker, transport>>

\* The track refuses the sample, or 200 ms pass.
WriteFails ==
  /\ pc = "writing"
  /\ pc' = "unsent"
  /\ sent' = [sent EXCEPT !.begun = 0]
  /\ UNCHANGED <<NotWorkers, shared, capturing, stopped, worker, transport>>

\* The bookkeeping of publish_video and process_event after the write.  The code
\* keeps force_keyframe when a forced frame is no keyframe; the encoder is taken
\* at its word that a forced frame is one, so that it ends with the write.
Acknowledge ==
  /\ pc = "ack"
  /\ keyframes' = IF frame = "key" THEN Published(keyframes, before) ELSE keyframes
  /\ encoder' = [encoder EXCEPT !.force = FALSE]
  /\ pc' = "push"
  /\ UNCHANGED <<NotWorkers, shared, capturing, stopped, batch, frame, before,
                 connected, sent>>

\* process_event failed: without a peer the sample is dropped.
DropSample ==
  /\ pc \in {"refused", "unsent"} /\ ~connected
  /\ batch' = Tail(batch) /\ NoFrame
  /\ pc' = "next"
  /\ UNCHANGED <<NotWorkers, shared, capturing, stopped, encoder, transport, sent>>

\* With a peer the failure ends the worker.
PublishFails ==
  /\ pc \in {"refused", "unsent"} /\ connected
  /\ Push("failed") /\ NoFrame
  /\ pc' = Break
  /\ UNCHANGED <<NotWorkers, capturing, stopped, batch, encoder, transport, sent>>

\* The event itself goes to the diagnostics, audio only if opted in to.
PushEvent ==
  LET kind == Head(batch).kind IN
  /\ pc = "push"
  /\ batch' = Tail(batch) /\ NoFrame
  /\ IF kind = "audio" /\ ~config.audio THEN UNCHANGED shared ELSE Push(kind)
  /\ pc' = IF kind \in Terminal THEN Break ELSE "next"
  /\ UNCHANGED <<NotWorkers, capturing, stopped, encoder, transport, sent>>

\* backend.stop() and the end of the thread; if it fails the backend may go on.
StopBackend ==
  /\ pc = "ending"
  /\ \/ stopped' = "ok" /\ capturing' = FALSE
     \/ stopped' = "error" /\ capturing' \in {FALSE, capturing}
  /\ pc' = "finished"
  /\ batch' = <<>> /\ encoder' = NewEncoder(FALSE)
  /\ UNCHANGED <<NotWorkers, shared, frame, before, transport, sent>>

Worker ==
  \/ BackendStarts \/ BackendFails \/ Sample \/ PollBackend \/ PollFails
  \/ NextEvent \/ RejectForeign \/ Gate \/ EncodeVideo \/ EncodeAudio \/ EncodeFails
  \/ CountRequests \/ CheckConnected \/ Written \/ WriteFails \/ Acknowledge
  \/ DropSample \/ PublishFails \/ PushEvent \/ StopBackend

-----------------------------------------------------------------------------
(***************************************************************************)
(* The peer connection and its feedback.                                    *)
(***************************************************************************)

Connect ==
  /\ ~connected
  /\ connected' = TRUE
  /\ UNCHANGED <<NotWorkers, shared, pc, capturing, stopped, worker, keyframes, sent>>

\* Any other state of the connection, also after another such, or close().
Disconnect ==
  /\ connected' = FALSE
  /\ keyframes' = ResetPending(keyframes)
  /\ sent' = [sent EXCEPT !.covered = keyframes.requests]
  /\ UNCHANGED <<NotWorkers, shared, pc, capturing, stopped, worker>>

\* The RTCP reader passes feedback on while the peer is connected.
Feedback(fir) ==
  /\ connected /\ keyframes.requests < MaxRequests
  /\ keyframes' = Observe(keyframes, fir)
  /\ UNCHANGED <<NotWorkers, shared, pc, capturing, stopped, worker, connected, sent>>

\* 500 ms have passed since the last published keyframe.
CoolDown ==
  /\ keyframes.cooling
  /\ keyframes' = CooledDown(keyframes)
  /\ UNCHANGED <<NotWorkers, shared, pc, capturing, stopped, worker, connected, sent>>

Peer == Connect \/ Disconnect \/ (\E fir \in FirIds \cup {NoFir} : Feedback(fir)) \/ CoolDown

Next == Control \/ Worker \/ Peer

Spec == Init /\ [][Next]_vars

\* stop() returns if the worker's thread runs and its calls return.  An audio
\* buffer has finitely many packets; a write ends after 200 ms.
FairSpec ==
  /\ Spec
  /\ WF_vars(Worker) /\ SF_vars(Written /\ pc' = "push")
  /\ WF_vars(JoinFails \/ Join \/ JoinAndStart)

-----------------------------------------------------------------------------
(***************************************************************************)
(* Properties.                                                              *)
(***************************************************************************)

\* The types of the variables; the diagnostics never outgrow their capacity.
TypeOK ==
  /\ session \in {"idle", "joining"} /\ restart \in Configs \cup {NoConfig}
  /\ handle \in BOOLEAN /\ backend \in {"runtime", "worker", "lost"}
  /\ stop \in BOOLEAN /\ config \in Configs
  /\ status \in Statuses /\ events \in Seq(Kinds) /\ Len(events) <= Capacity
  /\ pc \in Steps /\ capturing \in BOOLEAN /\ stopped \in {"ok", "error"}
  /\ batch \in Seq(Events) /\ frame \in Frames
  /\ encoder \in [connected : BOOLEAN, force : BOOLEAN]
  /\ before \in 0..MaxRequests
  /\ connected \in BOOLEAN /\ keyframes \in Recovery /\ sent \in History

\* The thread, its handle and the backend go together: while a worker exists
\* the runtime has its handle and not the backend, and the flag is raised as
\* long as the session waits for it.
WorkerOwnsBackend ==
  /\ handle <=> pc # "none"
  /\ handle <=> backend = "worker"
  /\ session = "joining" => handle /\ stop

\* Once stop() has returned nothing captures any more, unless the backend said
\* that it could not be stopped.
StopQuiesces == ~handle /\ capturing => stopped = "error"

\* A worker that ends by itself says so: the status is final, and the final
\* event is the newest diagnostic or has been polled.
EndIsVisible ==
  pc = "finished" /\ ~stop =>
    status \in Terminal /\ (events = <<>> \/ events[Len(events)] \in Terminal)

\* A pipeline that claims to be starting or running has a worker, unless its
\* backend was lost with a failed spawn or could not be stopped.
RunningHasWorker ==
  status \in {"starting", "running"} /\ ~handle => backend = "lost" \/ stopped = "error"

\* Without the opt-in no audio is published, and the diagnostics hold no sample
\* from a capture that had it.
NoUnwantedAudio ==
  ~config.audio => frame # "audio" /\ \A i \in 1..Len(events) : events[i] # "audio"

\* A refresh request that no keyframe written since has answered stays pending,
\* also when it arrives during the write of a keyframe.
FeedbackRemembered == keyframes.requests > sent.covered => keyframes.pending

\* Whenever the worker has noticed a change of the connection, the first video
\* it writes can be decoded by itself.
StreamStartsDecodable == [][~sent.stream /\ sent'.stream => frame = "key"]_vars

\* stop(), and the join in start(), return.
StopReturns == session = "joining" ~> session = "idle"

\* The source keeps delivering video, the encoder does not drop every frame, and
\* time passes.
VideoFlows ==
  /\ SF_vars(PollBackend /\ batch' # <<>>
               /\ Head(batch') = [kind |-> "video", source |-> config.source])
  /\ SF_vars(EncodeVideo /\ frame' # "none")
  /\ WF_vars(CoolDown)

\* While video flows, a pending request is answered, or the peer or the worker
\* goes: neither the cooldown nor later requests starve it.
FeedbackAnswered ==
  VideoFlows =>
    (keyframes.pending /\ connected ~>
       ~keyframes.pending \/ ~connected \/ pc \in {"none", "ending", "finished"})

\* "A concurrent disconnect drops this sample" (media_pipeline.rs:196): a sample
\* refused for want of a peer does not end the worker.
RefusedSampleIsDropped == [][pc = "refused" => pc' # "ending"]_vars
=============================================================================
