-------------------------- MODULE MediaPipelineProofs --------------------------
(***************************************************************************)
(* Theorems about MediaPipeline for every set of sources, every capacity of *)
(* the diagnostics and every number of refresh requests.                    *)
(***************************************************************************)
EXTENDS MediaPipeline, SequenceLemmas

USE MaxRequestsAssumption, NoFirAssumption

-----------------------------------------------------------------------------
(***************************************************************************)
(* Next, action by action, sorted by actor.                                 *)
(***************************************************************************)

\* What the session, the worker and the peer may do.
LEMMA ActorCases == [Next]_vars <=> Control \/ Worker \/ Peer \/ UNCHANGED vars
BY DEF Next

\* Every step of the worker is taken by a running thread: it leaves the handle,
\* the backend and the stop flag alone, and only its last one ends the thread.
LEMMA WorkerRuns ==
  ASSUME Worker
  PROVE  /\ UNCHANGED <<lifecycle, stop>>
         /\ pc \notin {"none", "finished"} /\ pc' # "none"
         /\ pc' = "finished" /\ capturing' => stopped' = "error"
<1> USE DEF NotWorkers, Break, shared, worker, transport
<1>1. CASE BackendStarts \/ BackendFails
  BY <1>1 DEF BackendStarts, BackendFails
<1>2. CASE Sample \/ PollBackend \/ PollFails
  BY <1>2 DEF Sample, PollBackend, PollFails
<1>3. CASE NextEvent \/ RejectForeign \/ Gate
  BY <1>3 DEF NextEvent, RejectForeign, Gate
<1>4. CASE EncodeVideo
  BY <1>4 DEF EncodeVideo
<1>5. CASE EncodeAudio \/ EncodeFails \/ CountRequests \/ CheckConnected
  BY <1>5 DEF EncodeAudio, EncodeFails, CountRequests, CheckConnected
<1>6. CASE Written \/ WriteFails \/ Acknowledge
  BY <1>6 DEF Written, WriteFails, Acknowledge
<1>7. CASE DropSample \/ PublishFails \/ PushEvent
  BY <1>7 DEF DropSample, PublishFails, PushEvent
<1>8. CASE StopBackend
  BY <1>8 DEF StopBackend
<1>9. QED
  BY <1>1, <1>2, <1>3, <1>4, <1>5, <1>6, <1>7, <1>8 DEF Worker

\* The peer never touches the pipeline's life cycle.
LEMMA PeerLeavesPipeline ==
  ASSUME Peer
  PROVE  /\ UNCHANGED <<lifecycle, stop, status, events, pc, capturing, stopped>>
         /\ UNCHANGED <<batch, frame, encoder, before>>
         /\ sent'.stream = sent.stream
<1> USE DEF NotWorkers, shared, worker
<1>1. CASE Connect
  BY <1>1 DEF Connect
<1>2. CASE Disconnect
  <2>1. sent' = [sent EXCEPT !.covered = keyframes.requests]
    BY <1>2 DEF Disconnect
  <2>2. sent'.stream = sent.stream
    BY <2>1
  <2>3. QED
    BY <1>2, <2>2 DEF Disconnect
<1>3. ASSUME NEW fir \in FirIds \cup {NoFir}, Feedback(fir)
      PROVE  /\ UNCHANGED <<lifecycle, stop, status, events, pc, capturing, stopped>>
             /\ UNCHANGED <<batch, frame, encoder, before>>
             /\ sent'.stream = sent.stream
  BY <1>3 DEF Feedback
<1>4. CASE CoolDown
  BY <1>4 DEF CoolDown
<1>5. QED
  BY <1>1, <1>2, <1>3, <1>4 DEF Peer

-----------------------------------------------------------------------------
(***************************************************************************)
(* Starting and stopping.                                                   *)
(***************************************************************************)

\* A thread that has ended, or been joined, left nothing capturing.
EndQuiesces == pc \in {"none", "finished"} /\ capturing => stopped = "error"

LifeCycle == WorkerOwnsBackend /\ RunningHasWorker /\ EndQuiesces

\* Every step of the three actors keeps the life cycle in order.
LEMMA LifeCycleStep == LifeCycle /\ [Next]_vars => LifeCycle'
<1> SUFFICES ASSUME LifeCycle, [Next]_vars PROVE LifeCycle'
  OBVIOUS
<1> USE DEF LifeCycle, WorkerOwnsBackend, RunningHasWorker, EndQuiesces, lifecycle
<1>1. CASE Control
  <2> USE DEF shared, worker, transport
  <2>1. ASSUME NEW cfg \in Configs, Start(cfg) PROVE LifeCycle'
    BY <2>1 DEF Start, Launch
  <2>2. ASSUME NEW next \in Configs \cup {NoConfig}, Halt(next) PROVE LifeCycle'
    BY <2>2 DEF Halt
  <2>3. CASE HaltIdle
    BY <2>3 DEF HaltIdle
  <2>4. CASE JoinFails
    BY <2>4 DEF JoinFails
  <2>5. CASE Join
    BY <2>5 DEF Join
  <2>6. CASE JoinAndStart
    BY <2>6 DEF JoinAndStart, Launch
  <2>7. CASE PollDiagnostics
    BY <2>7 DEF PollDiagnostics
  <2>8. CASE Renew
    BY <2>8 DEF Renew
  <2>9. QED
    BY <1>1, <2>1, <2>2, <2>3, <2>4, <2>5, <2>6, <2>7, <2>8 DEF Control
<1>2. CASE Worker
  BY <1>2, WorkerRuns
<1>3. CASE Peer
  BY <1>3, PeerLeavesPipeline
<1>4. CASE UNCHANGED vars
  BY <1>4 DEF vars, shared
<1>5. QED
  BY <1>1, <1>2, <1>3, <1>4, ActorCases

\* Once MediaPipelineRuntime::stop has returned nothing captures any more, the
\* backend has one owner, and no pipeline claims to run without a worker -
\* except where a backend could not be stopped or a thread not be spawned.
THEOREM StopIsComplete ==
  Spec => [](WorkerOwnsBackend /\ StopQuiesces /\ RunningHasWorker)
<1>1. Init => LifeCycle
  BY DEF Init, LifeCycle, WorkerOwnsBackend, RunningHasWorker, EndQuiesces
<1>2. LifeCycle /\ [Next]_vars => LifeCycle'
  BY LifeCycleStep
<1>3. LifeCycle => WorkerOwnsBackend /\ StopQuiesces /\ RunningHasWorker
  BY DEF LifeCycle, EndQuiesces, StopQuiesces, WorkerOwnsBackend
<1>4. QED
  BY <1>1, <1>2, <1>3, PTL DEF Spec

-----------------------------------------------------------------------------
(***************************************************************************)
(* Keyframes.                                                               *)
(***************************************************************************)

\* The types the arithmetic and the records below depend on.
Typed ==
  /\ keyframes \in Recovery /\ sent \in History
  /\ encoder \in [connected : BOOLEAN, force : BOOLEAN]
  /\ before \in 0..MaxRequests /\ connected \in BOOLEAN

\* As long as the current encoders have written no video, every frame they
\* encode is forced to be a keyframe.
Decodable ==
  /\ ~sent.stream => encoder.force
  /\ pc \in {"none", "finished"} => encoder.force
  /\ pc = "ack" => sent.stream
  /\ pc \in {"before", "check", "writing"} /\ ~sent.stream => frame \in {"key", "audio"}

\* What a keyframe under way will answer was counted before its write began.
Counted ==
  /\ sent.covered <= keyframes.requests /\ sent.begun <= keyframes.requests
  /\ pc = "check" /\ frame = "key" => before <= keyframes.requests
  /\ pc = "writing" /\ frame = "key" => before <= sent.begun
  /\ pc = "ack" /\ frame = "key" => before <= sent.covered

Recoverable == Typed /\ LifeCycle /\ Decodable /\ Counted /\ FeedbackRemembered

\* An observation either changes nothing or adds a pending request.
LEMMA ObserveType ==
  ASSUME NEW k \in Recovery, NEW fir \in FirIds \cup {NoFir}, k.requests < MaxRequests
  PROVE  /\ Observe(k, fir) \in Recovery
         /\ \/ Observe(k, fir) = k
            \/ /\ Observe(k, fir).pending = TRUE
               /\ Observe(k, fir).requests = k.requests + 1
<1>1. k.requests + 1 \in 0..MaxRequests
  BY DEF Recovery
<1>2. Observe(k, fir) \in Recovery
  <2>1. CASE fir # NoFir /\ k.lastFir = fir
    BY <2>1 DEF Observe
  <2>2. CASE fir = NoFir
    BY <1>1, <2>2 DEF Observe, Recovery
  <2>3. CASE fir # NoFir /\ k.lastFir # fir
    BY <1>1, <2>3 DEF Observe, Recovery
  <2>4. QED
    BY <2>1, <2>2, <2>3
<1>3. \/ Observe(k, fir) = k
      \/ Observe(k, fir).pending = TRUE /\ Observe(k, fir).requests = k.requests + 1
  BY DEF Observe, Recovery
<1>4. QED
  BY <1>2, <1>3

\* A published keyframe leaves exactly the later requests pending.
LEMMA PublishedType ==
  ASSUME NEW k \in Recovery, NEW n \in 0..MaxRequests
  PROVE  /\ Published(k, n) \in Recovery
         /\ Published(k, n).requests = k.requests
         /\ k.requests > n => Published(k, n).pending = TRUE
<1>1. Published(k, n) \in Recovery
  <2> DEFINE later == k.requests > n
  <2>1. later \in BOOLEAN
    BY DEF Recovery
  <2> HIDE DEF later
  <2>2. [k EXCEPT !.cooling = TRUE, !.pending = later] \in Recovery
    BY <2>1 DEF Recovery
  <2>3. QED
    BY <2>2 DEF Published, later
<1>2. Published(k, n).requests = k.requests
  BY DEF Published, Recovery
<1>3. k.requests > n => Published(k, n).pending = TRUE
  BY DEF Published, Recovery
<1>4. QED
  BY <1>1, <1>2, <1>3

\* The end of the cooldown and of a connection add no requests.
LEMMA ResetType ==
  ASSUME NEW k \in Recovery
  PROVE  /\ CooledDown(k) \in Recovery /\ ResetPending(k) \in Recovery
         /\ CooledDown(k).requests = k.requests /\ CooledDown(k).pending = k.pending
         /\ ResetPending(k).requests = k.requests
BY DEF CooledDown, ResetPending, Recovery

\* The steps of the worker that concern neither the encoders nor a write.
Aside ==
  \/ BackendFails \/ PollBackend \/ PollFails \/ NextEvent \/ RejectForeign \/ Gate
  \/ EncodeFails \/ DropSample \/ PublishFails \/ PushEvent

\* They only pass the worker on to a step that has no frame under way.
LEMMA AsideSteps ==
  ASSUME Aside
  PROVE  /\ UNCHANGED <<lifecycle, stop, encoder, connected, keyframes, sent>>
         /\ pc # "none" /\ pc # "finished"
         /\ pc' \notin {"none", "finished", "before", "check", "writing", "ack"}
         /\ before' = before \/ before' = 0
<1> USE DEF NotWorkers, Break, worker, transport, NoFrame
<1>1. CASE BackendFails \/ PollBackend \/ PollFails
  BY <1>1 DEF BackendFails, PollBackend, PollFails
<1>2. CASE NextEvent \/ RejectForeign \/ Gate
  BY <1>2 DEF NextEvent, RejectForeign, Gate
<1>3. CASE EncodeFails \/ DropSample \/ PublishFails \/ PushEvent
  BY <1>3 DEF EncodeFails, DropSample, PublishFails, PushEvent
<1>4. QED
  BY <1>1, <1>2, <1>3 DEF Aside

\* Every step of the session keeps the bookkeeping of keyframes in order.
LEMMA ControlRecoverable ==
  ASSUME Recoverable, Control
  PROVE  Typed' /\ Decodable' /\ Counted' /\ FeedbackRemembered'
<1> USE DEF Recoverable, LifeCycle, WorkerOwnsBackend, Decodable, Counted, FeedbackRemembered,
            lifecycle, worker, transport
<1>1. ASSUME UNCHANGED <<encoder, before, frame, connected, keyframes, sent>>,
             pc' = pc \/ (pc \in {"none", "finished"} /\ pc' \in {"none", "starting"})
      PROVE  Typed' /\ Decodable' /\ Counted' /\ FeedbackRemembered'
  BY <1>1 DEF Typed
<1>2. ASSUME NEW cfg \in Configs, Start(cfg)
      PROVE  Typed' /\ Decodable' /\ Counted' /\ FeedbackRemembered'
  BY <1>1, <1>2 DEF Start, Launch
<1>3. ASSUME NEW next \in Configs \cup {NoConfig}, Halt(next)
      PROVE  Typed' /\ Decodable' /\ Counted' /\ FeedbackRemembered'
  BY <1>1, <1>3 DEF Halt
<1>4. CASE HaltIdle
  BY <1>1, <1>4 DEF HaltIdle
<1>5. CASE JoinFails
  BY <1>1, <1>5 DEF JoinFails
<1>6. CASE Join
  BY <1>1, <1>6 DEF Join
<1>7. CASE JoinAndStart
  BY <1>1, <1>7 DEF JoinAndStart, Launch
<1>8. CASE PollDiagnostics
  BY <1>1, <1>8 DEF PollDiagnostics
<1>9. CASE Renew
  <2>1. /\ keyframes' = NewRecovery /\ connected' = FALSE /\ UNCHANGED <<pc, encoder, before, frame>>
        /\ sent' = [stream |-> FALSE, begun |-> 0, covered |-> 0]
        /\ ~handle
    BY <1>9 DEF Renew
  <2>2. /\ NewRecovery \in Recovery /\ keyframes'.requests = 0 /\ sent' \in History
        /\ sent'.covered = 0 /\ sent'.begun = 0 /\ sent'.stream = FALSE
    BY <2>1 DEF NewRecovery, Recovery, History
  <2>3. Typed'
    BY <2>1, <2>2 DEF Typed
  <2>4. Decodable' /\ Counted' /\ FeedbackRemembered'
    BY <2>1, <2>2
  <2>5. QED
    BY <2>3, <2>4
<1>10. QED
  BY <1>2, <1>3, <1>4, <1>5, <1>6, <1>7, <1>8, <1>9 DEF Control

\* So does every step of the worker.
LEMMA WorkerRecoverable ==
  ASSUME Recoverable, Worker
  PROVE  Typed' /\ Decodable' /\ Counted' /\ FeedbackRemembered'
<1> USE DEF Recoverable, LifeCycle, WorkerOwnsBackend, Decodable, Counted, FeedbackRemembered,
            worker, transport, Break
<1>1. CASE Aside
  BY <1>1, AsideSteps DEF Typed
<1>2. CASE BackendStarts
  BY <1>2 DEF BackendStarts, NewEncoder, Typed, History, Recovery
<1>3. CASE Sample
  <2>1. UNCHANGED <<frame, before, connected, keyframes>> /\ pc = "loop"
        /\ pc' \in {"ending", "poll"}
    BY <1>3 DEF Sample
  <2>2. CASE UNCHANGED <<encoder, sent>>
    BY <2>1, <2>2 DEF Typed
  <2>3. CASE /\ encoder' = [connected |-> connected, force |-> TRUE]
             /\ sent' = [sent EXCEPT !.stream = FALSE]
    <3>1. /\ sent' \in History /\ sent'.covered = sent.covered /\ sent'.begun = sent.begun
          /\ encoder' \in [connected : BOOLEAN, force : BOOLEAN] /\ encoder'.force = TRUE
      BY <2>3 DEF Typed, History
    <3>2. Typed'
      BY <2>1, <3>1 DEF Typed
    <3>3. Decodable' /\ Counted' /\ FeedbackRemembered'
      BY <2>1, <3>1
    <3>4. QED
      BY <3>2, <3>3
  <2>4. QED
    BY <1>3, <2>2, <2>3 DEF Sample, EncoderFor, NewEncoder
<1>4. CASE EncodeVideo
  BY <1>4 DEF EncodeVideo, Typed
<1>5. CASE EncodeAudio
  BY <1>5 DEF EncodeAudio, Typed
<1>6. CASE CountRequests
  BY <1>6 DEF CountRequests, Typed, Recovery
<1>7. CASE CheckConnected
  BY <1>7 DEF CheckConnected, Typed, History, Recovery
<1>8. CASE Written
  <2>1. UNCHANGED <<encoder, frame, before, connected, keyframes>> /\ pc = "writing"
    BY <1>8 DEF Written
  <2>2. CASE frame = "audio"
    <3>1. pc' \in {"check", "push"} /\ sent' = [sent EXCEPT !.begun = 0]
      BY <1>8, <2>2 DEF Written
    <3>2. /\ sent' \in History /\ sent'.covered = sent.covered /\ sent'.begun = 0
          /\ sent'.stream = sent.stream
      BY <3>1 DEF Typed, History
    <3>3. Typed'
      BY <2>1, <3>2 DEF Typed
    <3>4. Decodable' /\ FeedbackRemembered'
      BY <2>1, <2>2, <3>1, <3>2
    <3>5. Counted'
      BY <2>1, <2>2, <3>1, <3>2 DEF Typed, Recovery
    <3>6. QED
      BY <3>3, <3>4, <3>5
  <2>3. CASE frame # "audio"
    <3> DEFINE n == IF frame = "key" /\ sent.covered < sent.begun THEN sent.begun
                    ELSE sent.covered
    <3>1. /\ pc' = "ack"
          /\ sent' = [sent EXCEPT !.stream = TRUE, !.begun = 0, !.covered = n]
      BY <1>8, <2>3 DEF Written
    <3>2. /\ n \in 0..MaxRequests /\ n >= sent.covered /\ n <= keyframes.requests
          /\ frame = "key" => n >= sent.begun
      BY DEF Typed, History, Recovery
    <3> HIDE DEF n
    <3>3. /\ sent' \in History /\ sent'.covered = n /\ sent'.begun = 0
          /\ sent'.stream = TRUE
      <4>1. sent' = [stream |-> TRUE, begun |-> 0, covered |-> n]
        <5>1. sent \in History
          BY DEF Typed
        <5>2. QED
          BY ONLY <3>1, <5>1 DEF History
      <4>2. QED
        BY <3>2, <4>1 DEF History
    <3>4. Typed'
      BY <2>1, <3>3 DEF Typed
    <3>5. Decodable' /\ FeedbackRemembered'
      BY <2>1, <3>1, <3>2, <3>3 DEF Typed, History, Recovery
    <3>6. Counted'
      BY <2>1, <3>1, <3>2, <3>3 DEF Typed, History, Recovery
    <3>7. QED
      BY <3>4, <3>5, <3>6
  <2>4. QED
    BY <2>2, <2>3
<1>9. CASE WriteFails
  BY <1>9 DEF WriteFails, Typed, History, Recovery
<1>10. CASE Acknowledge
  <2>1. /\ UNCHANGED <<frame, before, connected, sent>> /\ pc = "ack" /\ pc' = "push"
        /\ encoder' = [encoder EXCEPT !.force = FALSE]
        /\ keyframes' = IF frame = "key" THEN Published(keyframes, before) ELSE keyframes
    BY <1>10 DEF Acknowledge
  <2>2. keyframes \in Recovery /\ before \in 0..MaxRequests /\ sent \in History
    BY DEF Typed
  <2>3. keyframes' \in Recovery /\ keyframes'.requests = keyframes.requests
    BY <2>1, <2>2, PublishedType
  <2>4. Typed'
    BY <2>1, <2>3 DEF Typed
  <2>5. Decodable' /\ Counted'
    BY <2>1, <2>3
  <2>6. FeedbackRemembered'
    <3>1. CASE frame = "key"
      <4>1. keyframes.requests > sent.covered => keyframes.requests > before
        BY <2>1, <2>2, <3>1 DEF Recovery, History
      <4>2. QED
        BY <2>1, <2>2, <2>3, <3>1, <4>1, PublishedType
    <3>2. CASE frame # "key"
      BY <2>1, <3>2
    <3>3. QED
      BY <3>1, <3>2
  <2>7. QED
    BY <2>4, <2>5, <2>6
<1>11. CASE StopBackend
  BY <1>11 DEF StopBackend, NewEncoder, Typed
<1>12. QED
  BY <1>1, <1>2, <1>3, <1>4, <1>5, <1>6, <1>7, <1>8, <1>9, <1>10, <1>11 DEF Worker, Aside

\* And every step of the peer.
LEMMA PeerRecoverable ==
  ASSUME Recoverable, Peer
  PROVE  Typed' /\ Decodable' /\ Counted' /\ FeedbackRemembered'
<1> USE DEF Recoverable, LifeCycle, WorkerOwnsBackend, Decodable, Counted, FeedbackRemembered
<1>0. UNCHANGED <<pc, frame, encoder, before>> /\ sent'.stream = sent.stream
  BY PeerLeavesPipeline
<1>1. CASE Connect
  BY <1>0, <1>1 DEF Connect, Typed
<1>2. CASE Disconnect
  <2>1. /\ keyframes' = ResetPending(keyframes) /\ connected' = FALSE
        /\ sent' = [sent EXCEPT !.covered = keyframes.requests]
    BY <1>2 DEF Disconnect
  <2>2. /\ keyframes' \in Recovery /\ keyframes'.requests = keyframes.requests
        /\ keyframes.requests \in 0..MaxRequests /\ before \in 0..MaxRequests
    BY <2>1, ResetType DEF Typed, Recovery
  <2>3. /\ sent' \in History /\ sent'.covered = keyframes.requests
        /\ sent'.begun = sent.begun
    BY <2>1, <2>2 DEF Typed, History
  <2>4. Typed'
    BY <1>0, <2>1, <2>2, <2>3 DEF Typed
  <2>5. Decodable' /\ FeedbackRemembered'
    BY <1>0, <2>2, <2>3
  <2>6. Counted'
    BY <1>0, <2>2, <2>3 DEF Typed, History
  <2>7. QED
    BY <2>4, <2>5, <2>6
<1>3. ASSUME NEW fir \in FirIds \cup {NoFir}, Feedback(fir)
      PROVE  Typed' /\ Decodable' /\ Counted' /\ FeedbackRemembered'
  <2>1. /\ keyframes' = Observe(keyframes, fir) /\ keyframes.requests < MaxRequests
        /\ UNCHANGED <<connected, sent>>
    BY <1>3 DEF Feedback
  <2>2. /\ keyframes' \in Recovery
        /\ \/ UNCHANGED keyframes
           \/ keyframes'.pending = TRUE /\ keyframes'.requests = keyframes.requests + 1
    BY <2>1, ObserveType DEF Typed
  <2>3. Typed' /\ Decodable' /\ FeedbackRemembered'
    BY <1>0, <2>1, <2>2 DEF Typed
  <2>4. Counted'
    BY <1>0, <2>1, <2>2 DEF Typed, History, Recovery
  <2>5. QED
    BY <2>3, <2>4
<1>4. CASE CoolDown
  <2>1. keyframes' = CooledDown(keyframes) /\ UNCHANGED <<connected, sent>>
    BY <1>4 DEF CoolDown
  <2>2. /\ keyframes' \in Recovery /\ keyframes'.requests = keyframes.requests
        /\ keyframes'.pending = keyframes.pending
    BY <2>1, ResetType DEF Typed
  <2>3. QED
    BY <1>0, <2>1, <2>2 DEF Typed
<1>5. QED
  BY <1>1, <1>2, <1>3, <1>4 DEF Peer

\* The invariant behind the two theorems that follow.
LEMMA RecoverableInvariant == Spec => []Recoverable
<1>1. Init => Recoverable
  <2> SUFFICES ASSUME Init PROVE Recoverable
    OBVIOUS
  <2>1. Typed
    <3>1. keyframes \in Recovery
      BY DEF Init, NewRecovery, Recovery
    <3>2. sent \in History
      BY DEF Init, History
    <3>3. encoder \in [connected : BOOLEAN, force : BOOLEAN]
      BY DEF Init, NewEncoder
    <3>4. before \in 0..MaxRequests
      BY DEF Init
    <3>5. connected \in BOOLEAN
      BY DEF Init
    <3>6. QED
      BY <3>1, <3>2, <3>3, <3>4, <3>5 DEF Typed
  <2>2. LifeCycle
    BY DEF Init, LifeCycle, WorkerOwnsBackend, RunningHasWorker, EndQuiesces
  <2>3. Decodable /\ Counted /\ FeedbackRemembered
    BY DEF Init, Decodable, Counted, FeedbackRemembered, NewRecovery, NewEncoder
  <2>4. QED
    BY <2>1, <2>2, <2>3 DEF Recoverable
<1>2. Recoverable /\ [Next]_vars => Recoverable'
  <2> SUFFICES ASSUME Recoverable, [Next]_vars PROVE Recoverable'
    OBVIOUS
  <2>0. LifeCycle'
    BY LifeCycleStep DEF Recoverable
  <2>1. CASE UNCHANGED vars
    <3>1. UNCHANGED <<pc, encoder, before, frame, connected, keyframes, sent>>
      BY <2>1 DEF vars, worker, transport
    <3>2. Typed' /\ Decodable' /\ Counted' /\ FeedbackRemembered'
      BY <3>1 DEF Recoverable, Typed, Decodable, Counted, FeedbackRemembered
    <3>3. QED
      BY <2>0, <3>2 DEF Recoverable
  <2>2. CASE Control \/ Worker \/ Peer
    <3>1. Typed' /\ Decodable' /\ Counted' /\ FeedbackRemembered'
      BY <2>2, ControlRecoverable, WorkerRecoverable, PeerRecoverable
    <3>2. QED
      BY <2>0, <3>1 DEF Recoverable
  <2>3. QED
    BY <2>1, <2>2, ActorCases
<1>3. QED
  BY <1>1, <1>2, PTL DEF Spec

\* A refresh request is answered by a keyframe whose write began later, or
\* stays pending until the connection goes (FeedbackRemembered; publish_video
\* and KeyframeRecovery::published).
THEOREM RequestsRemembered == Spec => []FeedbackRemembered
<1>1. Recoverable => FeedbackRemembered
  BY DEF Recoverable
<1>2. QED
  BY <1>1, RecoverableInvariant, PTL

\* Only a completed write of video begins the stream of the current encoders.
LEMMA FirstFrame ==
  ASSUME Recoverable, Next, ~sent.stream, sent'.stream
  PROVE  frame = "key"
<1> USE DEF transport
<1>0. sent \in History
  BY DEF Recoverable, Typed
<1>1. ASSUME sent' = sent PROVE FALSE
  BY <1>1
<1>2. ASSUME NEW n \in 0..MaxRequests, sent' = [sent EXCEPT !.begun = n] PROVE FALSE
  BY <1>0, <1>2 DEF History
<1>3. ASSUME sent' = [sent EXCEPT !.stream = FALSE] PROVE FALSE
  BY <1>0, <1>3 DEF History
<1>4. CASE Control
  <2>1. CASE Renew
    BY <2>1 DEF Renew
  <2>2. CASE ~Renew
    BY <1>1, <1>4, <2>2 DEF Control, Start, Halt, HaltIdle, JoinFails, Join,
         JoinAndStart, PollDiagnostics
  <2>3. QED
    BY <2>1, <2>2
<1>5. CASE Peer
  BY <1>5, PeerLeavesPipeline
<1>6. CASE Aside
  BY <1>1, <1>6, AsideSteps
<1>7. CASE EncodeVideo \/ EncodeAudio \/ CountRequests \/ Acknowledge \/ StopBackend
  BY <1>1, <1>7 DEF EncodeVideo, EncodeAudio, CountRequests, Acknowledge, StopBackend
<1>8. CASE BackendStarts \/ Sample
  BY <1>1, <1>3, <1>8 DEF BackendStarts, Sample
<1>9. CASE CheckConnected \/ WriteFails
  <2>1. keyframes.requests \in 0..MaxRequests /\ 0 \in 0..MaxRequests
    BY DEF Recoverable, Typed, Recovery
  <2>2. QED
    BY <1>1, <1>2, <1>9, <2>1 DEF CheckConnected, WriteFails
<1>10. CASE Written
  <2>1. CASE frame = "audio"
    <3>1. sent' = [sent EXCEPT !.begun = 0] /\ 0 \in 0..MaxRequests
      BY <1>10, <2>1 DEF Written
    <3>2. QED
      BY <1>2, <3>1
  <2>2. CASE frame # "audio"
    BY <1>10, <2>2 DEF Written, Recoverable, Decodable
  <2>3. QED
    BY <2>1, <2>2
<1>11. QED
  BY <1>4, <1>5, <1>6, <1>7, <1>8, <1>9, <1>10 DEF Next, Worker, Aside

\* Once the worker has noticed a change of the connection, the first video it
\* writes is a keyframe (StreamStartsDecodable; the encoders of run_worker and
\* force_keyframe in process_event).
THEOREM FirstFrameIsKey == Spec => StreamStartsDecodable
<1>1. Recoverable /\ [Next]_vars => [~sent.stream /\ sent'.stream => frame = "key"]_vars
  BY FirstFrame
<1>2. QED
  BY <1>1, RecoverableInvariant, PTL DEF Spec, StreamStartsDecodable
-----------------------------------------------------------------------------
(***************************************************************************)
(* The diagnostics: their types, their capacity, what they say of the end   *)
(* of a worker, and that they hold no audio nobody asked for.               *)
(***************************************************************************)
\* Shared::push puts the event last, keeps the limit and adds nothing else.
LEMMA PushType ==
  ASSUME events \in Seq(Kinds), Len(events) <= Capacity, NEW kind \in Kinds, Push(kind)
  PROVE  /\ events' \in Seq(Kinds) /\ Len(events') <= Capacity
         /\ events' # <<>> /\ events'[Len(events')] = kind
         /\ \A i \in 1..Len(events') :
              events'[i] = kind \/ \E j \in 1..Len(events) : events'[i] = events[j]
         /\ status' = StatusAfter(kind, status)
<1> DEFINE kept == Retained(kind)
           long == Append(kept, kind)
<1>1. /\ kept \in Seq(Kinds) /\ Len(kept) <= Len(events)
      /\ \A i \in 1..Len(kept) : \E j \in 1..Len(events) : kept[i] = events[j]
  <2>1. CASE kind \in Media
    <3>1. kept = Retain(events, {i \in 1..Len(events) : events[i] # kind})
      BY <2>1 DEF Retained
    <3> DEFINE others == {i \in 1..Len(events) : events[i] # kind}
    <3> HIDE DEF others
    <3>2. kept = Retain(events, others)
      BY <3>1 DEF others
    <3> HIDE DEF kept
    <3>3. /\ Retain(events, others) \in Seq(Kinds) /\ Len(Retain(events, others)) <= Len(events)
          /\ \A i \in 1..Len(Retain(events, others)) :
               \E j \in 1..Len(events) : j \in others /\ Retain(events, others)[i] = events[j]
      BY RetainType
    <3>4. QED
      BY <3>2, <3>3
  <2>2. CASE kind \notin Media
    BY <2>2 DEF Retained
  <2>3. QED
    BY <2>1, <2>2
<1>2. events' = Newest(long) /\ status' = StatusAfter(kind, status)
  BY DEF Push
<1> HIDE DEF kept
<1>3. /\ Len(kept) \in Nat /\ Len(events) \in Nat
      /\ long \in Seq(Kinds) /\ Len(long) = Len(kept) + 1
      /\ \A i \in 1..Len(kept) : long[i] = kept[i]
      /\ long[Len(kept) + 1] = kind
  BY <1>1, AppendProperties, LenProperties
<1> HIDE DEF long
<1>4. /\ Len(long) \in Nat \ {0} /\ Len(long) <= Capacity + 1 /\ long[Len(long)] = kind
      /\ Capacity \in Nat \ {0}
  BY <1>1, <1>3, CapacityAssumption
<1>5. ASSUME NEW i \in 1..Len(long)
      PROVE  long[i] = kind \/ \E j \in 1..Len(events) : long[i] = events[j]
  <2>1. i \in 1..Len(kept) \/ i = Len(kept) + 1
    BY <1>3
  <2>2. QED
    BY <1>1, <1>3, <2>1
<1>6. CASE Len(long) > Capacity
  <2>1. events' = Tail(long) /\ long # <<>>
    BY <1>2, <1>4, <1>6, EmptySeq DEF Newest
  <2>2. /\ events' \in Seq(Kinds) /\ Len(events') = Len(long) - 1
        /\ \A i \in 1..Len(events') : events'[i] = long[i + 1]
    BY <1>3, <2>1, HeadTailProperties
  <2>3. /\ Len(events') \in Nat \ {0} /\ Len(events') <= Capacity
        /\ Len(events') \in 1..Len(events') /\ Len(events') + 1 = Len(long)
    BY <1>4, <1>6, <2>2
  <2>4. events' # <<>> /\ events'[Len(events')] = kind
    BY <1>4, <2>2, <2>3, EmptySeq
  <2>5. \A i \in 1..Len(events') : i + 1 \in 1..Len(long)
    BY <1>4, <2>2
  <2>6. QED
    BY <1>2, <1>5, <2>2, <2>3, <2>4, <2>5
<1>7. CASE ~(Len(long) > Capacity)
  <2>1. events' = long
    BY <1>2, <1>7 DEF Newest
  <2>2. Len(long) <= Capacity /\ long # <<>>
    BY <1>4, <1>7, EmptySeq
  <2>3. QED
    BY <1>2, <1>3, <1>4, <1>5, <2>1, <2>2
<1>8. QED
  BY <1>6, <1>7

\* The variables that Typed leaves out.
OthersTyped ==
  /\ session \in {"idle", "joining"} /\ restart \in Configs \cup {NoConfig}
  /\ handle \in BOOLEAN /\ backend \in {"runtime", "worker", "lost"}
  /\ stop \in BOOLEAN /\ config \in Configs
  /\ status \in Statuses /\ events \in Seq(Kinds) /\ Len(events) <= Capacity
  /\ pc \in Steps /\ capturing \in BOOLEAN /\ stopped \in {"ok", "error"}
  /\ batch \in Seq(Events) /\ frame \in Frames

\* The steps of process_event, for the event at the head of the batch.
InHand == {"gate", "encode", "before", "check", "writing", "ack", "refused", "unsent", "push"}

\* process_event has an event; it encodes only what it may, and a sample is
\* under way only from its encoding to the end of process_event.
EventInHand ==
  /\ pc \in InHand => batch # <<>>
  /\ pc = "encode" => Encodes(Head(batch))
  /\ frame # "none" => pc \in InHand \ {"gate", "encode"}

\* A worker that leaves its loop by itself has said so.
EndIsTold ==
  pc \in {"ending", "finished"} /\ ~stop =>
    status \in Terminal /\ (events # <<>> => events[Len(events)] \in Terminal)

Diagnosed == OthersTyped /\ EventInHand /\ EndIsTold /\ NoUnwantedAudio

\* What Diagnosed says of the diagnostics.
Told ==
  /\ status \in Statuses /\ events \in Seq(Kinds) /\ Len(events) <= Capacity
  /\ ~config.audio => \A i \in 1..Len(events) : events[i] # "audio"

\* A failure that is pushed ends the worker visibly.
LEMMA FailureTold ==
  ASSUME Diagnosed, Push("failed"), config' = config
  PROVE  /\ Told'
         /\ status' \in Terminal /\ events'[Len(events')] \in Terminal
<1>1. "failed" \in Kinds /\ "failed" # "audio" /\ StatusAfter("failed", status) = "failed"
  BY DEF Kinds, Statuses, Terminal, StatusAfter, Media
<1>2. /\ events \in Seq(Kinds) /\ Len(events) <= Capacity
      /\ ~config.audio => \A i \in 1..Len(events) : events[i] # "audio"
  BY DEF Diagnosed, OthersTyped, NoUnwantedAudio
<1>3. /\ events' \in Seq(Kinds) /\ Len(events') <= Capacity
      /\ events' # <<>> /\ events'[Len(events')] = "failed"
      /\ \A i \in 1..Len(events') :
           events'[i] = "failed" \/ \E j \in 1..Len(events) : events'[i] = events[j]
      /\ status' = StatusAfter("failed", status)
  BY <1>1, <1>2, PushType
<1>4. status' = "failed" /\ "failed" \in Terminal /\ "failed" \in Statuses
  BY <1>1, <1>3 DEF Terminal, Statuses
<1>5. ~config'.audio => \A i \in 1..Len(events') : events'[i] # "audio"
  BY <1>1, <1>2, <1>3
<1>6. QED
  BY <1>3, <1>4, <1>5 DEF Told

\* Every step of the session keeps the diagnostics in order.
LEMMA ControlDiagnosed ==
  ASSUME LifeCycle, Diagnosed, Control
  PROVE  Diagnosed'
<1> USE DEF Diagnosed, OthersTyped, EventInHand, EndIsTold, NoUnwantedAudio, LifeCycle,
            WorkerOwnsBackend, lifecycle, shared, worker, transport, Steps, Statuses, InHand
<1>0. /\ <<>> \in Seq(Kinds) /\ Len(<<>>) = 0 /\ 0 <= Capacity /\ 1..0 = {}
      /\ <<"stopped">> \in Seq(Kinds) /\ Len(<<"stopped">>) = 1 /\ 1 <= Capacity
      /\ <<"stopped">>[1] = "stopped" /\ 1..1 = {1} /\ <<"stopped">> # <<>>
  BY CapacityAssumption, EmptySeq DEF Kinds, Statuses, Terminal
<1>1. ASSUME NEW cfg \in Configs, Start(cfg) PROVE Diagnosed'
  BY <1>0, <1>1 DEF Start, Launch
<1>2. ASSUME NEW next \in Configs \cup {NoConfig}, Halt(next) PROVE Diagnosed'
  BY <1>2 DEF Halt, Encodes
<1>3. CASE HaltIdle
  BY <1>0, <1>3 DEF HaltIdle, Terminal
<1>4. CASE JoinFails
  BY <1>4 DEF JoinFails
<1>5. CASE Join
  BY <1>0, <1>5 DEF Join, Terminal
<1>6. CASE JoinAndStart
  BY <1>0, <1>6 DEF JoinAndStart, Launch
<1>7. CASE PollDiagnostics
  BY <1>0, <1>7 DEF PollDiagnostics, Encodes
<1>8. CASE Renew
  BY <1>0, <1>8 DEF Renew, Terminal
<1>9. QED
  BY <1>1, <1>2, <1>3, <1>4, <1>5, <1>6, <1>7, <1>8 DEF Control

\* So does every step of the worker.
LEMMA WorkerDiagnosed ==
  ASSUME Recoverable, Diagnosed, Worker
  PROVE  Diagnosed'
<1> USE DEF Diagnosed, EventInHand, EndIsTold, NoUnwantedAudio, InHand,
            Break, NotWorkers, lifecycle, shared, worker, transport, NoFrame
<1>0. UNCHANGED <<session, restart, handle, backend, config, stop>>
  BY WorkerRuns DEF NotWorkers
<1>1. CASE BackendStarts
  <2>1. OthersTyped'
    BY <1>0, <1>1 DEF BackendStarts, OthersTyped, Statuses, Terminal, Steps
  <2>2. QED
    BY <1>0, <1>1, <2>1 DEF BackendStarts
<1>2. CASE BackendFails \/ PollFails \/ RejectForeign \/ PublishFails
  <2>1. /\ Push("failed") /\ pc' = "ending" /\ UNCHANGED <<capturing, stopped, batch>>
        /\ pc \notin {"before", "check", "writing", "ack", "push"}
        /\ frame' = "none"
    BY <1>2 DEF BackendFails, PollFails, RejectForeign, PublishFails
  <2>2. /\ Told' /\ status' \in Terminal /\ events'[Len(events')] \in Terminal
    BY <1>0, <2>1, FailureTold
  <2>3. OthersTyped'
    BY <1>0, <2>1, <2>2 DEF OthersTyped, Told, Steps, Frames
  <2>4. QED
    BY <2>1, <2>2, <2>3 DEF Told
<1>3. CASE Sample \/ NextEvent \/ Gate
  <2>1. UNCHANGED <<status, events, capturing, stopped, batch, frame>>
    BY <1>3 DEF Sample, NextEvent, Gate
  <2>2. OthersTyped'
    BY <1>0, <1>3, <2>1 DEF Sample, NextEvent, Gate, OthersTyped, Steps
  <2>3. QED
    BY <1>0, <1>3, <2>1, <2>2 DEF Sample, NextEvent, Gate, Stopping, Encodes
<1>4. CASE PollBackend
  <2>1. batch' \in Seq(Events)
    <3>1. PICK n \in 0..MaxBatch : batch' \in [1..n -> [kind : Delivered, source : Sources]]
      BY <1>4 DEF PollBackend
    <3>2. n \in Nat /\ batch' \in [1..n -> Events]
      BY <3>1, DeliveredAssumption, MaxBatchAssumption DEF Events
    <3>3. QED
      BY <3>2, SeqDef
  <2>2. /\ pc = "poll" /\ pc' = "next"
        /\ UNCHANGED <<status, events, capturing, stopped, frame>>
    BY <1>4 DEF PollBackend
  <2>3. OthersTyped'
    BY <1>0, <2>1, <2>2 DEF OthersTyped, Steps
  <2>4. QED
    BY <1>0, <2>2, <2>3
<1>5. CASE EncodeVideo \/ EncodeAudio
  <2>1. /\ UNCHANGED <<status, events, capturing, stopped, batch>> /\ pc = "encode"
        /\ pc' \in {"before", "check", "push"} /\ frame' \in {"none", "key", "delta", "audio"}
        /\ frame' = "audio" => Head(batch).kind = "audio"
    BY <1>5 DEF EncodeVideo, EncodeAudio
  <2>2. OthersTyped'
    BY <1>0, <2>1 DEF OthersTyped, Steps, Frames
  <2>3. frame' = "audio" => config.audio
    BY <2>1 DEF Encodes
  <2>4. QED
    BY <1>0, <2>1, <2>2, <2>3
<1>6. CASE EncodeFails \/ CountRequests \/ CheckConnected \/ Written \/ WriteFails \/ Acknowledge
  <2>1. /\ UNCHANGED <<status, events, capturing, stopped, batch, frame>>
        /\ pc \in InHand /\ pc' \in InHand \ {"gate", "encode"}
    BY <1>6 DEF EncodeFails, CountRequests, CheckConnected, Written, WriteFails, Acknowledge
  <2>2. OthersTyped'
    BY <1>0, <2>1 DEF OthersTyped, Steps
  <2>3. QED
    BY <1>0, <2>1, <2>2
<1>7. CASE DropSample
  <2>1. /\ UNCHANGED <<status, events, capturing, stopped>> /\ pc \in InHand /\ pc' = "next"
        /\ batch' = Tail(batch) /\ frame' = "none"
    BY <1>7 DEF DropSample
  <2>2. Tail(batch) \in Seq(Events)
    BY <2>1, HeadTailProperties DEF OthersTyped
  <2>3. OthersTyped'
    BY <1>0, <2>1, <2>2 DEF OthersTyped, Steps, Frames
  <2>4. QED
    BY <1>0, <2>1, <2>3
<1>8. CASE PushEvent
  <2> DEFINE kind == Head(batch).kind
  <2>1. /\ pc = "push" /\ UNCHANGED <<capturing, stopped>> /\ batch' = Tail(batch) /\ frame' = "none"
        /\ pc' = IF kind \in Terminal THEN "ending" ELSE "next"
        /\ IF kind = "audio" /\ ~config.audio THEN UNCHANGED shared ELSE Push(kind)
    BY <1>8 DEF PushEvent
  <2>2. Tail(batch) \in Seq(Events) /\ kind \in Kinds
    <3>1. batch \in Seq(Events) /\ batch # <<>>
      BY <2>1 DEF OthersTyped
    <3>2. Head(batch) \in Events /\ Tail(batch) \in Seq(Events)
      BY <3>1, HeadTailProperties
    <3>3. QED
      BY <3>2 DEF Events
  <2> HIDE DEF kind
  <2>3. Told' /\ (kind \in Terminal => status' \in Terminal /\ events'[Len(events')] \in Terminal)
    <3>0. /\ events \in Seq(Kinds) /\ Len(events) <= Capacity /\ status \in Statuses
          /\ ~config.audio => \A i \in 1..Len(events) : events[i] # "audio"
      BY DEF OthersTyped
    <3>1. CASE kind = "audio" /\ ~config.audio
      BY <1>0, <2>1, <3>0, <3>1 DEF Told, Terminal
    <3>2. CASE ~(kind = "audio" /\ ~config.audio)
      <4>1. /\ events' \in Seq(Kinds) /\ Len(events') <= Capacity
            /\ events' # <<>> /\ events'[Len(events')] = kind
            /\ \A i \in 1..Len(events') :
                 events'[i] = kind \/ \E j \in 1..Len(events) : events'[i] = events[j]
            /\ status' = StatusAfter(kind, status)
        BY <2>1, <2>2, <3>0, <3>2, PushType
      <4>2. status' \in Statuses /\ (kind \in Terminal => status' = kind)
        BY <2>2, <3>0, <4>1 DEF StatusAfter, Kinds, Media, Statuses, Terminal
      <4>3. ~config'.audio => \A i \in 1..Len(events') : events'[i] # "audio"
        BY <1>0, <3>0, <3>2, <4>1
      <4>4. QED
        BY <4>1, <4>2, <4>3 DEF Told
    <3>3. QED
      BY <3>1, <3>2
  <2>4. OthersTyped'
    BY <1>0, <2>1, <2>2, <2>3 DEF OthersTyped, Told, Steps, Frames
  <2>5. QED
    BY <1>0, <2>1, <2>3, <2>4 DEF Told
<1>9. CASE StopBackend
  <2>1. <<>> \in Seq(Events)
    BY EmptySeq
  <2>2. OthersTyped'
    BY <1>0, <1>9, <2>1 DEF StopBackend, OthersTyped, Steps
  <2>3. QED
    BY <1>0, <1>9, <2>2 DEF StopBackend
<1>10. QED
  BY <1>1, <1>2, <1>3, <1>4, <1>5, <1>6, <1>7, <1>8, <1>9 DEF Worker

\* The invariant behind the three theorems that follow.
LEMMA DiagnosedInvariant == Spec => [](Recoverable /\ Diagnosed)
<1>1. Init => Diagnosed
  <2> SUFFICES ASSUME Init PROVE Diagnosed
    OBVIOUS
  <2>1. <<>> \in Seq(Kinds) /\ <<>> \in Seq(Events) /\ Len(<<>>) = 0 /\ 0 <= Capacity
    BY EmptySeq, CapacityAssumption
  <2>2. OthersTyped
    BY <2>1 DEF Init, OthersTyped, Statuses, Terminal, Steps, Frames
  <2>3. EventInHand /\ EndIsTold /\ NoUnwantedAudio
    BY <2>1 DEF Init, EventInHand, InHand, EndIsTold, NoUnwantedAudio
  <2>4. QED
    BY <2>2, <2>3 DEF Diagnosed
<1>2. Recoverable /\ Diagnosed /\ [Next]_vars => Diagnosed'
  <2> SUFFICES ASSUME Recoverable, Diagnosed, [Next]_vars PROVE Diagnosed'
    OBVIOUS
  <2>1. CASE Peer \/ UNCHANGED vars
    <3>1. UNCHANGED <<lifecycle, stop, status, events, pc, capturing, stopped, batch, frame>>
      BY <2>1, PeerLeavesPipeline DEF vars, shared, worker
    <3>2. QED
      BY <3>1 DEF Diagnosed, OthersTyped, EventInHand, EndIsTold, NoUnwantedAudio, lifecycle,
                  Encodes
  <2>2. QED
    BY <2>1, ActorCases, ControlDiagnosed, WorkerDiagnosed DEF Recoverable
<1>3. QED
  BY <1>1, <1>2, RecoverableInvariant, PTL DEF Spec

\* Every variable keeps its type, and the diagnostics their capacity.
THEOREM TypeCorrect == Spec => []TypeOK
<1>1. Recoverable /\ Diagnosed => TypeOK
  BY DEF Recoverable, Typed, Diagnosed, OthersTyped, TypeOK
<1>2. QED
  BY <1>1, DiagnosedInvariant, PTL

\* A worker that ended by itself has left a final status and a final event.
THEOREM EndIsSeen == Spec => []EndIsVisible
<1>1. Diagnosed => EndIsVisible
  BY DEF Diagnosed, EndIsTold, EndIsVisible
<1>2. QED
  BY <1>1, DiagnosedInvariant, PTL

\* Without the opt-in no audio is encoded, published or kept.
THEOREM AudioNeedsOptIn == Spec => []NoUnwantedAudio
<1>1. Diagnosed => NoUnwantedAudio
  BY DEF Diagnosed
<1>2. QED
  BY <1>1, DiagnosedInvariant, PTL
=============================================================================
