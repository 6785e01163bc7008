------------------------------- MODULE MacCapture -------------------------------
(***************************************************************************)
(* MacCaptureRuntime and ScreenCaptureKitBridge (crates/capture-macos/src), *)
(* and the VPPCapture objects behind the bridge (native/screen_capture.m).  *)
(* One thread calls the runtime; each object lives on a serial queue of its *)
(* own, on which ScreenCaptureKit's answers, its samples and a timer arrive *)
(* in any order, also when the bridge has destroyed the object.             *)
(***************************************************************************)
EXTENDS CaptureEvents, Retain, FiniteSets

CONSTANTS
  AudioLimit,   \* audio packets kept for a poll (32 in the code)
  MaxCaptures,  \* bound: native objects
  MaxPending    \* bound: events pending when stop() is called

VARIABLES
  status, active, pending,  \* the runtime: status, active_source_id, pending_events
  batch,                    \* what poll_events() has just returned, <<>> after any other step
  handle, bridgeSource,     \* the bridge: its native object or 0, and its source_id
  object                    \* the native objects, by number

runtimeVars == <<status, active, pending>>
bridgeVars  == <<handle, bridgeSource>>
vars == <<runtimeVars, batch, bridgeVars, object>>

Captures == 1..MaxCaptures

\* at: what ScreenCaptureKit owes the object: its shareable content, the start
\* of its stream, samples, or nothing any more.  held: the object has its stream,
\* which goes on without it when it is dropped.  told: where the stream was when
\* it was last told to stop, "unused" if it never was.  A garbled packet is audio
\* with a sample that is no number.
Stages  == {"unused", "content", "starting", "capturing", "over"}
Packets == Samples \cup {"garbled", "started", "error"}
Objects ==
  [at : Stages, held : BOOLEAN, told : Stages, audio : BOOLEAN, active : BOOLEAN,
   running : BOOLEAN, timer : BOOLEAN, packets : Seq(Packets)]
Unused ==
  [at |-> "unused", held |-> FALSE, told |-> "unused", audio |-> FALSE, active |-> FALSE,
   running |-> FALSE, timer |-> FALSE, packets |-> <<>>]
NewCapture(audio) ==
  [Unused EXCEPT !.at = "content", !.audio = audio, !.active = TRUE, !.timer = TRUE]

\* MacCaptureRuntime::default
Init ==
  /\ status = "stopped" /\ active = NoSource /\ pending = <<>> /\ batch = <<>>
  /\ handle = 0 /\ bridgeSource = NoSource
  /\ object = [n \in Captures |-> Unused]
-----------------------------------------------------------------------------
(***************************************************************************)
(* The native object.                                                      *)
(***************************************************************************)
Type(packet) == IF packet = "garbled" THEN "audio" ELSE packet

\* enqueue: the newest video packet and AudioLimit audio packets are kept, and
\* every other packet survives.
Enqueue(packets, packet) ==
  LET Survives(i) ==
        \/ Type(packets[i]) # Type(packet) \/ Type(packet) \notin Samples
        \/ /\ Type(packet) = "audio"
           /\ Cardinality({j \in i..Len(packets) : Type(packets[j]) = "audio"}) < AudioLimit
  IN Append(Retain(packets, {i \in 1..Len(packets) : Survives(i)}), packet)

\* [stream stopCaptureWithCompletionHandler:nil] with whatever stream there is.
\* ScreenCaptureKit may not heed one that comes before the start has completed.
ToldToStop(o) == IF o.held THEN [o EXCEPT !.told = o.at] ELSE o

\* fail
Failed(o) ==
  IF o.active
    THEN ToldToStop([o EXCEPT !.active = FALSE, !.running = FALSE, !.packets = Enqueue(<<>>, "error")])
    ELSE o

\* vpp_sck_destroy
Destroyed(o) ==
  [ToldToStop([o EXCEPT !.active = FALSE, !.running = FALSE, !.packets = <<>>]) EXCEPT !.held = FALSE]

Becomes(n, o) ==
  object' = [object EXCEPT ![n] = o] /\ batch' = <<>> /\ UNCHANGED <<runtimeVars, bridgeVars>>

\* The shareable content arrives: the source is gone or cannot be attached, or
\* the stream is asked to start.
ContentArrives(n) ==
  LET o == object[n]
  IN /\ o.at = "content"
     /\ \/ Becomes(n, [Failed(o) EXCEPT !.at = "over"])
        \/ o.active /\ Becomes(n, [o EXCEPT !.at = "starting", !.held = TRUE])

\* Mistake: Started is queued after the samples that came before it.
FaultyRunning(o) == [o EXCEPT !.running = TRUE, !.packets = Append(@, "started")]

Running(o) == [o EXCEPT !.running = TRUE, !.packets = <<"started">> \o @]

\* Mistake: the stream of an object that was given up is left alone.
FaultyStarted(o) == IF o.active THEN Running(o) ELSE o

Started(o) == IF o.active THEN Running(o) ELSE ToldToStop(o)

\* The start may complete although the object was given up or destroyed before:
\* a stop that is sent now goes to the stream only if the object still has it.
StartCompletes(n) ==
  LET o == object[n]
  IN /\ o.at = "starting"
     /\ \/ Becomes(n, [Failed(o) EXCEPT !.at = "over"])
        \/ Becomes(n, Started([o EXCEPT !.at = "capturing"]))

\* Samples may come before the start completes; a format nobody asked for is a
\* failure, and a destroyed object takes none.
Sample(n) ==
  LET o == object[n]
  IN /\ o.at \in {"starting", "capturing"} /\ o.active
     /\ \/ \E packet \in {"video"} \cup (IF o.audio THEN {"audio", "garbled"} ELSE {}) :
             Becomes(n, [o EXCEPT !.packets = Enqueue(@, packet)])
        \/ o.audio /\ Becomes(n, Failed(o))

\* stream:didStopWithError:, or a stop that is heeded
StreamStops(n) ==
  /\ object[n].at \in {"starting", "capturing"}
  /\ Becomes(n, [Failed(object[n]) EXCEPT !.at = "over"])

\* Mistake: only an object that runs is given up.
FaultyTimedOut(o) == IF o.running THEN Failed(o) ELSE o

TimedOut(o) == IF o.running THEN o ELSE Failed(o)

TimerFires(n) ==
  /\ object[n].timer
  /\ Becomes(n, [TimedOut(object[n]) EXCEPT !.timer = FALSE])

Native(n) == ContentArrives(n) \/ StartCompletes(n) \/ Sample(n) \/ StreamStops(n)
-----------------------------------------------------------------------------
(***************************************************************************)
(* The bridge and the runtime.                                             *)
(***************************************************************************)
\* ScreenCaptureKitBridge::close
Closed == IF handle = 0 THEN object ELSE [object EXCEPT ![handle] = Destroyed(@)]

\* current_catalog and plan_runtime_start: "listed" are the sources that were
\* enumerated, "granted" is the preflight and "permitted" the answer to the
\* request the user sees when it fails.
Plan(source, listed, granted, permitted) ==
  CASE source \notin Offered(listed) -> "unavailable"
    [] source \in Offered(listed) /\ (granted \/ permitted) -> "start"
    [] source \in Offered(listed) /\ ~granted /\ ~permitted -> "blocked"

\* An id of the examples does not parse as a NativeTarget; an allocation may fail.
FailedStart(source) ==
  /\ status' = "failed" /\ pending' = <<Event("error", source)>>
  /\ handle' = 0 /\ bridgeSource' = NoSource /\ object' = Closed

Begun(source, audio) ==
  \E n \in Captures :
    /\ object[n] = Unused
    /\ \A m \in Captures : object[m] = Unused => n <= m
    /\ object' = [Closed EXCEPT ![n] = NewCapture(audio)]
    /\ handle' = n /\ bridgeSource' = source
    /\ status' = "starting" /\ pending' = <<StatusChanged(source, "starting")>>

\* start: the stream of an earlier start is stopped first.
Start(source, audio) ==
  /\ \E listed \in SUBSET NativeSources, granted, permitted \in BOOLEAN :
       LET plan == Plan(source, listed, granted, permitted)
       IN \/ plan = "unavailable" /\ FailedStart(source)
          \/ /\ plan = "blocked"
             /\ status' = "permissionrequired"
             /\ pending' = <<StatusChanged(source, "permissionrequired")>>
             /\ handle' = 0 /\ bridgeSource' = NoSource /\ object' = Closed
          \/ plan = "start" /\ FailedStart(source)
          \/ plan = "start" /\ source \in NativeSources /\ Begun(source, audio)
  /\ active' = source /\ batch' = <<>>

\* decode_event
Decoded(packet) == Event(IF packet = "garbled" THEN "error" ELSE packet, bridgeSource)

\* vpp_sck_poll
Ready(o) == IF o.active /\ ~o.running THEN <<>> ELSE o.packets

\* Mistake: an error that is not the last event is overlooked.
FaultyEndsCapture(events) == events # <<>> /\ events[Len(events)].kind = "error"

EndsCapture(events) == \E i \in DOMAIN events : events[i].kind = "error"

PollEvents ==
  LET packets == IF handle = 0 THEN <<>> ELSE Ready(object[handle])
      events  == [i \in DOMAIN packets |-> Decoded(packets[i])]
  IN /\ batch' = pending \o events
     /\ pending' = <<>>
     /\ status' = StatusAfterAll(status, batch')
     /\ CASE EndsCapture(events) -> handle' = 0 /\ object' = Closed
          [] ~EndsCapture(events) /\ packets # <<>> ->
               object' = [object EXCEPT ![handle].packets = <<>>] /\ UNCHANGED handle
          [] packets = <<>> -> UNCHANGED <<handle, object>>
     /\ UNCHANGED <<active, bridgeSource>>

Stop ==
  /\ Len(pending) < MaxPending
  /\ handle' = 0 /\ bridgeSource' = NoSource /\ object' = Closed
  /\ active' = NoSource
  /\ status' = "stopped"
  /\ pending' = Append(pending, Event("stopped", IF active # NoSource THEN active ELSE bridgeSource))
  /\ batch' = <<>>

\* The runtime is dropped, and another one is made.
Replace ==
  /\ object' = Closed
  /\ status' = "stopped" /\ active' = NoSource /\ pending' = <<>> /\ batch' = <<>>
  /\ handle' = 0 /\ bridgeSource' = NoSource

Runtime ==
  \/ \E source \in SourceIds, audio \in BOOLEAN : Start(source, audio)
  \/ PollEvents \/ Stop \/ Replace

Next == Runtime \/ \E n \in Captures : Native(n) \/ TimerFires(n)
-----------------------------------------------------------------------------
(***************************************************************************)
(* Properties.                                                             *)
(***************************************************************************)
TypeOK ==
  /\ status \in Statuses /\ active \in SourceIds \cup {NoSource}
  /\ pending \in Seq(Events) /\ batch \in Seq(Events)
  /\ handle \in {0} \cup Captures /\ bridgeSource \in SourceIds \cup {NoSource}
  /\ object \in [Captures -> Objects]
  /\ \A n \in Captures :
       Cardinality({i \in DOMAIN object[n].packets : Type(object[n].packets[i]) = "audio"})
         <= AudioLimit

\* The runtime says that it starts or runs exactly while it holds a stream.
StatusTellsTruth == status \in {"starting", "running"} <=> handle # 0

\* The exception: destroyed before its start completed, a stream was told to stop
\* then, and is out of reach when the start completes nevertheless.
StartedUnreachably(o) == o.at = "capturing" /\ o.told = "starting" /\ ~o.held

\* A stream that starts or captures belongs to the bridge, or has been told to
\* stop since it starts or captures: also when its start completes after the
\* timer has given it up, and when it is replaced.
StreamHasOwner ==
  \A n \in Captures : object[n].at \in {"starting", "capturing"} =>
    \/ handle = n /\ object[n].active
    \/ object[n].told = object[n].at
    \/ StartedUnreachably(object[n])

\* What is polled of a source follows its Started, and nothing of an earlier
\* start is among it.
SamplesFollowStart ==
  [][\A i \in DOMAIN batch' : batch'[i].kind \in Samples =>
       /\ batch'[i].source = active
       /\ \/ status = "running"
          \/ \E k \in 1..(i - 1) : batch'[k] = Event("started", active)]_batch

\* A stream that is started runs, fails or is stopped in the end, also if
\* ScreenCaptureKit never answers.
StartIsDecided == status = "starting" ~> status # "starting"
=============================================================================
