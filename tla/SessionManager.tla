---------------------------- MODULE SessionManager ----------------------------
(***************************************************************************)
(* SessionManager of crates/app-core/src/session.rs for a host and for a    *)
(* viewer with a native transport, with the capture catalog and selection,  *)
(* the preferences file, the WebRTC transport and the signaling connection  *)
(* it owns.  (A viewer that plays in the WebView is ViewerPlayback.)        *)
(*                                                                         *)
(* A command of the application runs under one mutex.  It is a list of      *)
(* steps, "todo"; the next command waits until the list is worked off,      *)
(* while the server, the peer connection's callbacks and the capture worker *)
(* go on between any two steps, and the process may end.  A step that       *)
(* receives signals leaves them in "events", one that has signals to send   *)
(* leaves them in "outbox", and both are emptied before the next step.      *)
(*                                                                         *)
(* An operator whose name begins with Faulty is the operator below it with  *)
(* a plausible mistake; it is not part of the code.                         *)
(***************************************************************************)
EXTENDS PeerTransport, SignalingClient

CONSTANTS
  Sources,      \* capture source ids
  NoSource,     \* no source
  HasAudio,     \* the sources that can be captured with audio
  Truncated,    \* per source, the ids a beginning of its id may read as
  Observations, \* what source discovery may find: records of Catalogs
  Commands,     \* bound: the commands the user gives
  PeerStates,   \* bound: the states the peer connection reports
  MaxTransports \* bound: transports of one run of the process

Selections == [source : Sources, audio : BOOLEAN]
NoSelection == [source |-> NoSource, audio |-> FALSE]
Catalogs ==
  [origin : {"runtime", "cachedruntime", "fallback"}, granted : BOOLEAN, sources : Seq(Sources)]

\* What the application asks of the session.
CommandNames ==
  {"start_host", "start_viewer", "start_local_demo", "capture_catalog", "select",
   "update_config", "update_ui", "refresh", "start_capture", "poll_capture",
   "stop_capture", "stop", "reset", "reconnect"}

ASSUME CommandsAssumption == Commands \subseteq CommandNames
ASSUME NoSourceAssumption == NoSource \notin Sources
ASSUME HasAudioAssumption == HasAudio \subseteq Sources
ASSUME TruncatedAssumption == Truncated \in [Sources -> SUBSET Sources]
ASSUME ObservationsAssumption == Observations \subseteq Catalogs /\ Observations # {}
ASSUME PeerStatesAssumption == PeerStates \subseteq ConnectionStates
ASSUME MaxTransportsAssumption == MaxTransports \in Nat

NoTransport == NewTransport(0, "host")

\* capture_runtime: what it was last started for, the transport whose publisher
\* it holds (0: no runtime), whether its worker runs, and whether its
\* diagnostics hold a frame or buffer nobody has polled.
NoCapture == [selection |-> NoSelection, transport |-> 0, running |-> FALSE, frame |-> FALSE]

VARIABLES
  todo,       \* the steps left of the running command
  events,     \* signaling events polled and not handled yet
  outbox,     \* signals about to be sent
  mode,       \* "idle", "host" or "viewer"
  stage,      \* SessionStage
  link,       \* SessionTransport: "mock" or "live"
  catalog,    \* capture_catalog
  selection,  \* capture_selection
  capture,    \* capture_runtime
  counted,    \* the source whose frames the captured counters count, or NoSource
  webrtc,     \* the transport, or NoTransport
  made,       \* how many transports this process has made
  client,     \* the signaling connection
  up,         \* signaling_connected
  sent,       \* the signals sent on behalf of the current transport
  file,       \* the selection load() would find in the preferences
  optedIn     \* the selections with audio that were ever saved

taskVars    == <<todo, events, outbox>>
stageVars   == <<mode, stage, link>>
captureVars == <<catalog, selection, capture, counted>>
peerVars    == <<webrtc, made, client, up, sent>>
fileVars    == <<file, optedIn>>
vars == <<taskVars, stageVars, captureVars, peerVars, fileVars>>

\* What a transport has to say: its description, and its candidates by number.
Description == 0
Signals == {Description} \cup (1..MaxCandidates)
Stages  == {"idle", "configured", "awaiting", "mock", "negotiating", "live", "stopped"}

\* The commands, as the steps they take in the order of the code.
StartHost       == <<"sync", "default", "host", "transport", "connect", "poll", "offer">>
StartViewer     == <<"sync", "viewer", "transport", "connect", "poll">>
StartLocalDemo  == <<"sync", "default", "demo">>
CaptureCatalog  == <<"sync">>
SelectSource    == <<"sync", "select">>
UpdateConfig    == <<"save">>
UpdateUi        == <<"save">>
Refresh         == <<"sync", "poll", "capture", "offer", "drain", "stage">>
StartStream     == <<"sync", "start">>
PollStream      == <<"capture">>
StopStream      == <<"halt">>
StopSession     == <<"stop">>
ResetSession    == <<"disconnect", "reset">>
Reconnect ==
  CASE mode = "host"   -> <<"disconnect">> \o StartHost
    [] mode = "viewer" -> <<"disconnect">> \o StartViewer
    [] mode = "idle"   -> <<>>

Script(command) ==
  CASE command = "start_host"       -> StartHost
    [] command = "start_viewer"     -> StartViewer
    [] command = "start_local_demo" -> StartLocalDemo
    [] command = "capture_catalog"  -> CaptureCatalog
    [] command = "select"           -> SelectSource
    [] command = "update_config"    -> UpdateConfig
    [] command = "update_ui"        -> UpdateUi
    [] command = "refresh"          -> Refresh
    [] command = "start_capture"    -> StartStream
    [] command = "poll_capture"     -> PollStream
    [] command = "stop_capture"     -> StopStream
    [] command = "stop"             -> StopSession
    [] command = "reset"            -> ResetSession
    [] command = "reconnect"        -> Reconnect

Steps == {"sync", "default", "host", "viewer", "demo", "transport", "connect", "poll",
          "offer", "drain", "stage", "select", "save", "write", "start", "capture",
          "halt", "stop", "disconnect", "reset"}

Free == todo = <<>> /\ events = <<>> /\ outbox = <<>>

\* Steps in the middle of a command wait for its signals to be worked off, but
\* for the drain that belongs to the handling of one event.
At(step) ==
  todo # <<>> /\ Head(todo) = step /\ outbox = <<>> /\ (step = "drain" \/ events = <<>>)
Done == todo' = Tail(todo)

Init ==
  /\ todo = <<>> /\ events = <<>> /\ outbox = <<>>
  /\ mode = "idle" /\ stage = "idle" /\ link = "mock"
  /\ catalog \in Observations
  /\ selection = NoSelection /\ capture = NoCapture /\ counted = NoSource
  /\ webrtc = NoTransport /\ made = 0 /\ client = NoClient /\ up = FALSE /\ sent = {}
  /\ file = NoSelection /\ optedIn = {}

Command(command) ==
  /\ Free
  /\ Script(command) # <<>>
  /\ todo' = Script(command)
  /\ UNCHANGED <<events, outbox, stageVars, captureVars, peerVars, fileVars>>
-----------------------------------------------------------------------------
\* persist_preferences: saving truncates the file and then writes it, line by
\* line; it may fail before either.  The line with the audio opt-in follows the
\* one with the source, and both are one of the last.
Save(kept, rest) ==
  \/ /\ todo' = <<"write">> \o rest
     /\ file' = kept
     /\ optedIn' = IF kept.audio THEN optedIn \cup {kept} ELSE optedIn
  \/ /\ todo' = rest /\ UNCHANGED fileVars

\* What load() may make of a beginning of the file.
FaultyTorn(kept) ==
  {NoSelection, kept}
    \cup (IF kept = NoSelection THEN {}
          ELSE [source : Truncated[kept.source], audio : {kept.audio}])

Torn(kept) ==
  {NoSelection, kept}
    \cup (IF kept = NoSelection THEN {}
          ELSE [source : Truncated[kept.source] \cup {kept.source}, audio : {FALSE}])

Write ==
  /\ At("write") /\ Done
  /\ file' \in {file} \cup Torn(file)
  /\ UNCHANGED <<events, outbox, stageVars, captureVars, peerVars, optedIn>>

Configuration ==
  /\ At("save")
  /\ Save(selection, Tail(todo))
  /\ UNCHANGED <<events, outbox, stageVars, captureVars, peerVars>>
-----------------------------------------------------------------------------
(***************************************************************************)
(* The capture catalog and the selection.                                  *)
(***************************************************************************)
Offered(list) == {list[i] : i \in DOMAIN list}

First(list, audio) ==
  IF list = <<>> THEN NoSelection
  ELSE [source |-> Head(list), audio |-> audio /\ Head(list) \in HasAudio]

Cached(observed) ==
  catalog.origin \in {"runtime", "cachedruntime"} /\ observed.origin # "runtime"

Merged(observed) ==
  IF Cached(observed)
    THEN [observed EXCEPT !.origin = "cachedruntime", !.sources = catalog.sources]
    ELSE observed

\* Mistakes: a selection that is gone stays; a rebound one takes the default audio.
FaultyKept(sources) ==
  IF selection = NoSelection /\ mode = "host" THEN First(sources, TRUE) ELSE selection

FaultyRebound(sources) ==
  CASE selection.source \in Offered(sources) -> selection
    [] selection.source \notin Offered(sources) /\ mode # "host" -> NoSelection
    [] selection.source \notin Offered(sources) /\ mode = "host" -> First(sources, TRUE)

Rebound(sources) ==
  CASE selection.source \in Offered(sources) -> selection
    [] selection.source \notin Offered(sources) /\ mode # "host" -> NoSelection
    [] selection = NoSelection /\ mode = "host" -> First(sources, TRUE)
    [] selection # NoSelection /\ selection.source \notin Offered(sources) /\ mode = "host" ->
         First(sources, selection.audio)

\* Mistake: the capture of a source that is gone goes on.
FaultyLosesCapture(observed) == Cached(observed) /\ ~observed.granted

LosesCapture(observed) ==
  \/ Cached(observed) /\ ~observed.granted
  \/ selection # NoSelection /\ selection.source \notin Offered(Merged(observed).sources)

Sync ==
  /\ At("sync")
  /\ \E observed \in Observations :
       /\ catalog' = Merged(observed)
       /\ selection' = Rebound(Merged(observed).sources)
       /\ capture' = IF LosesCapture(observed) THEN NoCapture ELSE capture
       /\ counted' = IF LosesCapture(observed) THEN NoSource ELSE counted
  /\ IF selection' # selection THEN Save(selection', Tail(todo))
                               ELSE Done /\ UNCHANGED fileVars
  /\ UNCHANGED <<events, outbox, stageVars, peerVars>>

\* ensure_default_host_capture_selection, as start_host calls it.
Default ==
  /\ At("default") /\ Done
  /\ selection' = IF selection = NoSelection THEN First(catalog.sources, TRUE) ELSE selection
  /\ UNCHANGED <<events, outbox, stageVars, catalog, capture, counted, peerVars, fileVars>>

\* select_capture_source, with what the user picked in a list that may be old.
Select ==
  /\ At("select")
  /\ \E source \in Sources, audio \in BOOLEAN :
       LET picked == [source |-> source, audio |-> audio /\ source \in HasAudio]
       IN IF source \in Offered(catalog.sources)
            THEN /\ selection' = picked
                 /\ capture' = IF picked = selection THEN capture ELSE NoCapture
                 /\ counted' = IF picked = selection THEN counted ELSE NoSource
                 /\ Save(picked, Tail(todo))
            ELSE Done /\ UNCHANGED <<selection, capture, counted, fileVars>>
  /\ UNCHANGED <<events, outbox, stageVars, catalog, peerVars>>
-----------------------------------------------------------------------------
(***************************************************************************)
(* The capture runtime.  Its worker is MediaPipeline; what the session      *)
(* relies on is that nothing captures after stop() has returned.            *)
(***************************************************************************)
MayPublish(source) ==
  mode = "host" /\ stage # "stopped" /\ selection # NoSelection /\ selection.source = source

\* poll_capture_runtime_events
Counted ==
  IF capture.frame /\ MayPublish(capture.selection.source)
    THEN capture.selection.source ELSE counted

PollCapture ==
  /\ At("capture") /\ Done
  /\ counted' = Counted
  /\ capture' = [capture EXCEPT !.frame = FALSE]
  /\ UNCHANGED <<events, outbox, stageVars, catalog, selection, peerVars, fileVars>>

\* start_capture_stream gives up without a host session, a selection or, for a
\* new runtime, a transport with tracks; starting may fail.
CanStart ==
  /\ MayPublish(selection.source)
  /\ capture.transport # 0 \/ (webrtc # NoTransport /\ CanPublish(webrtc))

StartCapture ==
  /\ At("start")
  /\ IF CanStart
       THEN \E started \in BOOLEAN :
              /\ capture' = [capture EXCEPT !.selection = selection, !.running = started,
                               !.transport = IF @ = 0 THEN webrtc.id ELSE @]
              /\ counted' = IF started THEN NoSource ELSE counted
              /\ todo' = <<"capture">> \o Tail(todo)
       ELSE Done /\ UNCHANGED <<capture, counted>>
  /\ UNCHANGED <<events, outbox, stageVars, catalog, selection, peerVars, fileVars>>

\* stop_capture_stream keeps the runtime; when stopping fails it polls nothing.
Halt ==
  /\ At("halt")
  /\ Done \/ todo' = <<"capture">> \o Tail(todo)
  /\ capture' = [capture EXCEPT !.running = FALSE]
  /\ UNCHANGED <<events, outbox, stageVars, catalog, selection, counted, peerVars, fileVars>>

\* The worker delivers, and ends by itself.
Frame ==
  /\ capture.running /\ ~capture.frame
  /\ capture' = [capture EXCEPT !.frame = TRUE]
  /\ UNCHANGED <<taskVars, stageVars, catalog, selection, counted, peerVars, fileVars>>

WorkerEnds ==
  /\ capture.running
  /\ capture' = [capture EXCEPT !.running = FALSE]
  /\ UNCHANGED <<taskVars, stageVars, catalog, selection, counted, peerVars, fileVars>>
-----------------------------------------------------------------------------
(***************************************************************************)
(* Sessions begin and end.                                                 *)
(***************************************************************************)
\* Mistake: the capture goes on while the transport is closed.
FaultyDisconnected ==
  /\ counted' = Counted
  /\ webrtc' \in {webrtc} \cup (IF webrtc = NoTransport THEN {} ELSE {Closed(webrtc)})
  /\ client' = NoClient /\ up' = FALSE
  /\ UNCHANGED <<capture, made, sent>>

\* disconnect_active_session; closing the transport may fail.
Disconnected ==
  /\ capture' = NoCapture
  /\ counted' = Counted
  /\ webrtc' \in {webrtc} \cup (IF webrtc = NoTransport THEN {} ELSE {Closed(webrtc)})
  /\ client' = NoClient /\ up' = FALSE
  /\ UNCHANGED <<made, sent>>

Disconnect ==
  /\ At("disconnect") /\ Done
  /\ Disconnected
  /\ UNCHANGED <<events, outbox, stageVars, catalog, selection, fileVars>>

Stop ==
  /\ At("stop") /\ Done
  /\ Disconnected
  /\ stage' = "stopped"
  /\ UNCHANGED <<events, outbox, mode, link, catalog, selection, fileVars>>

\* replace_state, for start_host, start_viewer and start_local_demo.
Replace(step, newMode, newStage, newLink) ==
  /\ At(step) /\ Done
  /\ mode' = newMode /\ stage' = newStage /\ link' = newLink
  /\ capture' = NoCapture /\ counted' = NoSource
  /\ webrtc' = NoTransport /\ client' = NoClient /\ up' = FALSE /\ sent' = {}
  /\ UNCHANGED <<events, outbox, catalog, selection, made, fileVars>>

\* reset: the default state, with the catalog observed anew and the file loaded.
Reset ==
  /\ At("reset") /\ Done
  /\ mode' = "idle" /\ stage' = "idle" /\ link' = "mock"
  /\ catalog' \in Observations
  /\ selection' = file /\ capture' = NoCapture /\ counted' = NoSource
  /\ webrtc' = NoTransport /\ client' = NoClient /\ up' = FALSE /\ sent' = {}
  /\ UNCHANGED <<events, outbox, made, fileVars>>

\* The process ends, at any point, and is started again.
Restart ==
  /\ todo' = <<>> /\ events' = <<>> /\ outbox' = <<>>
  /\ mode' = "idle" /\ stage' = "idle" /\ link' = "mock"
  /\ catalog' \in Observations
  /\ file' \in IF todo # <<>> /\ Head(todo) = "write" THEN Torn(file) ELSE {file}
  /\ selection' = file' /\ capture' = NoCapture /\ counted' = NoSource
  /\ webrtc' = NoTransport /\ made' = 0 /\ client' = NoClient /\ up' = FALSE /\ sent' = {}
  /\ UNCHANGED optedIn

\* initialize_transport
Transport ==
  /\ At("transport") /\ Done
  /\ \/ /\ made < MaxTransports
        /\ webrtc' = NewTransport(made + 1, mode)
        /\ made' = made + 1
     \/ UNCHANGED <<webrtc, made>>
  /\ UNCHANGED <<events, outbox, stageVars, captureVars, client, up, sent, fileVars>>

\* connect_signaling
Connect ==
  /\ At("connect") /\ Done
  /\ \E connected \in BOOLEAN :
       /\ client' = IF connected THEN NewClient ELSE NoClient
       /\ up' = connected
  /\ UNCHANGED <<events, outbox, stageVars, captureVars, webrtc, made, sent, fileVars>>
-----------------------------------------------------------------------------
(***************************************************************************)
(* Negotiation.                                                            *)
(***************************************************************************)
\* process_signaling_events
Poll ==
  /\ At("poll") /\ Done
  /\ IF Connected(client) /\ ~PollFails(client)
       THEN events' = client.arrived /\ client' = Polled(client) /\ UNCHANGED up
       ELSE client' = NoClient /\ up' = FALSE /\ UNCHANGED events
  /\ UNCHANGED <<outbox, stageVars, captureVars, webrtc, made, sent, fileVars>>

NextEvent(line) ==
  /\ events # <<>> /\ outbox = <<>> /\ ~At("drain")
  /\ Head(events) = line
  /\ events' = Tail(events)
  /\ UNCHANGED <<mode, link, captureVars, made, client, up, sent, fileVars>>

HandleWaiting ==
  /\ NextEvent("waiting")
  /\ UNCHANGED <<todo, outbox, stage, webrtc>>

\* handle_peer_announcement
HandlePeer ==
  /\ NextEvent("peer")
  /\ stage' = "negotiating"
  /\ UNCHANGED <<todo, outbox, webrtc>>

\* The transport may refuse what it could accept: the text may be malformed.
Refused == UNCHANGED <<todo, outbox, stage, webrtc>>

\* The answer goes out, and whatever candidates there are by then.
HandleOffer ==
  /\ NextEvent("offer")
  /\ \/ /\ webrtc # NoTransport /\ CanAcceptOffer(webrtc)
        /\ webrtc' = WithRemoteOffer(webrtc)
        /\ stage' = "negotiating"
        /\ outbox' = <<Description>> /\ todo' = <<"drain">> \o todo
     \/ Refused

HandleAnswer ==
  /\ NextEvent("answer")
  /\ \/ /\ webrtc # NoTransport /\ CanAcceptAnswer(webrtc)
        /\ webrtc' = WithRemoteAnswer(webrtc)
        /\ stage' = "negotiating"
        /\ UNCHANGED <<todo, outbox>>
     \/ Refused

HandleCandidate ==
  /\ NextEvent("candidate")
  /\ \/ /\ webrtc # NoTransport /\ CanAddCandidate(webrtc)
        /\ stage' = "negotiating"
        /\ UNCHANGED <<todo, outbox, webrtc>>
     \/ Refused

\* Mistake: whether there is an offer already is not looked at.
FaultyNeedsOffer == mode = "host" /\ up

NeedsOffer == mode = "host" /\ up /\ webrtc.local = "none"

\* ensure_host_offer and issue_local_offer
Offer ==
  /\ At("offer")
  /\ \/ /\ NeedsOffer /\ webrtc # NoTransport /\ CanCreateOffer(webrtc)
        /\ webrtc' = WithLocalOffer(webrtc)
        /\ link' = "live" /\ stage' = "negotiating"
        /\ outbox' = <<Description>> /\ todo' = <<"drain">> \o Tail(todo)
     \/ Done /\ UNCHANGED <<link, stage, webrtc, outbox>>
  /\ UNCHANGED <<events, mode, captureVars, made, client, up, sent, fileVars>>

\* flush_local_transport_signals
Drain ==
  /\ At("drain") /\ Done
  /\ outbox' = [i \in 1..(webrtc.gathered - webrtc.drained) |-> webrtc.drained + i]
  /\ webrtc' = Drained(webrtc)
  /\ UNCHANGED <<events, stageVars, captureVars, made, client, up, sent, fileVars>>

\* Mistake: a failed send goes unnoticed.
FaultyUnsent == up' = up

Unsent == up' = FALSE

\* send_transport_signal; the connection stays when it fails.
Send ==
  /\ outbox # <<>>
  /\ outbox' = Tail(outbox)
  /\ \/ /\ Connected(client) /\ CanSend(client)
        /\ sent' = sent \cup {Head(outbox)} /\ UNCHANGED up
     \/ /\ Connected(client) /\ Unsent /\ UNCHANGED sent
     \/ /\ ~Connected(client) /\ UNCHANGED <<up, sent>>
  /\ UNCHANGED <<todo, events, stageVars, captureVars, webrtc, made, client, fileVars>>

\* Mistake: a stopped session follows its transport.
FaultyUpdateStage ==
  /\ At("stage") /\ Done
  /\ IF webrtc.state = "connected" THEN stage' = "live" /\ link' = "live"
                                   ELSE UNCHANGED <<stage, link>>
  /\ UNCHANGED <<events, outbox, mode, captureVars, peerVars, fileVars>>

\* update_stage_from_transport
UpdateStage ==
  /\ At("stage") /\ Done
  /\ IF stage = "stopped" \/ webrtc = NoTransport THEN UNCHANGED <<stage, link>>
     ELSE CASE webrtc.state = "connected" -> stage' = "live" /\ link' = "live"
            [] webrtc.state # "connected" /\ link = "live" /\ webrtc.local # "none" ->
                 stage' = "negotiating" /\ UNCHANGED link
            [] OTHER -> UNCHANGED <<stage, link>>
  /\ UNCHANGED <<events, outbox, mode, captureVars, peerVars, fileVars>>

\* The peer connection gathers candidates and changes its state.
Callback ==
  /\ webrtc # NoTransport
  /\ \/ CanGather(webrtc) /\ webrtc' = Gathered(webrtc)
     \/ \E state \in StatesAfter(webrtc) \cap PeerStates : webrtc' = WithState(webrtc, state)
  /\ UNCHANGED <<taskVars, stageVars, captureVars, made, client, up, sent, fileVars>>

\* The server sends a line or the connection ends.
Server ==
  /\ \/ \E line \in Lines : CanArrive(client) /\ client' = Arrived(client, line)
     \/ \E how \in {"eof", "reset"} : client.ended = "open" /\ client' = Ended(client, how)
  /\ UNCHANGED <<taskVars, stageVars, captureVars, webrtc, made, up, sent, fileVars>>
-----------------------------------------------------------------------------
Session ==
  \/ Write \/ Configuration \/ Sync \/ Default \/ Select
  \/ PollCapture \/ StartCapture \/ Halt
  \/ Disconnect \/ Stop \/ Reset \/ Transport \/ Connect
  \/ Replace("host", "host", "configured", "live")
  \/ Replace("viewer", "viewer", "awaiting", "live")
  \/ Replace("demo", "host", "mock", "mock")
  \/ Poll \/ HandleWaiting \/ HandlePeer \/ HandleOffer \/ HandleAnswer \/ HandleCandidate
  \/ Offer \/ Drain \/ Send \/ UpdateStage

Next ==
  \/ \E command \in Commands : Command(command)
  \/ Session \/ Restart
  \/ Frame \/ WorkerEnds \/ Callback \/ Server

Spec == Init /\ [][Next]_vars
-----------------------------------------------------------------------------
(***************************************************************************)
(* What the user is shown.                                                 *)
(***************************************************************************)
\* recovery_diagnostics
Recovery ==
  CASE mode = "idle" -> "idle"
    [] mode # "idle" /\ stage = "stopped" -> "stopped"
    [] mode # "idle" /\ stage # "stopped" /\ link = "live" /\ ~up -> "signaling_unavailable"
    [] mode # "idle" /\ stage # "stopped" /\ (link = "mock" \/ up) ->
         CASE webrtc = NoTransport -> "not_initialized"
           [] webrtc # NoTransport /\ webrtc.state \in {"failed", "closed", "disconnected"} ->
                webrtc.state
           [] webrtc.state = "connected" -> "healthy"
           [] webrtc # NoTransport /\ webrtc.state \in {"new", "connecting"} -> "negotiating"

Recommended ==
  {"stopped", "signaling_unavailable", "not_initialized", "failed", "closed", "disconnected"}

\* next_action; the advice about permissions differs only in its words.
NextAction ==
  CASE mode = "idle" -> "configure"
    [] mode # "idle" /\ link = "mock" -> "mock"
    [] mode # "idle" /\ link = "live" ->
         IF stage = "stopped" THEN "reconnect"
         ELSE IF stage = "live" /\ webrtc.state = "connected" THEN "live"
         ELSE IF mode = "host" /\ ~catalog.granted THEN "grant the permission"
         ELSE IF mode = "host" /\ selection = NoSelection /\ catalog.sources # <<>>
                   /\ webrtc.local = "none" THEN "choose a source"
         ELSE IF ~up THEN "start the server, reconnect"
         ELSE IF mode = "host" /\ webrtc = NoTransport THEN "attach tracks"
         ELSE IF mode = "host" /\ webrtc.local = "none" THEN "wait for the local offer"
         ELSE IF webrtc.remote # "none" THEN "keep refreshing"
         ELSE IF mode = "host" THEN "wait for the answer" ELSE "wait for the offer"

Snapshot ==
  [mode |-> mode, stage |-> stage, link |-> link, selection |-> selection,
   captured |-> counted, connected |-> up, transport |-> webrtc.state,
   local |-> webrtc.local, remote |-> webrtc.remote,
   nextAction |-> NextAction, recovery |-> Recovery]
-----------------------------------------------------------------------------
(***************************************************************************)
(* Properties.                                                             *)
(***************************************************************************)
CaptureStates ==
  [selection : Selections \cup {NoSelection}, transport : 0..MaxTransports,
   running : BOOLEAN, frame : BOOLEAN]

\* The values of the variables.
TypeOK ==
  /\ todo \in Seq(Steps) /\ events \in Seq(Lines) /\ outbox \in Seq(Signals)
  /\ mode \in {"idle", "host", "viewer"} /\ stage \in Stages /\ link \in {"mock", "live"}
  /\ catalog \in Catalogs /\ selection \in Selections \cup {NoSelection}
  /\ capture \in CaptureStates /\ counted \in Sources \cup {NoSource}
  /\ webrtc \in Transports(0..MaxTransports) /\ made \in 0..MaxTransports
  /\ client \in Clients /\ up \in BOOLEAN /\ sent \subseteq Signals
  /\ file \in Selections \cup {NoSelection} /\ optedIn \subseteq Selections

\* What is being captured is what the user sees selected, in a host session
\* that is not stopped: whatever changes one of them stops the capture first.
CaptureFollowsSelection ==
  capture.running => mode = "host" /\ stage # "stopped" /\ capture.selection = selection

\* The capture runtime publishes to the transport of the session, and the
\* worker is stopped before that transport is closed or replaced.
CaptureUsesCurrentTransport ==
  capture.transport # 0 =>
    /\ webrtc.id = capture.transport /\ webrtc.role = "host"
    /\ capture.running => webrtc.signaling # "closed"

\* A host always has one of the sources of the catalog selected, if there is any.
HostSelectionIsOffered ==
  mode = "host" =>
    IF selection = NoSelection THEN catalog.sources = <<>>
                               ELSE selection.source \in Offered(catalog.sources)

\* Whatever a crash leaves of the preferences: a source is restored with audio
\* only if exactly that was saved once.
RestoredAudioWasSaved == file.audio => file \in optedIn

\* A host session without audio gets audio in two ways only: the user selects it,
\* or a discovery finds sources again where there were none.  Rebinding to another
\* source keeps an opt-out; an empty catalog forgets it with the selection, and the
\* first source that comes back is taken with its audio (session.rs:1249, 1396).
AudioStaysOff ==
  [][mode = "host" /\ mode' = "host" /\ ~selection.audio /\ selection'.audio
       => At("select") \/ (At("sync") /\ catalog.sources = <<>>)]_vars

\* Late events and refreshes do not revive a stopped session: it stays stopped
\* until it is replaced by one without a transport.
StoppedStaysStopped ==
  [][stage = "stopped" /\ stage' # "stopped" => webrtc' = NoTransport /\ sent' = {}]_vars

\* A description or candidate the transport has handed out was sent, is about
\* to be, or the user is told to reconnect: a signal is never lost behind a
\* session that looks healthy, or that asks to wait for an answer.
Owed == (IF webrtc.local = "none" THEN {} ELSE {Description}) \cup 1..webrtc.drained
LossIsReported ==
  \/ Snapshot.recovery \in Recommended /\ Snapshot.nextAction # "wait for the answer"
  \/ \A signal \in Owed : signal \in sent \/ signal \in {outbox[i] : i \in DOMAIN outbox}

\* A transport whose offer was answered is not offered anew: an answer that is
\* under way, or media that flows, is not cut off by a refresh.
AnsweredStaysAnswered ==
  [][webrtc.remote = "answer" /\ webrtc'.id = webrtc.id
       => webrtc'.signaling # "have-local-offer"]_vars
=============================================================================
