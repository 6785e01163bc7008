---------------------------- MODULE ViewerPlayback ----------------------------
(***************************************************************************)
(* A viewer that plays in the WebView: the session's BrowserViewer          *)
(* (crates/app-core/src/viewer.rs and the viewer commands of session.rs),   *)
(* the ViewerPlayer (apps/desktop/public/viewer-player.mjs) and the page    *)
(* that hands it the sessions it shows (main.js).                           *)
(*                                                                         *)
(* Page and player are one JavaScript thread: between two awaits they run   *)
(* undisturbed, so a step here is what runs until the next await.  Every    *)
(* command of theirs becomes a task on a pool of blocking threads           *)
(* (src-tauri/src/main.rs), the tasks take the session mutex in any order,  *)
(* and an answer may arrive late or be given up after a timeout, in which   *)
(* case the task still runs.                                                *)
(*                                                                         *)
(* An operator whose name begins with Faulty is the operator below it with  *)
(* a plausible mistake; it is not part of the code.                         *)
(***************************************************************************)
EXTENDS Integers, Sequences, FiniteSets

CONSTANTS
  QueueLimit,    \* signals the backend keeps for the player (128 in the code)
  IceLimit,      \* candidates the player keeps back (128 in the code)
  UserCommands,  \* some of "join", "stop", "reset"; reset stands for hosting and the demo, too
  MaxSessions,   \* bound: sessions the user starts, stops or resets
  MaxContexts,   \* bound: playback contexts
  MaxSignals,    \* bound: signals the host sends to one session
  MaxLocal,      \* bound: candidates the viewer's peer gathers
  MaxAbandoned   \* bound: user actions given up and not executed yet

ASSUME LimitAssumption == {QueueLimit, IceLimit} \subseteq Nat \ {0}
ASSUME UserCommandsAssumption == UserCommands \subseteq {"join", "stop", "reset"}
ASSUME BoundsAssumption ==
  {MaxSessions, MaxContexts, MaxSignals, MaxLocal, MaxAbandoned} \subseteq Nat

Generations == 1..MaxSessions
Contexts    == 1..MaxContexts

VARIABLES
  session,    \* the backend, see NewSession
  wire,       \* what was sent to the host on behalf of the session
  context,    \* the playback contexts, see NewContext
  current,    \* the player's context, or 0
  calls,      \* the player's commands that are not answered
  shown,      \* the session the page shows last
  action,     \* the user action in flight
  refresh,    \* the refresh in flight
  abandoned   \* user actions not executed yet whose answer nobody awaits any more

backendVars == <<session, wire>>
playerVars  == <<context, current>>
pageVars    == <<shown, action, refresh, abandoned>>
vars == <<backendVars, playerVars, calls, pageVars>>

\* A signal of the host; "n" counts those the bridge accepted.
Signals == [n : 1..MaxSignals, kind : {"offer", "ice"}]

\* generation 0 is a session without a browser viewer.  "active" is is_active()
\* of the viewer, "offered" is remote_description_ready, "pending" the queue.
NoSession == [generation |-> 0, stopped |-> FALSE, up |-> FALSE, active |-> FALSE,
              offered |-> FALSE, accepted |-> 0, pending |-> <<>>, epoch |-> 0]

\* at: where run() awaits.  batch: what it has polled and not looked at.  taken:
\* what it has passed to the peer or keeps back, in order.
NewContext(generation) ==
  [generation |-> generation, closed |-> FALSE, failed |-> FALSE, at |-> "poll", peer |-> FALSE,
   remote |-> FALSE, batch |-> <<>>, taken |-> <<>>, pendingIce |-> <<>>, added |-> {},
   answerSent |-> FALSE, localIce |-> <<>>, local |-> FALSE, gathered |-> 0, outgoing |-> <<>>]
NoContext == [NewContext(0) EXCEPT !.closed = TRUE, !.at = "end"]

Answer == 0  \* what a context sends: its answer, and candidates by number

Snapshot == [generation |-> session.generation, stopped |-> session.stopped, epoch |-> session.epoch]
Idle == [kind |-> "none", answer |-> [generation |-> 0, stopped |-> FALSE, epoch |-> 0], at |-> "none"]
Queued(kind) == [Idle EXCEPT !.kind = kind, !.at = "queued"]

Call(c, kind, signal) ==
  [from |-> c, kind |-> kind, signal |-> signal, answer |-> "none", batch |-> <<>>]

Init ==
  /\ session = NoSession
  /\ wire = <<>>
  /\ context = [c \in Contexts |-> NoContext] /\ current = 0
  /\ calls = {} /\ abandoned = {}
  /\ shown = Idle.answer /\ action = Idle /\ refresh = Idle
-----------------------------------------------------------------------------
(***************************************************************************)
(* The backend.                                                            *)
(***************************************************************************)
\* BrowserViewer::close
Closed(s) == [s EXCEPT !.active = FALSE, !.pending = <<>>]

\* join_room and reconnect_session, stop_session, and the commands that end
\* with a session that is no viewer's.
After(command, s) ==
  CASE command = "join" -> [NoSession EXCEPT !.generation = s.epoch + 1, !.active = TRUE,
                                             !.up = TRUE, !.epoch = s.epoch + 1]
    [] command = "stop" -> [Closed(s) EXCEPT !.stopped = TRUE, !.up = FALSE, !.epoch = @ + 1]
    [] command = "reset" -> [NoSession EXCEPT !.epoch = s.epoch + 1]

\* Mistake: the queue has no limit.
FaultyOverflows(s, kinds) == FALSE

Overflows(s, kinds) == Len(s.pending) + Len(kinds) > QueueLimit

\* BrowserViewer::enqueue for the signals that have arrived: one after the other
\* until the queue is full, which fails the viewer.  An inactive viewer takes none.
Signalled(s, kinds) ==
  IF ~s.active THEN s
  ELSE IF Overflows(s, kinds) THEN Closed(s)
  ELSE [s EXCEPT !.accepted = @ + Len(kinds),
                 !.offered = @ \/ \E i \in DOMAIN kinds : kinds[i] = "offer",
                 !.pending = @ \o [i \in 1..Len(kinds) |->
                                     [n |-> s.accepted + i, kind |-> kinds[i]]]]

Arrivals ==
  {kinds \in {<<>>, <<"offer">>, <<"ice">>, <<"offer", "ice">>, <<"ice", "offer">>} :
     /\ session.generation # 0 /\ session.up
     /\ \/ session.accepted + Len(kinds) <= MaxSignals
        \/ Len(session.pending) + Len(kinds) > QueueLimit}

\* process_signaling_events: signals arrive, or the connection is found gone.
Outcomes ==
  {[session EXCEPT !.up = FALSE]} \cup {Signalled(session, kinds) : kinds \in Arrivals}

\* The page's commands.
Executed(command) ==
  \/ command = "refresh" /\ session' \in Outcomes /\ UNCHANGED wire
  \/ /\ command # "refresh" /\ session.epoch < MaxSessions
     /\ session' = After(command, session)
     /\ wire' = IF command = "stop" THEN wire ELSE <<>>

Answered(request) == [request EXCEPT !.at = "answered",
  !.answer = [generation |-> session'.generation, stopped |-> session'.stopped,
              epoch |-> session'.epoch]]

ExecuteAction ==
  /\ action.at = "queued"
  /\ Executed(action.kind)
  /\ action' = Answered(action)
  /\ UNCHANGED <<playerVars, calls, shown, refresh, abandoned>>

ExecuteRefresh ==
  /\ refresh.at = "queued"
  /\ Executed("refresh")
  /\ refresh' = Answered(refresh)
  /\ UNCHANGED <<playerVars, calls, shown, action, abandoned>>

\* What was given up is executed nevertheless.
ExecuteAbandoned ==
  \E command \in abandoned :
    /\ Executed(command)
    /\ abandoned' = abandoned \ {command}
    /\ UNCHANGED <<playerVars, calls, shown, action, refresh>>

\* An answer for a closed context is dropped right away: nothing reads it.
Reply(call, answer, batch) ==
  calls' = (calls \ {call})
    \cup (IF context[call.from].closed THEN {}
          ELSE {[call EXCEPT !.answer = answer, !.batch = batch]})

\* Mistake: the generation of a command is not compared.
FaultyIsCurrent(call) == session.generation # 0

\* require_viewer_generation
IsCurrent(call) == session.generation = context[call.from].generation

\* Mistake: what the player got stays in the queue.
FaultyTaken(s) == s

Taken(s) == [s EXCEPT !.pending = <<>>]

\* poll_viewer_signaling: "active" is that of the stage, so a stopped session
\* answers, and a viewer that has failed is an error.
ExecutePoll(call) ==
  /\ call.kind = "poll"
  /\ \/ ~IsCurrent(call) /\ Reply(call, "error", <<>>) /\ UNCHANGED session
     \/ IsCurrent(call) /\ session.stopped /\ Reply(call, "stopped", <<>>) /\ UNCHANGED session
     \/ /\ IsCurrent(call) /\ ~session.stopped
        /\ \E outcome \in Outcomes :
             IF outcome.active
               THEN session' = Taken(outcome) /\ Reply(call, "ok", outcome.pending)
               ELSE session' = outcome /\ Reply(call, "error", <<>>)
  /\ UNCHANGED wire

\* send_viewer_signal; an answer is refused before there was an offer.
MaySend(call) ==
  /\ IsCurrent(call) /\ ~session.stopped /\ session.active /\ session.up
  /\ call.signal = Answer => session.offered

ExecuteSend(call) ==
  /\ call.kind = "send"
  /\ \/ /\ MaySend(call)
        /\ wire' = Append(wire, [from |-> call.from, signal |-> call.signal])
        /\ Reply(call, "ok", <<>>)
     \/ UNCHANGED wire /\ Reply(call, "error", <<>>)
  /\ UNCHANGED session

\* report_viewer_playback: the report of a failure ends the viewer.
ExecuteReport(call) ==
  /\ call.kind = "failure"
  /\ IF IsCurrent(call) /\ ~session.stopped
       THEN session' = [session EXCEPT !.active = FALSE] ELSE UNCHANGED session
  /\ Reply(call, "ok", <<>>)
  /\ UNCHANGED wire

ExecuteCall(call) ==
  /\ call.answer = "none"
  /\ ExecutePoll(call) \/ ExecuteSend(call) \/ ExecuteReport(call)
  /\ UNCHANGED <<playerVars, pageVars>>

Backend ==
  \/ ExecuteAction \/ ExecuteRefresh \/ ExecuteAbandoned
  \/ \E call \in calls : ExecuteCall(call)
-----------------------------------------------------------------------------
(***************************************************************************)
(* The page.                                                               *)
(***************************************************************************)
\* closeContext: whatever run() was about to do, it finds the context closed
\* after its next await and returns, so that only the generation is left of it.
Stopped(ctx) == [NewContext(ctx.generation) EXCEPT !.closed = TRUE, !.at = "end"]

\* An answered call of a context that is closed now is read by nobody.
Unread(closed) == calls \ {call \in calls : call.from \in closed /\ call.answer # "none"}

Stopping ==
  /\ context' = IF current = 0 THEN context
                ELSE [context EXCEPT ![current] = Stopped(@)]
  /\ calls' = Unread({current})
  /\ current' = 0

Unused == {c \in Contexts : context[c].generation = 0}

\* ViewerPlayer::sync
Sync(s) ==
  CASE s.generation = 0 \/ s.stopped -> Stopping
    [] s.generation # 0 /\ ~s.stopped /\ current # 0 /\ context[current].generation = s.generation ->
         UNCHANGED <<playerVars, calls>>
    [] OTHER ->
         \E c \in Unused :
           /\ \A d \in Unused : c <= d
           /\ context' = [d \in Contexts |->
                IF d = c THEN NewContext(s.generation)
                ELSE IF d = current THEN Stopped(context[d]) ELSE context[d]]
           /\ calls' = Unread({current})
           /\ current' = c

\* runUserAction
Act(command) ==
  /\ action = Idle
  /\ action' = Queued(command)
  /\ UNCHANGED <<backendVars, playerVars, calls, shown, refresh, abandoned>>

\* Before the buttons work again the old refresh is waited for; a new one begins.
Drain ==
  \/ refresh = Idle /\ action' = Idle /\ refresh' = Queued("refresh")
  \/ refresh # Idle /\ action' = [Idle EXCEPT !.at = "draining"] /\ UNCHANGED refresh

ActionReturns ==
  /\ action.at = "answered"
  /\ shown' = action.answer /\ Sync(action.answer)
  /\ Drain
  /\ UNCHANGED <<backendVars, abandoned>>

ActionTimesOut ==
  /\ action.at = "queued" /\ Cardinality(abandoned) < MaxAbandoned
  /\ abandoned' = abandoned \cup {action.kind}
  /\ Drain
  /\ UNCHANGED <<backendVars, playerVars, calls, shown>>

ActionEnds ==
  /\ action.at = "draining" /\ refresh = Idle
  /\ Drain
  /\ UNCHANGED <<backendVars, playerVars, calls, shown, abandoned>>

BeginRefresh ==
  /\ action = Idle /\ refresh = Idle
  /\ refresh' = Queued("refresh")
  /\ UNCHANGED <<backendVars, playerVars, calls, shown, action, abandoned>>

\* Mistake: what was asked before a user action is shown after it.
FaultyShows == TRUE

Shows == action = Idle

RefreshReturns ==
  /\ refresh.at = "answered"
  /\ IF Shows THEN shown' = refresh.answer /\ Sync(refresh.answer)
              ELSE UNCHANGED <<shown, playerVars, calls>>
  /\ refresh' = Idle
  /\ UNCHANGED <<backendVars, action, abandoned>>

\* The refresh given up does when it is executed what the next one does.
RefreshTimesOut ==
  /\ refresh.at = "queued"
  /\ refresh' = Idle
  /\ UNCHANGED <<backendVars, playerVars, calls, shown, action, abandoned>>

Page ==
  \/ ActionReturns \/ ActionTimesOut \/ ActionEnds
  \/ RefreshReturns \/ RefreshTimesOut
-----------------------------------------------------------------------------
(***************************************************************************)
(* The player.                                                             *)
(***************************************************************************)
IsOpen(c) == current = c /\ ~context[c].closed

\* Mistake: fail() does not tell the backend.
FaultyFailureReport(c) == {}

FailureReport(c) == {Call(c, "failure", Answer)}

\* fail(): the context stays the player's, closed, until the page shows another.
Fail(c) ==
  /\ context' = [context EXCEPT ![c] = [Stopped(@) EXCEPT !.failed = TRUE]]
  /\ calls' = Unread({c}) \cup FailureReport(c)

Step(c, ctx) == context' = [context EXCEPT ![c] = ctx] /\ UNCHANGED calls

Awaited(c, kind) == {call \in calls : call.from = c /\ call.kind = kind}
Returned(c, kind) == {call \in Awaited(c, kind) : call.answer # "none"}

Invoke(c, kind, at) ==
  /\ context' = [context EXCEPT ![c].at = at]
  /\ calls' = calls \cup {Call(c, kind, Answer)}

Poll(c) == context[c].at = "poll" /\ Invoke(c, "poll", "polling")

\* A batch arrives; the first one creates the peer, which may fail.
Polled(c) ==
  \E call \in Returned(c, "poll") :
    CASE call.answer = "ok" ->
           \/ /\ context' = [context EXCEPT ![c].at = "signal", ![c].peer = TRUE,
                                            ![c].batch = call.batch]
              /\ calls' = calls \ {call} /\ UNCHANGED current
           \/ ~context[c].peer /\ Fail(c) /\ UNCHANGED current
      [] call.answer = "stopped" -> Stopping
      [] call.answer = "error" -> Fail(c) /\ UNCHANGED current

KeptBack(ice, signal) == Append(ice, signal)

\* accept(): an offer is passed on to the peer, a candidate is passed on or
\* kept back until there is an offer.
Accept(c) ==
  LET ctx == context[c]
      signal == Head(ctx.batch)
      rest == [ctx EXCEPT !.batch = Tail(@), !.taken = Append(@, signal)]
  IN /\ ctx.at = "signal" /\ ctx.batch # <<>>
     /\ CASE signal.kind = "offer" ->
               Step(c, [rest EXCEPT !.answerSent = FALSE, !.at = "remote"])
          [] signal.kind = "ice" /\ ctx.remote ->
               Step(c, [rest EXCEPT !.added = @ \cup {signal}]) \/ Fail(c)
          [] signal.kind = "ice" /\ ~ctx.remote ->
               IF Len(ctx.pendingIce) < IceLimit
                 THEN Step(c, [rest EXCEPT !.pendingIce = KeptBack(@, signal)]) ELSE Fail(c)

\* setRemoteDescription, then the candidates kept back, one by one.
SetRemote(c) ==
  /\ context[c].at = "remote"
  /\ Step(c, [context[c] EXCEPT !.remote = TRUE, !.at = "adding"]) \/ Fail(c)

AddIce(c) ==
  /\ context[c].at = "adding"
  /\ IF context[c].pendingIce = <<>> THEN Step(c, [context[c] EXCEPT !.at = "local"])
     ELSE \/ Step(c, [context[c] EXCEPT !.pendingIce = Tail(@),
                                        !.added = @ \cup {Head(context[c].pendingIce)}])
          \/ Fail(c)

Answering(ctx) == [ctx EXCEPT !.at = "answering", !.local = TRUE, !.outgoing = Append(@, Answer)]

\* createAnswer and setLocalDescription, after which the peer gathers; then the
\* answer joins the chain of outgoing signals.
SetLocal(c) ==
  /\ context[c].at = "local"
  /\ Step(c, Answering(context[c])) \/ Fail(c)

\* The answer is out: the candidates kept back follow.  (They are sent one by
\* one, and a new one may come between them; among themselves, candidates have
\* no order that matters.)
AnswerSent(c) ==
  /\ context[c].at = "answering" /\ context[c].outgoing = <<>>
  /\ Step(c, [context[c] EXCEPT !.at = "flushing", !.answerSent = TRUE,
                                !.outgoing = context[c].localIce, !.localIce = <<>>])

Flushed(c) ==
  /\ context[c].at = "flushing" /\ context[c].outgoing = <<>>
  /\ Step(c, [context[c] EXCEPT !.at = "signal"])

\* At the end of a batch the loop goes on.  The report of statistics before it
\* changes nothing in the session, and what its refusal does PeerFails does.
EndBatch(c) ==
  /\ context[c].at = "signal" /\ context[c].batch = <<>>
  /\ Step(c, [context[c] EXCEPT !.at = "poll"])

\* send(): one signal after the other.
SendNext(c) ==
  /\ context[c].outgoing # <<>> /\ Awaited(c, "send") = {}
  /\ calls' = calls \cup {Call(c, "send", Head(context[c].outgoing))}
  /\ UNCHANGED context

Sent(c) ==
  \E call \in Returned(c, "send") :
    IF call.answer = "ok"
      THEN context' = [context EXCEPT ![c].outgoing = Tail(@)] /\ calls' = calls \ {call}
      ELSE Fail(c)

\* onicecandidate
Gather(c) ==
  LET ctx == context[c]
  IN /\ ctx.local /\ ctx.gathered < MaxLocal
     /\ CASE ctx.answerSent -> Step(c, [ctx EXCEPT !.gathered = @ + 1, !.outgoing = Append(@, ctx.gathered + 1)])
          [] ~ctx.answerSent /\ Len(ctx.localIce) < IceLimit ->
               Step(c, [ctx EXCEPT !.gathered = @ + 1, !.localIce = Append(@, ctx.gathered + 1)])
          [] OTHER -> Fail(c)

\* The peer connection or the video element fails.
PeerFails(c) == context[c].peer /\ Fail(c)

\* An invoke() is given up; the command is still executed.
CallTimesOut(c) == (\E call \in calls : call.from = c /\ call.answer = "none") /\ Fail(c)

\* run() and what it calls, and the chain of outgoing signals.
Run(c) ==
  /\ IsOpen(c)
  /\ \/ Polled(c)
     \/ /\ \/ Poll(c) \/ Accept(c) \/ SetRemote(c) \/ AddIce(c) \/ SetLocal(c)
           \/ AnswerSent(c) \/ Flushed(c) \/ EndBatch(c)
        /\ UNCHANGED current
  /\ UNCHANGED <<backendVars, pageVars>>

Outgoing(c) ==
  /\ IsOpen(c)
  /\ SendNext(c) \/ Sent(c)
  /\ UNCHANGED <<backendVars, current, pageVars>>

Peer(c) ==
  /\ IsOpen(c)
  /\ Gather(c) \/ PeerFails(c) \/ CallTimesOut(c)
  /\ UNCHANGED <<backendVars, current, pageVars>>
-----------------------------------------------------------------------------
Next ==
  \/ \E command \in UserCommands : Act(command)
  \/ BeginRefresh
  \/ Backend \/ Page
  \/ \E c \in Contexts : Run(c) \/ Outgoing(c) \/ Peer(c)

Spec == Init /\ [][Next]_vars
-----------------------------------------------------------------------------
(***************************************************************************)
(* Properties.                                                             *)
(***************************************************************************)
Sends   == [from : Contexts, signal : 0..MaxLocal]
Answers == [generation : {0} \cup Generations, stopped : BOOLEAN, epoch : 0..MaxSessions]
Requests ==
  [kind : UserCommands \cup {"none", "refresh"}, answer : Answers,
   at : {"none", "queued", "answered", "draining"}]

\* The values of the variables, and the limits of the queues.
TypeOK ==
  /\ session \in [generation : {0} \cup Generations, stopped : BOOLEAN, up : BOOLEAN,
                  active : BOOLEAN, offered : BOOLEAN,
                  accepted : 0..MaxSignals, pending : Seq(Signals), epoch : 0..MaxSessions]
  /\ Len(session.pending) <= QueueLimit
  /\ wire \in Seq(Sends)
  /\ \A c \in Contexts :
       /\ Len(context[c].pendingIce) <= IceLimit /\ Len(context[c].localIce) <= IceLimit
       /\ context[c].batch \in Seq(Signals) /\ context[c].added \subseteq Signals
  /\ current \in {0} \cup Contexts
  /\ {shown, action.answer, refresh.answer} \subseteq Answers
  /\ action \in Requests /\ refresh \in Requests
  /\ abandoned \subseteq UserCommands

\* Every signal the bridge accepted for a session that lives is in exactly one
\* place on its way to the player's peer, in order: nothing is lost, doubled or
\* overtaken between the queue, the answer of a poll and the batch; and a
\* candidate taken from the batch is with the peer or kept back for the offer.
OnTheWay(c) ==
  LET answers == {call \in Returned(c, "poll") : call.answer = "ok"}
  IN context[c].taken \o context[c].batch
       \o (IF answers = {} THEN <<>> ELSE (CHOOSE call \in answers : TRUE).batch)
       \o session.pending
SignalsReachPlayerInOrder ==
  \A c \in Contexts :
    IsOpen(c) /\ session.generation = context[c].generation /\ session.active
      => /\ Len(OnTheWay(c)) = session.accepted
         /\ \A i \in DOMAIN OnTheWay(c) : OnTheWay(c)[i].n = i
         /\ \A i \in DOMAIN context[c].taken :
              context[c].taken[i].kind = "ice" =>
                \/ context[c].taken[i] \in context[c].added
                \/ \E k \in DOMAIN context[c].pendingIce :
                     context[c].pendingIce[k] = context[c].taken[i]

\* What goes to the host on behalf of a session comes from a context of that
\* session, however late a command of an older one is executed.
WireIsOwn == \A i \in DOMAIN wire : context[wire[i].from].generation = session.generation

\* A refresh asked for before a user action never overwrites what the action
\* has shown.
ShownNeverGoesBack == [][shown'.epoch >= shown.epoch]_shown

\* A backend that still queues signals for a player that has failed is about
\* to be told.
FailureIsReported ==
  \A c \in Contexts :
    context[c].failed /\ context[c].generation = session.generation
      /\ session.active /\ ~session.stopped
        => \E call \in calls : call.from = c /\ call.kind = "failure"
=============================================================================
