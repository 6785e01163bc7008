------------------------- MODULE ViewerPlaybackProofs -------------------------
(***************************************************************************)
(* Theorems about ViewerPlayback for any limits of the queues and any       *)
(* number of sessions, contexts, signals and commands that are given up.    *)
(***************************************************************************)
EXTENDS ViewerPlayback, TLAPS

LEMMA Bounds ==
  /\ QueueLimit \in Nat /\ IceLimit \in Nat
  /\ MaxSessions \in Nat /\ MaxContexts \in Nat /\ MaxSignals \in Nat
  /\ MaxLocal \in Nat /\ MaxAbandoned \in Nat
  /\ \A command \in UserCommands : command \in {"join", "stop", "reset"}
BY LimitAssumption, BoundsAssumption, UserCommandsAssumption

USE Bounds

-----------------------------------------------------------------------------
(***************************************************************************)
(* Types.                                                                   *)
(***************************************************************************)
Sessions ==
  [generation : {0} \cup Generations, stopped : BOOLEAN, up : BOOLEAN, active : BOOLEAN,
   offered : BOOLEAN, accepted : 0..MaxSignals, pending : Seq(Signals), epoch : 0..MaxSessions]

Places == {"poll", "polling", "signal", "remote", "adding", "local", "answering", "flushing", "end"}

ContextRecords ==
  [generation : {0} \cup Generations, closed : BOOLEAN, failed : BOOLEAN, at : Places,
   peer : BOOLEAN, remote : BOOLEAN, batch : Seq(Signals), taken : Seq(Signals),
   pendingIce : Seq(Signals), added : SUBSET Signals, answerSent : BOOLEAN,
   localIce : Seq(0..MaxLocal), local : BOOLEAN, gathered : 0..MaxLocal,
   outgoing : Seq(0..MaxLocal)]

CallRecords ==
  [from : Contexts, kind : {"poll", "send", "failure"}, signal : 0..MaxLocal,
   answer : {"none", "ok", "error", "stopped"}, batch : Seq(Signals)]

BackendTypes ==
  /\ session \in Sessions /\ Len(session.pending) <= QueueLimit
  /\ wire \in Seq(Sends)

PlayerTypes ==
  /\ context \in [Contexts -> ContextRecords]
  /\ \A c \in Contexts :
       /\ Len(context[c].pendingIce) <= IceLimit /\ Len(context[c].localIce) <= IceLimit
       /\ context[c].failed => context[c].closed
  /\ current \in {0} \cup Contexts
  /\ calls \subseteq CallRecords

\* A context sends one signal after the other: the call that sends the first is
\* the only one.  Calls come from contexts that were begun.
Chain ==
  /\ \A call \in calls : context[call.from].generation # 0
  /\ current # 0 => context[current].generation # 0
  /\ \A call \in calls : call.kind = "send" /\ ~context[call.from].closed =>
       /\ context[call.from].outgoing # <<>>
       /\ \A other \in calls : other.kind = "send" /\ other.from = call.from => other = call

PageTypes ==
  /\ {shown, action.answer, refresh.answer} \subseteq Answers
  /\ action \in Requests /\ refresh \in Requests
  /\ action.at = "queued" => action.kind \in UserCommands
  /\ abandoned \subseteq UserCommands

Types == BackendTypes /\ PlayerTypes /\ Chain /\ PageTypes

LEMMA TypesAreRight == Types => TypeOK
BY DEF Types, BackendTypes, PlayerTypes, PageTypes, TypeOK, Sessions, ContextRecords

LEMMA NoSessionType ==
  /\ NoSession \in Sessions /\ NoSession.generation = 0 /\ NoSession.epoch = 0
  /\ ~NoSession.active /\ ~NoSession.stopped /\ NoSession.pending = <<>>
BY DEF NoSession, Sessions

LEMMA NewContextType ==
  ASSUME NEW g \in {0} \cup Generations
  PROVE  /\ NewContext(g) \in ContextRecords /\ NewContext(g).generation = g
         /\ ~NewContext(g).failed
         /\ NewContext(g).pendingIce = <<>> /\ NewContext(g).localIce = <<>>
<1>1. /\ \A S : <<>> \in Seq(S)
      /\ {} \in SUBSET Signals /\ 0 \in 0..MaxLocal /\ "poll" \in Places
  BY DEF Places
<1>2. NewContext(g) \in ContextRecords
  BY <1>1 DEF NewContext, ContextRecords
<1>3. QED
  BY <1>2 DEF NewContext

LEMMA NoContextType ==
  /\ NoContext \in ContextRecords /\ NoContext.generation = 0 /\ ~NoContext.failed
  /\ NoContext.pendingIce = <<>> /\ NoContext.localIce = <<>>
<1>1. 0 \in {0} \cup Generations /\ "end" \in Places
  BY DEF Places
<1>2. /\ NewContext(0) \in ContextRecords /\ NewContext(0).generation = 0
      /\ ~NewContext(0).failed
      /\ NewContext(0).pendingIce = <<>> /\ NewContext(0).localIce = <<>>
  BY <1>1, NewContextType
<1>3. QED
  BY <1>1, <1>2 DEF NoContext, ContextRecords

LEMMA InitTypes == Init => Types
<1> SUFFICES ASSUME Init PROVE Types
  OBVIOUS
<1>1. BackendTypes
  BY NoSessionType DEF Init, BackendTypes, Sessions
<1>3. PlayerTypes
  BY NoContextType DEF Init, PlayerTypes
<1>4. PageTypes
  BY DEF Init, PageTypes, Idle, Answers, Requests
<1>5. Chain
  BY DEF Init, Chain
<1>6. QED
  BY <1>1, <1>3, <1>4, <1>5 DEF Types

-----------------------------------------------------------------------------
(***************************************************************************)
(* The backend.                                                             *)
(***************************************************************************)
\* Signals that arrive are queued within the limit, or end the viewer.
LEMMA SignalledTypes ==
  ASSUME BackendTypes, NEW kinds \in Arrivals
  PROVE  LET s == Signalled(session, kinds)
         IN /\ s \in Sessions /\ Len(s.pending) <= QueueLimit
            /\ s.generation = session.generation /\ s.epoch = session.epoch
            /\ s.stopped = session.stopped /\ (s.active => session.active)
<1> DEFINE arrived == [i \in 1..Len(kinds) |-> [n |-> session.accepted + i, kind |-> kinds[i]]]
<1>1. /\ kinds \in Seq({"offer", "ice"}) /\ Len(kinds) \in Nat
      /\ \/ session.accepted + Len(kinds) <= MaxSignals
         \/ Len(session.pending) + Len(kinds) > QueueLimit
  <2>1. kinds \in {<<>>, <<"offer">>, <<"ice">>, <<"offer", "ice">>, <<"ice", "offer">>}
    BY DEF Arrivals
  <2>2. /\ <<>> \in Seq({"offer", "ice"})
        /\ <<"offer">> \in Seq({"offer", "ice"}) /\ <<"ice">> \in Seq({"offer", "ice"})
        /\ <<"offer", "ice">> \in Seq({"offer", "ice"})
        /\ <<"ice", "offer">> \in Seq({"offer", "ice"})
    OBVIOUS
  <2>3. kinds \in Seq({"offer", "ice"})
    BY <2>1, <2>2, Zenon
  <2>4. QED
    BY <2>3 DEF Arrivals
<1>2. CASE ~session.active
  BY <1>2 DEF Signalled, BackendTypes, Sessions
<1>3. CASE session.active /\ Overflows(session, kinds)
  <2>1. Signalled(session, kinds) = [session EXCEPT !.active = FALSE, !.pending = <<>>]
    BY <1>3 DEF Signalled, Closed
  <2>2. <<>> \in Seq(Signals) /\ Len(<<>>) <= QueueLimit
    OBVIOUS
  <2>3. QED
    BY <2>1, <2>2 DEF BackendTypes, Sessions
<1>4. CASE session.active /\ ~Overflows(session, kinds)
  <2>1. session.accepted + Len(kinds) \in 0..MaxSignals
    BY <1>1, <1>4 DEF Overflows, BackendTypes, Sessions
  <2>2. \A i \in 1..Len(kinds) : arrived[i] \in Signals
    <3> TAKE i \in 1..Len(kinds)
    <3>1. session.accepted + i \in 1..MaxSignals /\ kinds[i] \in {"offer", "ice"}
      BY <1>1, <2>1 DEF BackendTypes, Sessions
    <3>2. QED
      BY <3>1 DEF Signals
  <2>3. arrived \in Seq(Signals) /\ Len(arrived) = Len(kinds)
    BY <1>1, <2>2
  <2> HIDE DEF arrived
  <2>4. /\ session.pending \o arrived \in Seq(Signals)
        /\ Len(session.pending \o arrived) <= QueueLimit
    BY <1>1, <1>4, <2>3 DEF Overflows, BackendTypes, Sessions
  <2>5. Signalled(session, kinds) =
          [session EXCEPT !.accepted = @ + Len(kinds),
                          !.offered = @ \/ \E i \in DOMAIN kinds : kinds[i] = "offer",
                          !.pending = @ \o arrived]
    BY <1>4 DEF Signalled, arrived
  <2>6. QED
    BY <2>1, <2>4, <2>5 DEF BackendTypes, Sessions
<1>5. QED
  BY <1>2, <1>3, <1>4 DEF BackendTypes, Sessions

\* What a look at the signaling connection leaves of a session.
LEMMA OutcomeTypes ==
  ASSUME BackendTypes, NEW s \in Outcomes
  PROVE  /\ s \in Sessions /\ Len(s.pending) <= QueueLimit
         /\ s.generation = session.generation /\ s.epoch = session.epoch
         /\ s.stopped = session.stopped /\ (s.active => session.active)
<1>1. CASE s = [session EXCEPT !.up = FALSE]
  BY <1>1 DEF BackendTypes, Sessions
<1>2. ASSUME NEW kinds \in Arrivals, s = Signalled(session, kinds)
      PROVE  /\ s \in Sessions /\ Len(s.pending) <= QueueLimit
             /\ s.generation = session.generation /\ s.epoch = session.epoch
             /\ s.stopped = session.stopped /\ (s.active => session.active)
  BY <1>2, SignalledTypes
<1>3. QED
  BY <1>1, <1>2 DEF Outcomes

\* What a user action or a refresh does to the session: its epoch and its
\* generation grow together, and only a new session is active that was not.
Grown ==
  \/ /\ session'.epoch = session.epoch /\ session'.generation = session.generation
     /\ session'.stopped = session.stopped /\ (session'.active => session.active)
     /\ wire' = wire
  \/ /\ session'.epoch = session.epoch + 1 /\ session'.generation = session.generation
     /\ ~session'.active /\ wire' = wire
  \/ /\ session'.epoch = session.epoch + 1
     /\ \/ session'.generation = session'.epoch
        \/ session'.generation = 0 /\ ~session'.active
     /\ wire' = <<>>

LEMMA ExecutedGrows ==
  ASSUME BackendTypes, NEW command \in UserCommands \cup {"refresh"}, Executed(command)
  PROVE  BackendTypes' /\ Grown
<1>1. CASE command = "refresh"
  <2>1. session' \in Outcomes /\ wire' = wire
    BY <1>1 DEF Executed
  <2>2. QED
    BY <2>1, OutcomeTypes DEF BackendTypes, Grown
<1>2. CASE command \in UserCommands
  <2>1. /\ session' = After(command, session)
        /\ wire' = IF command = "stop" THEN wire ELSE <<>>
        /\ session.epoch + 1 \in 1..MaxSessions /\ session.epoch + 1 \in 0..MaxSessions
        /\ session.epoch + 1 \in {0} \cup Generations
        /\ <<>> \in Seq(Signals) /\ <<>> \in Seq(Sends) /\ Len(<<>>) <= QueueLimit
    BY <1>2 DEF Executed, BackendTypes, Sessions, Generations
  <2>2. CASE command = "join"
    <3>1. session' = [NoSession EXCEPT !.generation = session.epoch + 1, !.active = TRUE,
                                       !.up = TRUE, !.epoch = session.epoch + 1]
      BY <2>1, <2>2 DEF After
    <3>2. session' \in Sessions /\ session'.pending = <<>>
      BY <2>1, <3>1, NoSessionType DEF Sessions
    <3>3. QED
      BY <2>1, <2>2, <3>1, <3>2, NoSessionType DEF BackendTypes, Sessions, Grown
  <2>3. CASE command = "stop"
    <3>1. session' = [[session EXCEPT !.active = FALSE, !.pending = <<>>]
                        EXCEPT !.stopped = TRUE, !.up = FALSE, !.epoch = @ + 1]
      BY <2>1, <2>3 DEF After, Closed
    <3>2. session' \in Sessions /\ session'.pending = <<>>
      BY <2>1, <3>1 DEF BackendTypes, Sessions
    <3>3. QED
      BY <2>1, <2>3, <3>1, <3>2 DEF BackendTypes, Sessions, Grown
  <2>4. CASE command = "reset"
    <3>1. session' = [NoSession EXCEPT !.epoch = session.epoch + 1]
      BY <2>1, <2>4 DEF After
    <3>2. session' \in Sessions /\ session'.pending = <<>>
      BY <2>1, <3>1, NoSessionType DEF Sessions
    <3>3. QED
      BY <2>1, <2>4, <3>1, <3>2, NoSessionType DEF BackendTypes, Sessions, Grown
  <2>5. QED
    BY <1>2, <2>2, <2>3, <2>4
<1>3. QED
  BY <1>1, <1>2
LEMMA CallTypes ==
  ASSUME Types, NEW call \in calls, ExecuteCall(call)
  PROVE  /\ BackendTypes' /\ calls' \subseteq CallRecords
         /\ \A other \in calls : other # call => other \in calls'
         /\ session'.epoch = session.epoch /\ session'.generation = session.generation
         /\ session'.stopped = session.stopped /\ (session'.active => session.active)
         /\ \/ wire' = wire
            \/ IsCurrent(call) /\ session.active /\ wire' = Append(wire, [from |-> call.from, signal |-> call.signal])
<1>1. call \in CallRecords /\ <<>> \in Seq(Signals)
  BY DEF Types, PlayerTypes
<1>2. ASSUME NEW answer \in {"none", "ok", "error", "stopped"}, NEW batch \in Seq(Signals),
             Reply(call, answer, batch)
      PROVE  calls' \subseteq CallRecords /\ \A other \in calls : other # call => other \in calls'
  <2>1. [call EXCEPT !.answer = answer, !.batch = batch] \in CallRecords
    BY <1>1 DEF CallRecords
  <2>2. QED
    BY <1>2, <2>1 DEF Reply, Types, PlayerTypes
<1>3. CASE ExecutePoll(call)
  <2>1. wire' = wire
    BY <1>3 DEF ExecutePoll
  <2>2. CASE Reply(call, "error", <<>>) /\ UNCHANGED session
    BY <1>1, <1>2, <2>1, <2>2 DEF Types, BackendTypes
  <2>3. CASE Reply(call, "stopped", <<>>) /\ UNCHANGED session
    BY <1>1, <1>2, <2>1, <2>3 DEF Types, BackendTypes
  <2>4. ASSUME NEW outcome \in Outcomes,
               \/ session' = Taken(outcome) /\ Reply(call, "ok", outcome.pending)
               \/ session' = outcome /\ Reply(call, "error", <<>>)
        PROVE  /\ BackendTypes' /\ calls' \subseteq CallRecords
               /\ \A other \in calls : other # call => other \in calls'
               /\ session'.epoch = session.epoch /\ session'.generation = session.generation
               /\ session'.stopped = session.stopped /\ (session'.active => session.active)
    <3>1. /\ outcome \in Sessions /\ Len(outcome.pending) <= QueueLimit
          /\ outcome.generation = session.generation /\ outcome.epoch = session.epoch
          /\ outcome.stopped = session.stopped /\ (outcome.active => session.active)
      BY OutcomeTypes DEF Types
    <3>2. outcome.pending \in Seq(Signals)
      BY <3>1 DEF Sessions
    <3>3. /\ Taken(outcome) \in Sessions /\ Taken(outcome).pending = <<>>
          /\ Taken(outcome).generation = outcome.generation
          /\ Taken(outcome).epoch = outcome.epoch
          /\ Taken(outcome).stopped = outcome.stopped /\ Taken(outcome).active = outcome.active
      BY <1>1, <3>1 DEF Taken, Sessions
    <3>4. calls' \subseteq CallRecords /\ \A other \in calls : other # call => other \in calls'
      BY <1>1, <1>2, <2>4, <3>2
    <3>5. session' \in {Taken(outcome), outcome}
      BY <2>4
    <3>6. session' \in Sessions /\ Len(session'.pending) <= QueueLimit
      BY <3>1, <3>3, <3>5
    <3>7. QED
      BY <2>1, <3>1, <3>3, <3>4, <3>5, <3>6 DEF Types, BackendTypes
  <2>5. QED
    BY <1>3, <2>1, <2>2, <2>3, <2>4 DEF ExecutePoll
<1>4. CASE ExecuteSend(call)
  <2>1. /\ session' = session
        /\ Reply(call, "ok", <<>>) \/ Reply(call, "error", <<>>)
    BY <1>4 DEF ExecuteSend
  <2>2. calls' \subseteq CallRecords /\ \A other \in calls : other # call => other \in calls'
    BY <1>1, <1>2, <2>1
  <2>3. CASE MaySend(call) /\ wire' = Append(wire, [from |-> call.from, signal |-> call.signal])
    <3>1. [from |-> call.from, signal |-> call.signal] \in Sends
      BY <1>1 DEF CallRecords, Sends
    <3>2. wire' \in Seq(Sends)
      BY <2>3, <3>1 DEF Types, BackendTypes
    <3>3. QED
      BY <2>1, <2>2, <2>3, <3>2 DEF Types, BackendTypes, MaySend
  <2>4. CASE wire' = wire
    BY <2>1, <2>2, <2>4 DEF Types, BackendTypes
  <2>5. QED
    BY <1>4, <2>3, <2>4 DEF ExecuteSend
<1>5. CASE ExecuteReport(call)
  <2>1. /\ wire' = wire /\ Reply(call, "ok", <<>>)
        /\ session' \in {session, [session EXCEPT !.active = FALSE]}
    BY <1>5 DEF ExecuteReport
  <2>2. calls' \subseteq CallRecords /\ \A other \in calls : other # call => other \in calls'
    BY <1>1, <1>2, <2>1
  <2>3. QED
    BY <2>1, <2>2 DEF Types, BackendTypes, Sessions
<1>6. QED
  BY <1>3, <1>4, <1>5 DEF ExecuteCall

-----------------------------------------------------------------------------
(***************************************************************************)
(* The page and the player.                                                 *)
(***************************************************************************)
\* What a step of theirs may do to the contexts and the calls: only a new
\* context gets a generation, the one given; a context fails with its report
\* under way; and no call that is still to be executed disappears.
Moves(g) ==
  /\ \A c \in Contexts :
       /\ \/ context'[c].generation = context[c].generation
          \/ context[c].generation = 0 /\ context'[c].generation = g
       /\ context'[c].failed =>
            \/ Call(c, "failure", Answer) \in calls'
            \/ context[c].failed /\ context'[c].generation = context[c].generation
  /\ \A call \in calls : call.answer = "none" => call \in calls'

LEMMA StoppedType ==
  ASSUME NEW ctx \in ContextRecords
  PROVE  /\ Stopped(ctx) \in ContextRecords /\ Stopped(ctx).generation = ctx.generation
         /\ Stopped(ctx).closed /\ ~Stopped(ctx).failed
         /\ Stopped(ctx).pendingIce = <<>> /\ Stopped(ctx).localIce = <<>>
<1>1. "end" \in Places /\ ctx.generation \in {0} \cup Generations
  BY DEF Places, ContextRecords
<1>2. /\ NewContext(ctx.generation) \in ContextRecords
      /\ NewContext(ctx.generation).generation = ctx.generation
      /\ ~NewContext(ctx.generation).failed
      /\ NewContext(ctx.generation).pendingIce = <<>> /\ NewContext(ctx.generation).localIce = <<>>
  BY <1>1, NewContextType
<1>3. QED
  BY <1>1, <1>2 DEF Stopped, ContextRecords

LEMMA Appended ==
  ASSUME NEW S, NEW list \in Seq(S), NEW e \in S
  PROVE  /\ Append(list, e) \in Seq(S) /\ Append(list, e) # <<>>
         /\ Len(Append(list, e)) = Len(list) + 1
OBVIOUS

LEMMA Rest ==
  ASSUME NEW S, NEW list \in Seq(S), list # <<>>
  PROVE  Tail(list) \in Seq(S) /\ Head(list) \in S /\ Len(Tail(list)) = Len(list) - 1
OBVIOUS

LEMMA CallType ==
  ASSUME NEW c \in Contexts, NEW kind \in {"poll", "send", "failure"}, NEW signal \in 0..MaxLocal
  PROVE  Call(c, kind, signal) \in CallRecords /\ Call(c, kind, signal).answer = "none"
<1>1. <<>> \in Seq(Signals)
  OBVIOUS
<1>2. QED
  BY <1>1 DEF Call, CallRecords

LEMMA UnreadKeeps ==
  ASSUME PlayerTypes, NEW closed
  PROVE  /\ Unread(closed) \subseteq CallRecords
         /\ \A call \in calls : call.answer = "none" => call \in Unread(closed)
BY DEF Unread, PlayerTypes

LEMMA StoppingMoves ==
  ASSUME PlayerTypes, Chain, Stopping
  PROVE  PlayerTypes' /\ Chain' /\ Moves(0)
<1>1. /\ calls' \subseteq CallRecords /\ calls' \subseteq calls /\ current' = 0
      /\ \A call \in calls : call.answer = "none" => call \in calls'
  BY UnreadKeeps DEF Stopping, Unread
<1>2. CASE current = 0
  BY <1>1, <1>2 DEF Stopping, PlayerTypes, Chain, Moves
<1>3. CASE current # 0
  <2>1. /\ current \in Contexts /\ context' = [context EXCEPT ![current] = Stopped(@)]
        /\ context[current] \in ContextRecords /\ Len(<<>>) <= IceLimit
    BY <1>3 DEF Stopping, PlayerTypes
  <2>2. PlayerTypes'
    BY <1>1, <2>1, StoppedType DEF PlayerTypes
  <2>3. /\ \A d \in Contexts : context'[d] = context[d] \/ context'[d] = Stopped(context[d])
        /\ \A d \in Contexts : context'[d].generation = context[d].generation
    BY <2>1, StoppedType DEF PlayerTypes
  <2>4. Chain'
    BY <1>1, <2>3, StoppedType DEF PlayerTypes, CallRecords, Chain
  <2>5. QED
    BY <1>1, <2>1, <2>2, <2>4, StoppedType DEF PlayerTypes, Moves
<1>4. QED
  BY <1>2, <1>3

LEMMA SyncMoves ==
  ASSUME PlayerTypes, Chain, NEW s \in Answers, Sync(s)
  PROVE  PlayerTypes' /\ Chain' /\ Moves(s.generation)
<1>1. CASE Stopping
  BY <1>1, StoppingMoves DEF Moves
<1>2. CASE UNCHANGED <<playerVars, calls>>
  BY <1>2 DEF playerVars, PlayerTypes, Chain, Moves
<1>3. ASSUME NEW c \in Unused, s.generation # 0,
             /\ context' = [d \in Contexts |->
                  IF d = c THEN NewContext(s.generation)
                  ELSE IF d = current THEN Stopped(context[d]) ELSE context[d]]
             /\ calls' = Unread({current})
             /\ current' = c
      PROVE  PlayerTypes' /\ Chain' /\ Moves(s.generation)
  <2>1. /\ calls' \subseteq CallRecords /\ calls' \subseteq calls
        /\ \A call \in calls : call.answer = "none" => call \in calls'
    BY <1>3, UnreadKeeps DEF Unread
  <2>2. /\ c \in Contexts /\ context[c].generation = 0 /\ current' = c
        /\ s.generation \in {0} \cup Generations /\ Len(<<>>) <= IceLimit
    BY <1>3 DEF Unused, Answers
  <2>3. /\ NewContext(s.generation) \in ContextRecords
        /\ NewContext(s.generation).generation = s.generation
        /\ ~NewContext(s.generation).failed
        /\ NewContext(s.generation).pendingIce = <<>> /\ NewContext(s.generation).localIce = <<>>
    BY <2>2, NewContextType
  <2>4. \A d \in Contexts :
          /\ context'[d] \in ContextRecords
          /\ Len(context'[d].pendingIce) <= IceLimit /\ Len(context'[d].localIce) <= IceLimit
          /\ \/ context'[d].generation = context[d].generation
             \/ context[d].generation = 0 /\ context'[d].generation = s.generation
          /\ context'[d].failed => context'[d] = context[d]
          /\ d # c => context'[d] = context[d] \/ context'[d].closed
    <3> TAKE d \in Contexts
    <3>1. context[d] \in ContextRecords
      BY DEF PlayerTypes
    <3>2. CASE d = c
      BY <1>3, <2>2, <2>3, <3>2
    <3>3. CASE d # c /\ d = current
      BY <1>3, <2>2, <3>1, <3>3, StoppedType
    <3>4. CASE d # c /\ d # current
      BY <1>3, <3>1, <3>4 DEF PlayerTypes
    <3>5. QED
      BY <3>2, <3>3, <3>4
  <2>5. context' \in [Contexts -> ContextRecords]
    BY <1>3, <2>4
  <2>6. Chain'
    <3>1. context'[c].generation # 0
      BY <1>3, <2>2, <2>3
    <3>2. \A call \in calls : call.from \in Contexts /\ call.from # c
      BY <2>2 DEF PlayerTypes, CallRecords, Chain
    <3>3. \A d \in Contexts : context[d].generation # 0 => context'[d].generation # 0
      BY <2>4
    <3>4. QED
      BY <2>1, <2>2, <2>4, <3>1, <3>2, <3>3 DEF Chain
  <2>7. QED
    BY <2>1, <2>2, <2>4, <2>5, <2>6 DEF PlayerTypes, Moves
<1>4. QED
  BY <1>1, <1>2, <1>3 DEF Sync

LEMMA FailMoves ==
  ASSUME PlayerTypes, Chain, NEW c \in Contexts, IsOpen(c), Fail(c), UNCHANGED current
  PROVE  PlayerTypes' /\ Chain' /\ Moves(0)
<1>1. context[c] \in ContextRecords /\ Len(<<>>) <= IceLimit /\ Answer \in 0..MaxLocal
  BY DEF PlayerTypes, Answer
<1>2. /\ Call(c, "failure", Answer) \in CallRecords
      /\ Call(c, "failure", Answer) \in calls' /\ calls' \subseteq CallRecords
      /\ calls' \subseteq calls \cup {Call(c, "failure", Answer)}
      /\ \A call \in calls : call.answer = "none" => call \in calls'
  BY <1>1, CallType, UnreadKeeps DEF Fail, FailureReport, Unread
<1>3. context' = [context EXCEPT ![c] = [Stopped(@) EXCEPT !.failed = TRUE]]
  BY DEF Fail
<1>4. /\ context'[c] \in ContextRecords /\ context'[c].generation = context[c].generation
      /\ context'[c].closed /\ context'[c].pendingIce = <<>> /\ context'[c].localIce = <<>>
  <2>1. context'[c] = [Stopped(context[c]) EXCEPT !.failed = TRUE]
    BY <1>3 DEF PlayerTypes
  <2>2. QED
    BY <1>1, <2>1, StoppedType DEF ContextRecords
<1>5. \A d \in Contexts : d # c => context'[d] = context[d]
  BY <1>3 DEF PlayerTypes
<1>6. PlayerTypes'
  BY <1>1, <1>2, <1>3, <1>4, <1>5 DEF PlayerTypes
<1>7. Chain'
  <2>1. context[c].generation # 0
    BY DEF IsOpen, Chain, Contexts
  <2>2. Call(c, "failure", Answer).from = c
    BY DEF Call
  <2>3. \A d \in Contexts : context[d].generation # 0 => context'[d].generation # 0
    BY <1>4, <1>5
  <2>4. \A call \in calls' : call.from \in Contexts /\ context'[call.from].generation # 0
    BY <1>2, <2>1, <2>2, <2>3 DEF PlayerTypes, CallRecords, Chain
  <2>5. \A call \in calls' : ~context'[call.from].closed => call \in calls /\ call.from # c
    BY <1>2, <1>4, <2>2
  <2>6. QED
    BY <1>4, <1>5, <2>1, <2>3, <2>4, <2>5 DEF IsOpen, Chain
<1>8. QED
  BY <1>2, <1>4, <1>5, <1>6, <1>7 DEF Moves

\* A step that changes what an open context has taken, or is about to do.
LEMMA StepMoves ==
  ASSUME PlayerTypes, Chain, NEW c \in Contexts, NEW ctx \in ContextRecords,
         ctx.generation = context[c].generation, ctx.failed = context[c].failed,
         ctx.closed = context[c].closed, IsOpen(c),
         ctx.outgoing = <<>> => context[c].outgoing = <<>>,
         calls' \subseteq calls \cup {Call(c, "poll", Answer)},
         Len(ctx.pendingIce) <= IceLimit, Len(ctx.localIce) <= IceLimit,
         context' = [context EXCEPT ![c] = ctx], UNCHANGED current,
         calls' \subseteq CallRecords, \A call \in calls : call.answer = "none" => call \in calls'
  PROVE  PlayerTypes' /\ Chain' /\ Moves(0)
<1>1. context'[c] = ctx /\ \A d \in Contexts : d # c => context'[d] = context[d]
  BY DEF PlayerTypes
<1>2. PlayerTypes'
  BY <1>1 DEF PlayerTypes
<1>3. Chain'
  <2>1. context[c].generation # 0
    BY DEF IsOpen, Chain, Contexts
  <2>2. Call(c, "poll", Answer).from = c /\ Call(c, "poll", Answer).kind = "poll"
    BY DEF Call
  <2>3. \A d \in Contexts : context[d].generation # 0 => context'[d].generation # 0
    BY <1>1
  <2>4. \A call \in calls' : call.from \in Contexts /\ context'[call.from].generation # 0
    BY <2>1, <2>2, <2>3 DEF PlayerTypes, CallRecords, Chain
  <2>5. \A call \in calls' : call.kind = "send" => call \in calls
    BY <2>2
  <2>6. QED
    BY <1>1, <2>1, <2>3, <2>4, <2>5 DEF IsOpen, Chain
<1>4. QED
  BY <1>1, <1>2, <1>3 DEF Moves

\* The player's steps, by the places of its code.
LEMMA RunMoves ==
  ASSUME PlayerTypes, Chain, NEW c \in Contexts, Run(c)
  PROVE  PlayerTypes' /\ Chain' /\ Moves(0)
<1> DEFINE ctx == context[c]
<1>1. /\ ctx \in ContextRecords /\ Len(ctx.pendingIce) <= IceLimit /\ Len(ctx.localIce) <= IceLimit
      /\ IsOpen(c) /\ <<>> \in Seq(0..MaxLocal) /\ Len(<<>>) <= IceLimit /\ Answer \in 0..MaxLocal
      /\ \A p \in {"poll", "polling", "signal", "remote", "adding", "local", "answering", "flushing"} :
           p \in Places
  BY DEF PlayerTypes, Answer, Places, Run
<1> HIDE DEF ctx
<1>2. ASSUME NEW new \in ContextRecords, new.generation = ctx.generation, new.failed = ctx.failed,
             new.closed = ctx.closed, Len(new.pendingIce) <= IceLimit,
             Len(new.localIce) <= IceLimit, new.outgoing = <<>> => ctx.outgoing = <<>>,
             Step(c, new), UNCHANGED current
      PROVE  PlayerTypes' /\ Chain' /\ Moves(0)
  BY <1>1, <1>2, StepMoves DEF Step, PlayerTypes, ctx
<1>3. ASSUME Fail(c), UNCHANGED current PROVE PlayerTypes' /\ Chain' /\ Moves(0)
  BY <1>1, <1>3, FailMoves
<1>4. CASE Polled(c)
  <2>1. PICK call \in Returned(c, "poll") :
          \/ /\ context' = [context EXCEPT ![c].at = "signal", ![c].peer = TRUE, ![c].batch = call.batch]
             /\ calls' = calls \ {call} /\ UNCHANGED current
          \/ Fail(c) /\ UNCHANGED current
          \/ Stopping
    <3>1. \A call \in Returned(c, "poll") : call.answer \in {"ok", "error", "stopped"}
      BY DEF Returned, Awaited, PlayerTypes, CallRecords
    <3>2. QED
      BY <1>4, <3>1 DEF Polled
  <2>2. call \in calls /\ call.answer # "none" /\ call.batch \in Seq(Signals)
    BY <2>1 DEF Returned, Awaited, PlayerTypes, CallRecords
  <2>3. CASE /\ context' = [context EXCEPT ![c].at = "signal", ![c].peer = TRUE, ![c].batch = call.batch]
             /\ calls' = calls \ {call} /\ UNCHANGED current
    <3> DEFINE new == [ctx EXCEPT !.at = "signal", !.peer = TRUE, !.batch = call.batch]
    <3>1. /\ new \in ContextRecords /\ new.generation = ctx.generation /\ new.failed = ctx.failed
          /\ new.closed = ctx.closed /\ new.pendingIce = ctx.pendingIce /\ new.localIce = ctx.localIce
          /\ new.outgoing = ctx.outgoing
      BY <1>1, <2>2 DEF ContextRecords
    <3>2. context' = [context EXCEPT ![c] = new]
      BY <2>3 DEF ctx, PlayerTypes
    <3>3. calls' \subseteq CallRecords /\ \A other \in calls : other.answer = "none" => other \in calls'
      BY <2>2, <2>3 DEF PlayerTypes
    <3> HIDE DEF new
    <3>4. QED
      BY <1>1, <2>3, <3>1, <3>2, <3>3, StepMoves DEF ctx
  <2>4. QED
    BY <1>3, <2>1, <2>3, StoppingMoves
<1>5. CASE Poll(c) /\ UNCHANGED current
  <2> DEFINE new == [ctx EXCEPT !.at = "polling"]
  <2>1. /\ new \in ContextRecords /\ new.generation = ctx.generation /\ new.failed = ctx.failed
        /\ new.closed = ctx.closed /\ new.pendingIce = ctx.pendingIce /\ new.localIce = ctx.localIce
        /\ new.outgoing = ctx.outgoing
    BY <1>1 DEF ContextRecords
  <2>2. context' = [context EXCEPT ![c] = new] /\ calls' = calls \cup {Call(c, "poll", Answer)}
    BY <1>5 DEF Poll, Invoke, ctx, PlayerTypes
  <2>3. calls' \subseteq CallRecords /\ \A other \in calls : other.answer = "none" => other \in calls'
    BY <1>1, <2>2, CallType DEF PlayerTypes
  <2> HIDE DEF new
  <2>4. QED
    BY <1>1, <1>5, <2>1, <2>2, <2>3, StepMoves DEF ctx
<1>6. CASE Accept(c) /\ UNCHANGED current
  <2> DEFINE signal == Head(ctx.batch)
             rest   == [ctx EXCEPT !.batch = Tail(@), !.taken = Append(@, signal)]
  <2>1. /\ signal \in Signals /\ ctx.batch # <<>> /\ ctx.batch \in Seq(Signals)
        /\ Tail(ctx.batch) \in Seq(Signals) /\ Append(ctx.taken, signal) \in Seq(Signals)
    BY <1>1, <1>6 DEF Accept, ctx, ContextRecords
  <2> HIDE DEF signal
  <2>2. /\ rest \in ContextRecords /\ rest.generation = ctx.generation /\ rest.failed = ctx.failed
        /\ rest.closed = ctx.closed /\ rest.pendingIce = ctx.pendingIce /\ rest.localIce = ctx.localIce
        /\ rest.added = ctx.added /\ rest.outgoing = ctx.outgoing
    BY <1>1, <2>1 DEF ContextRecords
  <2>3. \/ Step(c, [rest EXCEPT !.answerSent = FALSE, !.at = "remote"])
        \/ Step(c, [rest EXCEPT !.added = @ \cup {signal}])
        \/ Len(ctx.pendingIce) < IceLimit /\ Step(c, [rest EXCEPT !.pendingIce = Append(@, signal)])
        \/ Fail(c)
    BY <1>6, <2>1 DEF Accept, KeptBack, ctx, signal, Signals
  <2> HIDE DEF rest
  <2>4. CASE Step(c, [rest EXCEPT !.answerSent = FALSE, !.at = "remote"])
    <3> DEFINE new == [rest EXCEPT !.answerSent = FALSE, !.at = "remote"]
    <3>1. /\ new \in ContextRecords /\ new.generation = ctx.generation /\ new.failed = ctx.failed
          /\ new.closed = ctx.closed /\ new.pendingIce = ctx.pendingIce /\ new.localIce = ctx.localIce
          /\ new.outgoing = ctx.outgoing
      BY <1>1, <2>2 DEF ContextRecords
    <3> HIDE DEF new
    <3>2. QED
      BY <1>1, <1>2, <1>6, <2>4, <3>1 DEF new
  <2>5. CASE Step(c, [rest EXCEPT !.added = @ \cup {signal}])
    <3> DEFINE new == [rest EXCEPT !.added = @ \cup {signal}]
    <3>1. /\ new \in ContextRecords /\ new.generation = ctx.generation /\ new.failed = ctx.failed
          /\ new.closed = ctx.closed /\ new.pendingIce = ctx.pendingIce /\ new.localIce = ctx.localIce
          /\ new.outgoing = ctx.outgoing
      <4>1. rest.added \cup {signal} \in SUBSET Signals
        BY <2>1, <2>2 DEF ContextRecords
      <4>2. QED
        BY <2>2, <4>1 DEF ContextRecords
    <3> HIDE DEF new
    <3>2. QED
      BY <1>1, <1>2, <1>6, <2>5, <3>1 DEF new
  <2>6. CASE Len(ctx.pendingIce) < IceLimit /\ Step(c, [rest EXCEPT !.pendingIce = Append(@, signal)])
    <3> DEFINE new == [rest EXCEPT !.pendingIce = Append(@, signal)]
    <3>0. /\ Append(rest.pendingIce, signal) \in Seq(Signals)
          /\ Len(Append(rest.pendingIce, signal)) <= IceLimit
      BY <1>1, <2>1, <2>2, <2>6 DEF ContextRecords
    <3>1. /\ new \in ContextRecords /\ new.generation = ctx.generation /\ new.failed = ctx.failed
          /\ new.closed = ctx.closed /\ Len(new.pendingIce) <= IceLimit /\ new.localIce = ctx.localIce
          /\ new.outgoing = ctx.outgoing
      BY <2>2, <3>0 DEF ContextRecords
    <3> HIDE DEF new
    <3>2. QED
      BY <1>1, <1>2, <1>6, <2>6, <3>1 DEF new
  <2>7. QED
    BY <1>3, <1>6, <2>3, <2>4, <2>5, <2>6
<1>7. CASE (SetRemote(c) \/ Flushed(c) \/ EndBatch(c)) /\ UNCHANGED current
  <2>1. ASSUME NEW new,
               new \in {[ctx EXCEPT !.remote = TRUE, !.at = "adding"],
                        [ctx EXCEPT !.at = "signal"], [ctx EXCEPT !.at = "poll"]}
        PROVE  /\ new \in ContextRecords /\ new.generation = ctx.generation
               /\ new.failed = ctx.failed /\ new.closed = ctx.closed
               /\ new.pendingIce = ctx.pendingIce /\ new.localIce = ctx.localIce
               /\ new.outgoing = ctx.outgoing
    BY <1>1, <2>1 DEF ContextRecords
  <2>2. \/ Fail(c)
        \/ \E new \in {[ctx EXCEPT !.remote = TRUE, !.at = "adding"],
                        [ctx EXCEPT !.at = "signal"], [ctx EXCEPT !.at = "poll"]} : Step(c, new)
    BY <1>7 DEF SetRemote, Flushed, EndBatch, ctx
  <2>3. QED
    BY <1>1, <1>2, <1>3, <1>7, <2>1, <2>2
<1>10. CASE AnswerSent(c) /\ UNCHANGED current
  <2> DEFINE new == [ctx EXCEPT !.at = "flushing", !.answerSent = TRUE,
                                !.outgoing = ctx.localIce, !.localIce = <<>>]
  <2>1. Step(c, new) /\ ctx.outgoing = <<>>
    BY <1>10 DEF AnswerSent, ctx
  <2>2. /\ new \in ContextRecords /\ new.generation = ctx.generation /\ new.failed = ctx.failed
        /\ new.closed = ctx.closed /\ new.pendingIce = ctx.pendingIce /\ new.localIce = <<>>
    BY <1>1 DEF ContextRecords
  <2> HIDE DEF new
  <2>3. QED
    BY <1>1, <1>2, <1>10, <2>1, <2>2
<1>8. CASE AddIce(c) /\ UNCHANGED current
  <2>1. \/ Fail(c)
        \/ Step(c, [ctx EXCEPT !.at = "local"])
        \/ /\ ctx.pendingIce # <<>>
           /\ Step(c, [ctx EXCEPT !.pendingIce = Tail(@), !.added = @ \cup {Head(ctx.pendingIce)}])
    BY <1>8 DEF AddIce, ctx
  <2>2. CASE Step(c, [ctx EXCEPT !.at = "local"])
    <3> DEFINE new == [ctx EXCEPT !.at = "local"]
    <3>1. /\ new \in ContextRecords /\ new.generation = ctx.generation /\ new.failed = ctx.failed
          /\ new.closed = ctx.closed /\ new.pendingIce = ctx.pendingIce /\ new.localIce = ctx.localIce
          /\ new.outgoing = ctx.outgoing
      BY <1>1 DEF ContextRecords
    <3> HIDE DEF new
    <3>2. QED
      BY <1>1, <1>2, <1>8, <2>2, <3>1 DEF new
  <2>3. CASE /\ ctx.pendingIce # <<>>
             /\ Step(c, [ctx EXCEPT !.pendingIce = Tail(@), !.added = @ \cup {Head(ctx.pendingIce)}])
    <3> DEFINE new == [ctx EXCEPT !.pendingIce = Tail(@), !.added = @ \cup {Head(ctx.pendingIce)}]
    <3>0. /\ Tail(ctx.pendingIce) \in Seq(Signals) /\ Len(Tail(ctx.pendingIce)) <= IceLimit
          /\ ctx.added \cup {Head(ctx.pendingIce)} \in SUBSET Signals
      <4>1. ctx.pendingIce \in Seq(Signals) /\ ctx.added \in SUBSET Signals
        BY <1>1 DEF ContextRecords
      <4>2. Len(Tail(ctx.pendingIce)) = Len(ctx.pendingIce) - 1 /\ Head(ctx.pendingIce) \in Signals
        BY <2>3, <4>1
      <4>3. QED
        BY <1>1, <2>3, <4>1, <4>2
    <3>1. /\ new \in ContextRecords /\ new.generation = ctx.generation /\ new.failed = ctx.failed
          /\ new.closed = ctx.closed /\ Len(new.pendingIce) <= IceLimit /\ new.localIce = ctx.localIce
          /\ new.outgoing = ctx.outgoing
      BY <1>1, <3>0 DEF ContextRecords
    <3> HIDE DEF new
    <3>2. QED
      BY <1>1, <1>2, <1>8, <2>3, <3>1 DEF new
  <2>4. QED
    BY <1>3, <1>8, <2>1, <2>2, <2>3
<1>9. CASE SetLocal(c) /\ UNCHANGED current
  <2> DEFINE new == Answering(ctx)
  <2>1. Fail(c) \/ Step(c, new)
    BY <1>9 DEF SetLocal, ctx
  <2>2. /\ Append(ctx.outgoing, Answer) \in Seq(0..MaxLocal)
        /\ Append(ctx.outgoing, Answer) # <<>>
    BY <1>1, Appended DEF ContextRecords
  <2>3. /\ new \in ContextRecords /\ new.generation = ctx.generation /\ new.failed = ctx.failed
        /\ new.closed = ctx.closed /\ new.pendingIce = ctx.pendingIce /\ new.localIce = ctx.localIce
        /\ new.outgoing = Append(ctx.outgoing, Answer) /\ new.outgoing # <<>>
    BY <1>1, <2>2 DEF ContextRecords, Answering
  <2> HIDE DEF new
  <2>4. QED
    BY <1>1, <1>2, <1>3, <1>9, <2>1, <2>3
<1>11. QED
  BY <1>4, <1>5, <1>6, <1>7, <1>8, <1>9, <1>10 DEF Run

LEMMA OutgoingMoves ==
  ASSUME PlayerTypes, Chain, NEW c \in Contexts, Outgoing(c)
  PROVE  PlayerTypes' /\ Chain' /\ Moves(0)
<1> DEFINE ctx == context[c]
<1>1. /\ ctx \in ContextRecords /\ Len(ctx.pendingIce) <= IceLimit /\ Len(ctx.localIce) <= IceLimit
      /\ ctx.outgoing \in Seq(0..MaxLocal) /\ UNCHANGED current /\ IsOpen(c)
      /\ ctx.generation # 0 /\ ~ctx.closed
  <2>1. /\ IsOpen(c) /\ current = c /\ c # 0 /\ ~context[c].closed
        /\ UNCHANGED current /\ context[c] \in ContextRecords
    BY DEF PlayerTypes, Outgoing, IsOpen, Contexts
  <2>2. context[c].generation # 0
    BY <2>1 DEF Chain
  <2>3. context[c].outgoing \in Seq(0..MaxLocal)
    BY <2>1 DEF ContextRecords
  <2>4. QED
    BY <2>1, <2>2, <2>3 DEF PlayerTypes
<1> HIDE DEF ctx
<1>2. CASE SendNext(c)
  <2> DEFINE call == Call(c, "send", Head(ctx.outgoing))
  <2>1. /\ Head(ctx.outgoing) \in 0..MaxLocal /\ context' = context /\ ctx.outgoing # <<>>
        /\ calls' = calls \cup {call} /\ Awaited(c, "send") = {}
    BY <1>1, <1>2 DEF SendNext, ctx
  <2>2. calls' \subseteq CallRecords /\ call.from = c
    BY <2>1, CallType DEF PlayerTypes, Call
  <2> HIDE DEF call
  <2>3. \A other \in calls : ~(other.kind = "send" /\ other.from = c)
    BY <2>1 DEF Awaited
  <2>4. Chain'
    BY <1>1, <2>1, <2>2, <2>3 DEF Chain, ctx
  <2>5. QED
    BY <1>1, <2>1, <2>2, <2>4 DEF PlayerTypes, Moves
<1>3. CASE Sent(c)
  <2>1. PICK call \in Returned(c, "send") :
          \/ context' = [context EXCEPT ![c].outgoing = Tail(@)] /\ calls' = calls \ {call}
          \/ Fail(c)
    BY <1>3 DEF Sent
  <2>2. call \in calls /\ call.answer # "none" /\ call.kind = "send" /\ call.from = c
    BY <2>1 DEF Returned, Awaited
  <2>3. CASE context' = [context EXCEPT ![c].outgoing = Tail(@)] /\ calls' = calls \ {call}
    <3> DEFINE new == [ctx EXCEPT !.outgoing = Tail(@)]
    <3>1. /\ calls' \subseteq CallRecords
          /\ \A other \in calls : other.answer = "none" => other \in calls'
      BY <2>2, <2>3 DEF PlayerTypes
    <3>2. ctx.outgoing # <<>> /\ \A other \in calls' : ~(other.kind = "send" /\ other.from = c)
      BY <1>1, <2>2, <2>3 DEF Chain, ctx
    <3>3. Tail(ctx.outgoing) \in Seq(0..MaxLocal)
      BY <1>1, <3>2, Rest
    <3>4. /\ new \in ContextRecords /\ new.generation = ctx.generation /\ new.failed = ctx.failed
          /\ new.closed = ctx.closed /\ new.pendingIce = ctx.pendingIce /\ new.localIce = ctx.localIce
      BY <1>1, <3>3 DEF ContextRecords
    <3>5. context' = [context EXCEPT ![c] = new]
      BY <2>3 DEF ctx, PlayerTypes
    <3> HIDE DEF new
    <3>6. context'[c] = new /\ \A d \in Contexts : d # c => context'[d] = context[d]
      BY <3>5 DEF PlayerTypes
    <3>7. PlayerTypes'
      BY <1>1, <3>1, <3>4, <3>5, <3>6 DEF PlayerTypes, ctx
    <3>8. Chain'
      <4>1. \A other \in calls' : other \in calls /\ other.from \in Contexts
        BY <2>3 DEF PlayerTypes, CallRecords
      <4>2. \A d \in Contexts : context'[d].generation = context[d].generation
        BY <3>4, <3>6 DEF ctx
      <4>3. QED
        BY <1>1, <3>2, <3>6, <4>1, <4>2 DEF Chain, IsOpen
    <3>9. QED
      BY <3>1, <3>4, <3>6, <3>7, <3>8 DEF Moves, ctx
  <2>4. QED
    BY <1>1, <2>1, <2>3, FailMoves
<1>4. QED
  BY <1>2, <1>3 DEF Outgoing

LEMMA PeerMoves ==
  ASSUME PlayerTypes, Chain, NEW c \in Contexts, Peer(c)
  PROVE  PlayerTypes' /\ Chain' /\ Moves(0)
<1> DEFINE ctx == context[c]
<1>1. /\ ctx \in ContextRecords /\ Len(ctx.pendingIce) <= IceLimit /\ Len(ctx.localIce) <= IceLimit
      /\ UNCHANGED current /\ IsOpen(c)
  BY DEF PlayerTypes, Peer
<1> HIDE DEF ctx
<1>2. CASE Fail(c)
  BY <1>1, <1>2, FailMoves
<1>3. ASSUME NEW new \in ContextRecords, new.generation = ctx.generation, new.failed = ctx.failed,
             new.closed = ctx.closed, Len(new.pendingIce) <= IceLimit,
             Len(new.localIce) <= IceLimit, new.outgoing = <<>> => ctx.outgoing = <<>>,
             Step(c, new)
      PROVE  PlayerTypes' /\ Chain' /\ Moves(0)
  BY <1>1, <1>3, StepMoves DEF Step, PlayerTypes, ctx
<1>4. CASE Gather(c)
  <2>1. ctx.gathered + 1 \in 0..MaxLocal
    <3>1. ctx.gathered < MaxLocal
      BY <1>4 DEF Gather, ctx
    <3>2. QED
      BY <1>1, <3>1 DEF ContextRecords
  <2>2. \/ Step(c, [ctx EXCEPT !.gathered = @ + 1, !.outgoing = Append(@, ctx.gathered + 1)])
        \/ /\ Len(ctx.localIce) < IceLimit
           /\ Step(c, [ctx EXCEPT !.gathered = @ + 1, !.localIce = Append(@, ctx.gathered + 1)])
        \/ Fail(c)
    BY <1>1, <1>4 DEF Gather, ctx, ContextRecords
  <2>3. CASE Step(c, [ctx EXCEPT !.gathered = @ + 1, !.outgoing = Append(@, ctx.gathered + 1)])
    <3> DEFINE new == [ctx EXCEPT !.gathered = @ + 1, !.outgoing = Append(@, ctx.gathered + 1)]
    <3>1. Append(ctx.outgoing, ctx.gathered + 1) \in Seq(0..MaxLocal)
      BY <1>1, <2>1 DEF ContextRecords
    <3>2. Append(ctx.outgoing, ctx.gathered + 1) # <<>>
      BY <1>1, <2>1, Appended DEF ContextRecords
    <3>3. /\ new \in ContextRecords /\ new.generation = ctx.generation /\ new.failed = ctx.failed
          /\ new.closed = ctx.closed /\ new.pendingIce = ctx.pendingIce /\ new.localIce = ctx.localIce
          /\ new.outgoing # <<>>
      BY <1>1, <2>1, <3>1, <3>2 DEF ContextRecords
    <3> HIDE DEF new
    <3>4. QED
      BY <1>1, <1>3, <2>3, <3>3 DEF new
  <2>4. CASE /\ Len(ctx.localIce) < IceLimit
             /\ Step(c, [ctx EXCEPT !.gathered = @ + 1, !.localIce = Append(@, ctx.gathered + 1)])
    <3> DEFINE new == [ctx EXCEPT !.gathered = @ + 1, !.localIce = Append(@, ctx.gathered + 1)]
    <3>1. /\ Append(ctx.localIce, ctx.gathered + 1) \in Seq(0..MaxLocal)
          /\ Len(Append(ctx.localIce, ctx.gathered + 1)) <= IceLimit
      <4>1. ctx.localIce \in Seq(0..MaxLocal)
        BY <1>1 DEF ContextRecords
      <4>2. QED
        BY <2>1, <2>4, <4>1
    <3>2. /\ new \in ContextRecords /\ new.generation = ctx.generation /\ new.failed = ctx.failed
          /\ new.closed = ctx.closed /\ new.pendingIce = ctx.pendingIce
          /\ Len(new.localIce) <= IceLimit /\ new.outgoing = ctx.outgoing
      BY <1>1, <2>1, <3>1 DEF ContextRecords
    <3> HIDE DEF new
    <3>3. QED
      BY <1>1, <1>3, <2>4, <3>2 DEF new
  <2>5. QED
    BY <1>2, <2>2, <2>3, <2>4
<1>5. QED
  BY <1>2, <1>4 DEF Peer, PeerFails, CallTimesOut

-----------------------------------------------------------------------------
(***************************************************************************)
(* All steps.                                                               *)
(***************************************************************************)
\* What the requests of the page say is true, if old: nobody has heard of a
\* generation that has not begun, and what is going to be shown is never older
\* than what is.
Known ==
  /\ session.generation <= session.epoch /\ (session.active => session.generation # 0)
  /\ \A c \in Contexts : context[c].generation <= session.epoch
  /\ shown.generation <= session.epoch /\ shown.epoch <= session.epoch
  /\ action.at = "answered" =>
       /\ action.answer.generation <= session.epoch
       /\ shown.epoch <= action.answer.epoch /\ action.answer.epoch <= session.epoch
  /\ refresh.at = "answered" =>
       /\ refresh.answer.generation <= session.epoch /\ refresh.answer.epoch <= session.epoch
       /\ action = Idle => shown.epoch <= refresh.answer.epoch

\* What was sent comes from a context of the session.
Owned ==
  \A i \in DOMAIN wire :
    /\ context[wire[i].from].generation = session.generation
    /\ context[wire[i].from].generation # 0

\* A failed context of a session that goes on is about to report it.
Reporting ==
  \A c \in Contexts :
    context[c].failed /\ context[c].generation = session.generation
      /\ session.active /\ ~session.stopped
        => Call(c, "failure", Answer) \in calls

Inductive == Types /\ Known /\ Owned /\ Reporting

LEMMA InitInductive == Init => Inductive
<1> SUFFICES ASSUME Init PROVE Inductive
  OBVIOUS
<1>1. Types
  BY InitTypes
<1>2. Known
  BY NoSessionType, NoContextType DEF Init, Known, Idle
<1>3. Owned /\ Reporting
  BY NoSessionType, NoContextType DEF Init, Owned, Reporting
<1>4. QED
  BY <1>1, <1>2, <1>3 DEF Inductive

LEMMA ExecutionStep ==
  ASSUME Inductive, NEW command \in UserCommands \cup {"refresh"}, Executed(command),
         UNCHANGED <<playerVars, calls>>
  PROVE  /\ BackendTypes' /\ PlayerTypes' /\ Chain' /\ Owned' /\ Reporting'
         /\ session.epoch <= session'.epoch /\ session'.generation <= session'.epoch
         /\ session'.active => session'.generation # 0
         /\ \A c \in Contexts : context'[c].generation <= session'.epoch
         /\ session.epoch \in Nat /\ session'.epoch \in Nat
<1>1. BackendTypes' /\ Grown
  BY ExecutedGrows DEF Inductive, Types
<1>2. PlayerTypes' /\ Chain' /\ context' = context /\ calls' = calls
  BY DEF Inductive, Types, PlayerTypes, Chain, playerVars
<1>3. /\ session.epoch \in Nat /\ session.generation \in Nat
      /\ \A c \in Contexts : context[c].generation \in Nat /\ context[c].generation <= session.epoch
  <2>1. session.epoch \in 0..MaxSessions /\ session.generation \in {0} \cup 1..MaxSessions
    BY DEF Inductive, Types, BackendTypes, Sessions, Generations
  <2>2. \A c \in Contexts : context[c].generation \in {0} \cup 1..MaxSessions
    BY DEF Inductive, Types, PlayerTypes, ContextRecords, Generations
  <2>3. \A c \in Contexts : context[c].generation <= session.epoch
    BY DEF Inductive, Known
  <2>4. QED
    BY <2>1, <2>2, <2>3
<1>4. CASE /\ session'.epoch = session.epoch /\ session'.generation = session.generation
           /\ session'.stopped = session.stopped /\ (session'.active => session.active)
           /\ wire' = wire
  <2>1. Owned' /\ Reporting'
    BY <1>2, <1>4 DEF Inductive, Owned, Reporting
  <2>2. QED
    BY <1>1, <1>2, <1>3, <1>4, <2>1 DEF Inductive, Known
<1>5. CASE /\ session'.epoch = session.epoch + 1 /\ session'.generation = session.generation
           /\ ~session'.active /\ wire' = wire
  <2>1. Owned' /\ Reporting'
    BY <1>2, <1>5 DEF Inductive, Owned, Reporting
  <2>2. QED
    BY <1>1, <1>2, <1>3, <1>5, <2>1 DEF Inductive, Known
<1>6. CASE /\ session'.epoch = session.epoch + 1
           /\ \/ session'.generation = session'.epoch
              \/ session'.generation = 0 /\ ~session'.active
           /\ wire' = <<>>
  <2>1. Owned'
    BY <1>6 DEF Owned
  <2>2. Reporting'
    BY <1>2, <1>3, <1>6 DEF Reporting
  <2>3. /\ session.epoch <= session'.epoch /\ session'.generation <= session'.epoch
        /\ session'.epoch \in Nat
        /\ \A c \in Contexts : context'[c].generation <= session'.epoch
    BY <1>2, <1>3, <1>6
  <2>4. session'.active => session'.generation # 0
    BY <1>3, <1>6
  <2>5. QED
    BY <1>1, <1>2, <1>3, <2>1, <2>2, <2>3, <2>4
<1>7. QED
  BY <1>1, <1>4, <1>5, <1>6 DEF Grown

LEMMA CommandStep ==
  ASSUME Inductive, ExecuteAction \/ ExecuteRefresh \/ ExecuteAbandoned
  PROVE  Inductive'
<1> DEFINE told == [generation |-> session'.generation, stopped |-> session'.stopped,
                    epoch |-> session'.epoch]
<1>1. ASSUME BackendTypes' PROVE told \in Answers
  BY <1>1 DEF BackendTypes, Sessions, Answers
<1>2. /\ told.generation = session'.generation /\ told.epoch = session'.epoch
  OBVIOUS
<1>3. /\ shown.generation \in Nat /\ shown.epoch \in Nat
      /\ action.answer.generation \in Nat /\ action.answer.epoch \in Nat
      /\ refresh.answer.generation \in Nat /\ refresh.answer.epoch \in Nat
  BY DEF Inductive, Types, PageTypes, Answers, Generations
<1>4. CASE ExecuteAction
  <2>1. /\ action.kind \in UserCommands /\ action.at = "queued"
        /\ Executed(action.kind) /\ UNCHANGED <<playerVars, calls, shown, refresh, abandoned>>
        /\ action' = [action EXCEPT !.at = "answered", !.answer = told]
    BY <1>4 DEF ExecuteAction, Answered, Inductive, Types, PageTypes
  <2>2. /\ BackendTypes' /\ PlayerTypes' /\ Chain' /\ Owned' /\ Reporting'
        /\ session.epoch <= session'.epoch /\ session'.generation <= session'.epoch
        /\ session'.active => session'.generation # 0
        /\ \A c \in Contexts : context'[c].generation <= session'.epoch
        /\ session.epoch \in Nat /\ session'.epoch \in Nat
    BY <2>1, ExecutionStep
  <2>3. action' \in Requests /\ action'.at = "answered" /\ action'.answer = told
    BY <1>1, <2>1, <2>2 DEF Inductive, Types, PageTypes, Requests
  <2>4. PageTypes'
    BY <1>1, <2>1, <2>2, <2>3 DEF Inductive, Types, PageTypes
  <2>5. action' # Idle
    BY <2>3 DEF Idle
  <2>6. Known'
    BY <1>2, <1>3, <2>1, <2>2, <2>3, <2>5 DEF Inductive, Known
  <2>7. QED
    BY <2>2, <2>4, <2>6 DEF Inductive, Types
<1>5. CASE ExecuteRefresh
  <2>1. /\ Executed("refresh") /\ UNCHANGED <<playerVars, calls, shown, action, abandoned>>
        /\ refresh' = [refresh EXCEPT !.at = "answered", !.answer = told]
    BY <1>5 DEF ExecuteRefresh, Answered
  <2>2. /\ BackendTypes' /\ PlayerTypes' /\ Chain' /\ Owned' /\ Reporting'
        /\ session.epoch <= session'.epoch /\ session'.generation <= session'.epoch
        /\ session'.active => session'.generation # 0
        /\ \A c \in Contexts : context'[c].generation <= session'.epoch
        /\ session.epoch \in Nat /\ session'.epoch \in Nat
    BY <2>1, ExecutionStep
  <2>3. refresh' \in Requests /\ refresh'.answer = told
    BY <1>1, <2>1, <2>2 DEF Inductive, Types, PageTypes, Requests
  <2>4. PageTypes'
    BY <1>1, <2>1, <2>2, <2>3 DEF Inductive, Types, PageTypes
  <2>5. Known'
    BY <1>2, <1>3, <2>1, <2>2, <2>3 DEF Inductive, Known
  <2>6. QED
    BY <2>2, <2>4, <2>5 DEF Inductive, Types
<1>6. CASE ExecuteAbandoned
  <2>1. PICK command \in abandoned :
          /\ Executed(command) /\ abandoned' = abandoned \ {command}
          /\ UNCHANGED <<playerVars, calls, shown, action, refresh>>
    BY <1>6 DEF ExecuteAbandoned
  <2>2. command \in UserCommands \cup {"refresh"}
    BY DEF Inductive, Types, PageTypes
  <2>3. /\ BackendTypes' /\ PlayerTypes' /\ Chain' /\ Owned' /\ Reporting'
        /\ session.epoch <= session'.epoch /\ session'.generation <= session'.epoch
        /\ session'.active => session'.generation # 0
        /\ \A c \in Contexts : context'[c].generation <= session'.epoch
        /\ session.epoch \in Nat /\ session'.epoch \in Nat
    BY <2>1, <2>2, ExecutionStep
  <2>4. PageTypes'
    BY <2>1 DEF Inductive, Types, PageTypes
  <2>5. Known'
    BY <1>3, <2>1, <2>3 DEF Inductive, Known
  <2>6. QED
    BY <2>3, <2>4, <2>5 DEF Inductive, Types
<1>7. QED
  BY <1>4, <1>5, <1>6

LEMMA CallStep ==
  ASSUME Inductive, NEW call \in calls, ExecuteCall(call)
  PROVE  Inductive'
<1>1. /\ BackendTypes' /\ calls' \subseteq CallRecords
      /\ \A other \in calls : other # call => other \in calls'
      /\ session'.epoch = session.epoch /\ session'.generation = session.generation
      /\ session'.stopped = session.stopped /\ (session'.active => session.active)
      /\ \/ wire' = wire
         \/ /\ IsCurrent(call) /\ session.active
            /\ wire' = Append(wire, [from |-> call.from, signal |-> call.signal])
  <2>1. Types
    BY DEF Inductive
  <2>2. QED
    BY <2>1, CallTypes
<1>2. UNCHANGED <<playerVars, pageVars>> /\ context' = context /\ current' = current
  BY DEF ExecuteCall, playerVars
<1>3. PlayerTypes' /\ PageTypes'
  <2>1. PlayerTypes'
    BY <1>1, <1>2 DEF Inductive, Types, PlayerTypes
  <2>2. PageTypes'
    BY <1>2 DEF Inductive, Types, PageTypes, pageVars
  <2>3. QED
    BY <2>1, <2>2
<1>4. Chain'
  <2>1. \E answer, batch : Reply(call, answer, batch)
    BY DEF ExecuteCall, ExecutePoll, ExecuteSend, ExecuteReport
  <2>2. \E answer, batch :
          calls' \subseteq (calls \ {call}) \cup {[call EXCEPT !.answer = answer, !.batch = batch]}
    BY <2>1 DEF Reply
  <2>3. call \in CallRecords
    BY DEF Inductive, Types, PlayerTypes
  <2>4. PICK new : /\ calls' \subseteq (calls \ {call}) \cup {new}
                   /\ new.from = call.from /\ new.kind = call.kind
    BY <2>2, <2>3 DEF CallRecords
  <2>5. QED
    BY <1>2, <2>4 DEF Inductive, Types, Chain
<1>5. Known'
  BY <1>1, <1>2 DEF Inductive, Known, pageVars
<1>6. Owned'
  <2>1. CASE wire' = wire
    BY <1>1, <1>2, <2>1 DEF Inductive, Owned
  <2>2. CASE /\ IsCurrent(call) /\ session.active
             /\ wire' = Append(wire, [from |-> call.from, signal |-> call.signal])
    <3>1. wire \in Seq(Sends)
      BY DEF Inductive, Types, BackendTypes
    <3>2. \A i \in DOMAIN wire' : \/ i \in DOMAIN wire /\ wire'[i] = wire[i]
                                  \/ wire'[i] = [from |-> call.from, signal |-> call.signal]
      BY <2>2, <3>1
    <3>3. /\ context[call.from].generation = session.generation
          /\ context[call.from].generation # 0
      BY <2>2 DEF IsCurrent, Inductive, Known
    <3>4. QED
      BY <1>1, <1>2, <3>2, <3>3 DEF Inductive, Owned
  <2>3. QED
    BY <1>1, <2>1, <2>2
<1>7. Reporting'
  <2> SUFFICES ASSUME NEW c \in Contexts, context[c].failed,
                      context[c].generation = session.generation,
                      session'.active, session.active, ~session.stopped
               PROVE  Call(c, "failure", Answer) \in calls'
    BY <1>1, <1>2 DEF Reporting
  <2>1. Call(c, "failure", Answer) \in calls
    BY DEF Inductive, Reporting
  <2>2. CASE call # Call(c, "failure", Answer)
    BY <1>1, <2>1, <2>2
  <2>3. CASE call = Call(c, "failure", Answer)
    <3>1. call.kind = "failure" /\ call.from = c
      BY <2>3 DEF Call
    <3>2. ExecuteReport(call) /\ IsCurrent(call)
      BY <3>1 DEF ExecuteCall, ExecutePoll, ExecuteSend, IsCurrent
    <3>3. session' = [session EXCEPT !.active = FALSE]
      BY <3>2 DEF ExecuteReport
    <3>4. ~session'.active
      BY <3>3 DEF Inductive, Types, BackendTypes, Sessions
    <3>5. QED
      BY <3>4
  <2>4. QED
    BY <2>2, <2>3
<1>8. QED
  BY <1>1, <1>3, <1>4, <1>5, <1>6, <1>7 DEF Inductive, Types

\* The page and the player leave the session alone.
LEMMA MovesKeep ==
  ASSUME Inductive, UNCHANGED backendVars, NEW g \in Nat, g <= session.epoch, Moves(g)
  PROVE  /\ BackendTypes' /\ Owned' /\ Reporting'
         /\ \A c \in Contexts : context'[c].generation <= session.epoch
<1>1. session' = session /\ wire' = wire /\ BackendTypes'
  BY DEF backendVars, Inductive, Types, BackendTypes
<1>2. \A c \in Contexts : context'[c].generation <= session.epoch
  BY DEF Moves, Inductive, Known
<1>3. Owned'
  <2>1. \A i \in DOMAIN wire : wire[i].from \in Contexts
    <3>1. wire \in Seq(Sends) /\ \A one \in Sends : one.from \in Contexts
      BY DEF Inductive, Types, BackendTypes, Sends
    <3>2. QED
      BY <3>1
  <2>2. QED
    BY <1>1, <2>1 DEF Moves, Inductive, Owned
<1>4. Reporting'
  <2> SUFFICES ASSUME NEW c \in Contexts, context'[c].failed,
                      context'[c].generation = session.generation,
                      session.active, ~session.stopped
               PROVE  Call(c, "failure", Answer) \in calls'
    BY <1>1 DEF Reporting
  <2>1. Call(c, "failure", Answer).answer = "none"
    BY DEF Call
  <2>2. CASE context[c].failed /\ context'[c].generation = context[c].generation
    <3>1. Call(c, "failure", Answer) \in calls
      BY <2>2 DEF Inductive, Reporting
    <3>2. QED
      BY <2>1, <3>1 DEF Moves
  <2>3. QED
    BY <2>2 DEF Moves
<1>5. QED
  BY <1>1, <1>2, <1>3, <1>4

LEMMA PlayerStep ==
  ASSUME Inductive, NEW c \in Contexts, Run(c) \/ Outgoing(c) \/ Peer(c)
  PROVE  Inductive'
<1>1. UNCHANGED <<backendVars, pageVars>>
  BY DEF Run, Outgoing, Peer
<1>2. PlayerTypes' /\ Chain' /\ Moves(0)
  BY RunMoves, OutgoingMoves, PeerMoves DEF Inductive, Types
<1>3. 0 \in Nat /\ 0 <= session.epoch
  BY DEF Inductive, Types, BackendTypes, Sessions
<1>4. /\ BackendTypes' /\ Owned' /\ Reporting'
      /\ \A d \in Contexts : context'[d].generation <= session.epoch
  BY <1>1, <1>2, <1>3, MovesKeep
<1>5. PageTypes'
  BY <1>1 DEF pageVars, Inductive, Types, PageTypes
<1>6. Known'
  BY <1>1, <1>4 DEF backendVars, pageVars, Inductive, Known
<1>7. QED
  BY <1>2, <1>4, <1>5, <1>6 DEF Inductive, Types

\* The requests the page makes.
LEMMA RequestTypes ==
  /\ Idle \in Requests /\ Idle.at = "none" /\ Idle.answer \in Answers
  /\ Queued("refresh") \in Requests /\ Queued("refresh").at = "queued"
  /\ \A kind \in UserCommands :
       /\ Queued(kind) \in Requests /\ Queued(kind).at = "queued" /\ Queued(kind).kind = kind
  /\ \A kind : Queued(kind).answer = Idle.answer
  /\ [Idle EXCEPT !.at = "draining"] \in Requests
  /\ [Idle EXCEPT !.at = "draining"].at = "draining"
  /\ [Idle EXCEPT !.at = "draining"].answer = Idle.answer
<1>1. Idle \in Requests /\ Idle.at = "none" /\ Idle.answer \in Answers
  <2>1. Idle.answer \in Answers /\ Idle.answer = [generation |-> 0, stopped |-> FALSE, epoch |-> 0]
    BY DEF Idle, Answers
  <2>2. QED
    BY <2>1 DEF Idle, Requests
<1> HIDE DEF Idle
<1>2. \A kind \in UserCommands \cup {"none", "refresh"} :
        /\ Queued(kind) \in Requests /\ Queued(kind).at = "queued" /\ Queued(kind).kind = kind
  BY <1>1 DEF Queued, Requests
<1>3. \A kind : Queued(kind).answer = Idle.answer
  BY <1>1 DEF Queued, Requests
<1>4. /\ [Idle EXCEPT !.at = "draining"] \in Requests
      /\ [Idle EXCEPT !.at = "draining"].at = "draining"
      /\ [Idle EXCEPT !.at = "draining"].answer = Idle.answer
  BY <1>1 DEF Requests
<1>5. QED
  BY <1>1, <1>2, <1>3, <1>4

\* After an action the page is idle, or waits for the old refresh.
LEMMA DrainTypes ==
  ASSUME PageTypes, Drain
  PROVE  /\ action' \in Requests /\ refresh' \in Requests
         /\ {action'.answer, refresh'.answer} \subseteq Answers
         /\ action'.at \in {"none", "draining"}
         /\ \/ refresh'.at = "queued"
            \/ refresh' = refresh /\ action' # Idle
<1>1. CASE refresh = Idle /\ action' = Idle /\ refresh' = Queued("refresh")
  BY <1>1, RequestTypes
<1>2. CASE refresh # Idle /\ action' = [Idle EXCEPT !.at = "draining"] /\ UNCHANGED refresh
  <2>1. action' # Idle
    BY <1>2, RequestTypes
  <2>2. QED
    BY <1>2, <2>1, RequestTypes DEF PageTypes
<1>3. QED
  BY <1>1, <1>2 DEF Drain

\* A step of the page that shows an answer, or nothing new.
LEMMA Shown ==
  ASSUME Inductive, UNCHANGED backendVars, PageTypes',
         \/ UNCHANGED <<shown, playerVars, calls>>
         \/ \E answer \in Answers : /\ shown' = answer /\ Sync(answer)
                                   /\ answer.generation <= session.epoch
                                   /\ answer.epoch <= session.epoch,
         action'.at # "answered",
         refresh'.at = "answered" =>
           /\ refresh' = refresh
           /\ action' = Idle => shown'.epoch <= refresh.answer.epoch
  PROVE  Inductive'
<1>1. /\ session.epoch \in Nat
      /\ \A answer \in Answers : answer.generation \in Nat /\ answer.epoch \in Nat
  BY DEF Inductive, Types, BackendTypes, Sessions, Answers, Generations
<1>2. session' = session
  BY DEF backendVars
<1>3. /\ PlayerTypes' /\ Chain' /\ BackendTypes' /\ Owned' /\ Reporting'
      /\ \A c \in Contexts : context'[c].generation <= session.epoch
      /\ shown'.generation <= session.epoch /\ shown'.epoch <= session.epoch
  <2>1. CASE UNCHANGED <<shown, playerVars, calls>>
    <3>1. /\ context' = context /\ current' = current /\ calls' = calls
          /\ session' = session /\ wire' = wire /\ shown' = shown
      BY <2>1 DEF playerVars, backendVars
    <3>2. PlayerTypes' /\ Chain' /\ BackendTypes'
      BY <3>1 DEF Inductive, Types, PlayerTypes, Chain, BackendTypes
    <3>3. Owned' /\ Reporting'
      BY <3>1 DEF Inductive, Owned, Reporting
    <3>4. QED
      BY <3>1, <3>2, <3>3 DEF Inductive, Known
  <2>2. ASSUME NEW answer \in Answers, shown' = answer, Sync(answer),
               answer.generation <= session.epoch, answer.epoch <= session.epoch
        PROVE  /\ PlayerTypes' /\ Chain' /\ BackendTypes' /\ Owned' /\ Reporting'
               /\ \A c \in Contexts : context'[c].generation <= session.epoch
               /\ shown'.generation <= session.epoch /\ shown'.epoch <= session.epoch
    <3>1. PlayerTypes' /\ Chain' /\ Moves(answer.generation)
      BY <2>2, SyncMoves DEF Inductive, Types
    <3>2. /\ BackendTypes' /\ Owned' /\ Reporting'
          /\ \A c \in Contexts : context'[c].generation <= session.epoch
      BY <1>1, <2>2, <3>1, MovesKeep
    <3>3. QED
      BY <2>2, <3>1, <3>2
  <2>3. QED
    BY <2>1, <2>2
<1>4. Known'
  <2>1. session.generation <= session.epoch /\ (session.active => session.generation # 0)
    BY DEF Inductive, Known
  <2>2. refresh'.at = "answered" =>
          refresh'.answer.generation <= session.epoch /\ refresh'.answer.epoch <= session.epoch
    BY DEF Inductive, Known
  <2>3. QED
    BY <1>2, <1>3, <2>1, <2>2 DEF Known
<1>5. QED
  BY <1>3, <1>4 DEF Inductive, Types

LEMMA PageStep ==
  ASSUME Inductive, Page \/ BeginRefresh \/ \E command \in UserCommands : Act(command)
  PROVE  Inductive' /\ shown.epoch <= shown'.epoch
<1>1. /\ PageTypes /\ Known
      /\ \A answer \in Answers : answer.generation \in Nat /\ answer.epoch \in Nat
      /\ shown \in Answers /\ action.answer \in Answers /\ refresh.answer \in Answers
      /\ UNCHANGED backendVars
  BY DEF Inductive, Types, PageTypes, Answers, Generations, Page, BeginRefresh, Act,
         ActionReturns, ActionTimesOut, ActionEnds, RefreshReturns, RefreshTimesOut
<1>2. ASSUME NEW command \in UserCommands, Act(command)
      PROVE  Inductive' /\ shown.epoch <= shown'.epoch
  <2>1. /\ action' = Queued(command) /\ UNCHANGED <<playerVars, calls, shown, refresh, abandoned>>
        /\ action'.at = "queued" /\ action'.answer = Idle.answer /\ action' \in Requests
        /\ action'.kind = command /\ action' # Idle /\ Idle.answer \in Answers
    BY <1>2, RequestTypes DEF Act
  <2>2. PageTypes'
    BY <1>1, <2>1 DEF PageTypes
  <2>3. QED
    BY <1>1, <2>1, <2>2, Shown
<1>3. CASE BeginRefresh
  <2>1. /\ action = Idle /\ refresh' = Queued("refresh")
        /\ UNCHANGED <<playerVars, calls, shown, action, abandoned>>
        /\ refresh' \in Requests /\ refresh'.at = "queued" /\ refresh'.answer \in Answers
        /\ action'.at = "none"
    BY <1>3, RequestTypes DEF BeginRefresh
  <2>2. PageTypes'
    BY <1>1, <2>1 DEF PageTypes
  <2>3. QED
    BY <1>1, <2>1, <2>2, Shown
<1>4. CASE ActionReturns
  <2>1. /\ action.at = "answered" /\ shown' = action.answer /\ Sync(action.answer) /\ Drain
        /\ UNCHANGED abandoned
    BY <1>4 DEF ActionReturns
  <2>2. /\ action' \in Requests /\ refresh' \in Requests
        /\ {action'.answer, refresh'.answer} \subseteq Answers
        /\ action'.at \in {"none", "draining"}
        /\ refresh'.at = "queued" \/ (refresh' = refresh /\ action' # Idle)
    BY <1>1, <2>1, DrainTypes
  <2>3. PageTypes'
    BY <1>1, <2>1, <2>2 DEF PageTypes
  <2>4. /\ action.answer.generation <= session.epoch
        /\ shown.epoch <= action.answer.epoch /\ action.answer.epoch <= session.epoch
    BY <1>1, <2>1 DEF Known
  <2>5. QED
    BY <1>1, <2>1, <2>2, <2>3, <2>4, Shown
<1>5. CASE ActionTimesOut \/ ActionEnds
  <2>1. /\ Drain /\ UNCHANGED <<playerVars, calls, shown>>
        /\ abandoned' \subseteq UserCommands
    BY <1>1, <1>5 DEF ActionTimesOut, ActionEnds, PageTypes
  <2>2. /\ action' \in Requests /\ refresh' \in Requests
        /\ {action'.answer, refresh'.answer} \subseteq Answers
        /\ action'.at \in {"none", "draining"}
        /\ refresh'.at = "queued" \/ (refresh' = refresh /\ action' # Idle)
    BY <1>1, <2>1, DrainTypes
  <2>3. PageTypes'
    BY <1>1, <2>1, <2>2 DEF PageTypes
  <2>4. QED
    BY <1>1, <2>1, <2>2, <2>3, Shown
<1>6. CASE RefreshReturns
  <2>1. /\ refresh.at = "answered" /\ refresh' = Idle /\ UNCHANGED <<action, abandoned>>
        /\ \/ action = Idle /\ shown' = refresh.answer /\ Sync(refresh.answer)
           \/ action # Idle /\ UNCHANGED <<shown, playerVars, calls>>
        /\ refresh' \in Requests /\ refresh'.at = "none" /\ refresh'.answer \in Answers
    BY <1>6, RequestTypes DEF RefreshReturns, Shows
  <2>2. PageTypes'
    BY <1>1, <2>1 DEF PageTypes
  <2>3. /\ refresh.answer.generation <= session.epoch /\ refresh.answer.epoch <= session.epoch
        /\ action = Idle => shown.epoch <= refresh.answer.epoch
    BY <1>1, <2>1 DEF Known
  <2>4. CASE action = Idle
    <3>1. action'.at = "none"
      BY <2>1, <2>4, RequestTypes
    <3>2. QED
      BY <1>1, <2>1, <2>2, <2>3, <2>4, <3>1, Shown
  <2>5. CASE action # Idle
    <3>1. UNCHANGED <<shown, playerVars, calls, action>> /\ refresh'.at # "answered"
      BY <2>1, <2>5
    <3>2. CASE action.at # "answered"
      BY <1>1, <2>2, <3>1, <3>2, Shown
    <3>3. CASE action.at = "answered"
      <4>1. /\ context' = context /\ current' = current /\ calls' = calls
            /\ session' = session /\ wire' = wire /\ shown' = shown /\ action' = action
        BY <1>1, <3>1 DEF playerVars, backendVars
      <4>2. PlayerTypes' /\ Chain' /\ BackendTypes'
        BY <4>1 DEF Inductive, Types, PlayerTypes, Chain, BackendTypes
      <4>3. Owned' /\ Reporting'
        BY <4>1 DEF Inductive, Owned, Reporting
      <4>4. Known'
        BY <1>1, <3>1, <4>1 DEF Known
      <4>5. QED
        BY <1>1, <2>2, <4>1, <4>2, <4>3, <4>4 DEF Inductive, Types
    <3>4. QED
      BY <3>2, <3>3
  <2>6. QED
    BY <2>4, <2>5
<1>7. CASE RefreshTimesOut
  <2>1. /\ refresh' = Idle /\ UNCHANGED <<playerVars, calls, shown, action, abandoned>>
        /\ refresh' \in Requests /\ refresh'.at = "none" /\ refresh'.answer \in Answers
    BY <1>7, RequestTypes DEF RefreshTimesOut
  <2>2. /\ context' = context /\ current' = current /\ calls' = calls
        /\ session' = session /\ wire' = wire /\ shown' = shown /\ action' = action
    BY <1>1, <2>1 DEF playerVars, backendVars
  <2>3. PlayerTypes' /\ Chain' /\ BackendTypes'
    BY <2>2 DEF Inductive, Types, PlayerTypes, Chain, BackendTypes
  <2>4. Owned' /\ Reporting'
    BY <2>2 DEF Inductive, Owned, Reporting
  <2>5. Known'
    BY <1>1, <2>1, <2>2 DEF Known
  <2>6. PageTypes'
    BY <1>1, <2>1 DEF PageTypes
  <2>7. QED
    BY <1>1, <2>2, <2>3, <2>4, <2>5, <2>6 DEF Inductive, Types
<1>8. QED
  BY <1>2, <1>3, <1>4, <1>5, <1>6, <1>7 DEF Page

LEMMA InductiveStep == Inductive /\ [Next]_vars => Inductive' /\ shown.epoch <= shown'.epoch
<1> SUFFICES ASSUME Inductive, [Next]_vars PROVE Inductive' /\ shown.epoch <= shown'.epoch
  OBVIOUS
<1>1. shown.epoch \in Nat
  BY DEF Inductive, Types, PageTypes, Answers
<1>2. CASE Page \/ BeginRefresh \/ \E command \in UserCommands : Act(command)
  BY <1>2, PageStep
<1>3. CASE ExecuteAction \/ ExecuteRefresh \/ ExecuteAbandoned
  <2>1. shown' = shown
    BY <1>3 DEF ExecuteAction, ExecuteRefresh, ExecuteAbandoned
  <2>2. QED
    BY <1>1, <1>3, <2>1, CommandStep
<1>4. ASSUME NEW call \in calls, ExecuteCall(call)
      PROVE  Inductive' /\ shown.epoch <= shown'.epoch
  <2>1. shown' = shown
    BY <1>4 DEF ExecuteCall, pageVars
  <2>2. QED
    BY <1>1, <1>4, <2>1, CallStep
<1>5. ASSUME NEW c \in Contexts, Run(c) \/ Outgoing(c) \/ Peer(c)
      PROVE  Inductive' /\ shown.epoch <= shown'.epoch
  <2>1. shown' = shown
    BY <1>5 DEF Run, Outgoing, Peer, pageVars
  <2>2. QED
    BY <1>1, <1>5, <2>1, PlayerStep
<1>6. CASE UNCHANGED vars
  <2>1. /\ context' = context /\ current' = current /\ calls' = calls
        /\ session' = session /\ wire' = wire /\ shown' = shown /\ action' = action
        /\ refresh' = refresh /\ abandoned' = abandoned
    BY <1>6 DEF vars, backendVars, playerVars, pageVars
  <2>2. Types'
    BY <2>1 DEF Inductive, Types, PlayerTypes, Chain, BackendTypes, PageTypes
  <2>3. Known' /\ Owned' /\ Reporting'
    BY <2>1 DEF Inductive, Known, Owned, Reporting
  <2>4. QED
    BY <1>1, <2>1, <2>2, <2>3 DEF Inductive
<1>7. QED
  BY <1>2, <1>3, <1>4, <1>5, <1>6 DEF Next, Backend

LEMMA Invariance == Spec => []Inductive
BY InitInductive, InductiveStep, PTL DEF Spec

-----------------------------------------------------------------------------
(***************************************************************************)
(* The theorems.                                                            *)
(***************************************************************************)
\* The variables keep their types, and the queues of the bridge and of the player
\* their limits, for any limits.
THEOREM TypeCorrect == Spec => []TypeOK
<1>1. Inductive => TypeOK
  BY TypesAreRight DEF Inductive
<1>2. QED
  BY <1>1, Invariance, PTL

\* However late a command is executed, and whatever replaced the viewer it comes
\* from: what is sent to the host comes from a context of the session.
THEOREM SendsAreOwn == Spec => []WireIsOwn
<1>1. Inductive => WireIsOwn
  BY DEF Inductive, Owned, WireIsOwn
<1>2. QED
  BY <1>1, Invariance, PTL

\* The backend never goes on queueing for a player that has failed without the
\* player's report on its way.
THEOREM FailuresAreReported == Spec => []FailureIsReported
<1>1. Inductive => FailureIsReported
  <2>1. \A c \in Contexts :
          Call(c, "failure", Answer).from = c /\ Call(c, "failure", Answer).kind = "failure"
    BY DEF Call
  <2>2. QED
    BY <2>1 DEF Inductive, Reporting, FailureIsReported
<1>2. QED
  BY <1>1, Invariance, PTL

\* Whatever times out and is executed late: the page never shows an older session
\* after a newer one.
THEOREM PageGoesForward == Spec => ShownNeverGoesBack
<1>1. Inductive /\ [Next]_vars => [shown'.epoch >= shown.epoch]_shown
  <2>1. Inductive /\ Inductive' => shown.epoch \in Nat /\ shown'.epoch \in Nat
    BY DEF Inductive, Types, PageTypes, Answers
  <2>2. QED
    BY <2>1, InductiveStep
<1>2. QED
  BY <1>1, Invariance, PTL DEF Spec, ShownNeverGoesBack

-----------------------------------------------------------------------------
(***************************************************************************)
(* The order of the signals: none is lost, doubled or overtaken on its way  *)
(* from the bridge to the player's peer.                                    *)
(***************************************************************************)
\* A session that lives began at its epoch, and is not stopped.
Begun == session.active => session.epoch = session.generation /\ ~session.stopped

\* What the page shows, or is about to.
Heard ==
  {shown} \cup {request.answer : request \in {r \in {action, refresh} : r.at = "answered"}}

\* Whoever heard of the session as it is knows it as the one that lives.
Truthful ==
  \A answer \in Heard :
    /\ answer.generation <= answer.epoch
    /\ session.active /\ answer.epoch = session.epoch =>
         answer.generation = session.generation /\ ~answer.stopped

\* Of a session that lives there is one context, the player's, and the page shows it.
Single ==
  \A c \in Contexts :
    session.active /\ context[c].generation = session.generation =>
      current = c /\ shown.epoch = session.epoch

\* A poll was told of a stop because the session is stopped.
Ended ==
  \A call \in calls :
    call.answer = "stopped" /\ context[call.from].generation = session.generation =>
      ~session.active

\* The player polls once at a time, and only when its batch is done.
Asked ==
  \A c \in Contexts : IsOpen(c) =>
    /\ \A one, other \in Awaited(c, "poll") : one = other
    /\ Awaited(c, "poll") # {} => context[c].at = "polling"
    /\ context[c].at \in {"poll", "polling"} => context[c].batch = <<>>

\* What was polled and has not reached the player.
Polls(c)   == {call \in Returned(c, "poll") : call.answer = "ok"}
Arrived(c) == IF Polls(c) = {} THEN <<>> ELSE (CHOOSE call \in Polls(c) : TRUE).batch

Numbered(list, before) == \A i \in 1..Len(list) : list[i].n = before + i

\* Four queues one behind the other that hold the first signals, all of them.
Line(taken, batch, arrived, pending, accepted) ==
  /\ Numbered(taken, 0)
  /\ Numbered(batch, Len(taken))
  /\ Numbered(arrived, Len(taken) + Len(batch))
  /\ Numbered(pending, Len(taken) + Len(batch) + Len(arrived))
  /\ accepted = Len(taken) + Len(batch) + Len(arrived) + Len(pending)

InLine ==
  \A c \in Contexts :
    session.active /\ IsOpen(c) /\ context[c].generation = session.generation =>
      Line(context[c].taken, context[c].batch, Arrived(c), session.pending, session.accepted)

\* Before there is a context, the queue of the bridge holds all signals.
Untold ==
  session.active /\ (\A c \in Contexts : context[c].generation # session.generation) =>
    Line(<<>>, <<>>, <<>>, session.pending, session.accepted)

\* A candidate was passed on or is kept back.
Held(ctx) ==
  \A i \in DOMAIN ctx.taken :
    ctx.taken[i].kind = "ice" =>
      \/ ctx.taken[i] \in ctx.added
      \/ \E k \in DOMAIN ctx.pendingIce : ctx.pendingIce[k] = ctx.taken[i]

Passed == \A c \in Contexts : IsOpen(c) => Held(context[c])

Flow ==
  /\ Begun /\ Truthful /\ Single /\ Ended
  /\ Asked /\ InLine /\ Untold /\ Passed

-----------------------------------------------------------------------------
(***************************************************************************)
(* Queues one behind the other.                                             *)
(***************************************************************************)
LEMMA NumberedConcat ==
  ASSUME NEW one \in Seq(Signals), NEW other \in Seq(Signals), NEW before \in Nat
  PROVE  Numbered(one \o other, before)
           <=> Numbered(one, before) /\ Numbered(other, before + Len(one))
<1>1. /\ Len(one \o other) = Len(one) + Len(other)
      /\ \A i \in 1..Len(one) : (one \o other)[i] = one[i]
      /\ \A i \in 1..Len(other) : (one \o other)[Len(one) + i] = other[i]
  OBVIOUS
<1>2. ASSUME Numbered(one \o other, before)
      PROVE  Numbered(one, before) /\ Numbered(other, before + Len(one))
  <2>1. ASSUME NEW i \in 1..Len(one) PROVE one[i].n = before + i
    BY <1>1, <1>2 DEF Numbered
  <2>2. ASSUME NEW i \in 1..Len(other) PROVE other[i].n = before + Len(one) + i
    <3>1. Len(one) + i \in 1..Len(one \o other)
      BY <1>1
    <3>2. (one \o other)[Len(one) + i].n = before + (Len(one) + i)
      BY <1>2, <3>1 DEF Numbered
    <3>3. QED
      BY <1>1, <3>2
  <2>3. QED
    BY <2>1, <2>2 DEF Numbered
<1>3. ASSUME Numbered(one, before), Numbered(other, before + Len(one)),
             NEW i \in 1..Len(one \o other)
      PROVE  (one \o other)[i].n = before + i
  <2>1. CASE i <= Len(one)
    BY <1>1, <1>3, <2>1 DEF Numbered
  <2>2. CASE i > Len(one)
    <3>1. i - Len(one) \in 1..Len(other) /\ Len(one) + (i - Len(one)) = i
      BY <1>1, <2>2
    <3>2. (one \o other)[i] = other[i - Len(one)]
      BY <1>1, <3>1
    <3>3. QED
      BY <1>3, <3>1, <3>2 DEF Numbered
  <2>3. QED
    BY <2>1, <2>2
<1>4. QED
  BY <1>2, <1>3 DEF Numbered

LEMMA NumberedEmpty == \A before : Numbered(<<>>, before)
BY DEF Numbered

\* The first signal of a queue is the next of the queue before it.
LEMMA NumberedMove ==
  ASSUME NEW one \in Seq(Signals), NEW other \in Seq(Signals), other # <<>>, NEW before \in Nat,
         Numbered(one, before), Numbered(other, before + Len(one))
  PROVE  /\ Numbered(Append(one, Head(other)), before)
         /\ Numbered(Tail(other), before + Len(Append(one, Head(other))))
<1>1. /\ Head(other) \in Signals /\ Head(other).n = before + Len(one) + 1
      /\ Tail(other) \in Seq(Signals) /\ Len(Tail(other)) = Len(other) - 1
      /\ \A i \in 1..Len(Tail(other)) : Tail(other)[i] = other[i + 1]
  BY DEF Numbered
<1>2. /\ Append(one, Head(other)) \in Seq(Signals)
      /\ Len(Append(one, Head(other))) = Len(one) + 1
      /\ \A i \in 1..Len(one) : Append(one, Head(other))[i] = one[i]
      /\ Append(one, Head(other))[Len(one) + 1] = Head(other)
  BY <1>1
<1>3. ASSUME NEW i \in 1..Len(Append(one, Head(other)))
      PROVE  Append(one, Head(other))[i].n = before + i
  <2>1. CASE i \in 1..Len(one)
    BY <1>2, <2>1 DEF Numbered
  <2>2. CASE i = Len(one) + 1
    BY <1>1, <1>2, <2>2
  <2>3. QED
    BY <1>2, <2>1, <2>2
<1>4. ASSUME NEW i \in 1..Len(Tail(other))
      PROVE  Tail(other)[i].n = before + Len(Append(one, Head(other))) + i
  <2>1. i \in 1..Len(Tail(other)) /\ i + 1 \in 1..Len(other)
    BY <1>1
  <2>2. other[i + 1].n = before + Len(one) + (i + 1)
    BY <2>1 DEF Numbered
  <2>3. QED
    BY <1>1, <1>2, <2>1, <2>2
<1>5. QED
  BY <1>3, <1>4 DEF Numbered

\* What the bridge is sent joins the end of the line, or is polled at once.
LEMMA LineGrows ==
  ASSUME NEW taken \in Seq(Signals), NEW batch \in Seq(Signals), NEW arrived \in Seq(Signals),
         NEW pending \in Seq(Signals), NEW new \in Seq(Signals), NEW accepted \in Nat,
         Line(taken, batch, arrived, pending, accepted), Numbered(new, accepted)
  PROVE  /\ Line(taken, batch, arrived, pending \o new, accepted + Len(new))
         /\ arrived = <<>> => Line(taken, batch, pending \o new, <<>>, accepted + Len(new))
<1> DEFINE before == Len(taken) + Len(batch) + Len(arrived)
<1>1. before \in Nat /\ accepted = before + Len(pending) /\ Numbered(pending, before)
  BY DEF Line
<1>2. Numbered(pending \o new, before)
  BY <1>1, NumberedConcat
<1>3. Len(pending \o new) = Len(pending) + Len(new)
  OBVIOUS
<1>4. Line(taken, batch, arrived, pending \o new, accepted + Len(new))
  BY <1>1, <1>2, <1>3 DEF Line
<1>5. ASSUME arrived = <<>>
      PROVE  Line(taken, batch, pending \o new, <<>>, accepted + Len(new))
  <2>1. before = Len(taken) + Len(batch) /\ Len(<<>>) = 0
    BY <1>5
  <2>2. Numbered(pending \o new, Len(taken) + Len(batch))
    <3>1. before = Len(taken) + Len(batch)
      BY <2>1
    <3> HIDE DEF before
    <3>2. QED
      BY <1>2, <3>1, ZenonT(30)
  <2>3. accepted + Len(new) = Len(taken) + Len(batch) + Len(pending \o new) + Len(<<>>)
    <3>1. /\ Len(taken) + Len(batch) = before
          /\ Len(pending) \in Nat /\ Len(new) \in Nat
      BY <2>1
    <3> HIDE DEF before
    <3>2. accepted + Len(new) = before + (Len(pending) + Len(new)) + 0
      BY <1>1, <3>1
    <3>3. QED
      BY <1>3, <2>1, <3>1, <3>2, ZenonT(30)
  <2>4. Numbered(taken, 0) /\ Numbered(batch, Len(taken))
    BY DEF Line
  <2>5. Numbered(<<>>, Len(taken) + Len(batch) + Len(pending \o new))
    BY NumberedEmpty
  <2>6. QED
    BY <2>2, <2>3, <2>4, <2>5 DEF Line
<1>6. QED
  BY <1>4, <1>5

\* A line holds the first signals in order.
LEMMA LineInOrder ==
  ASSUME NEW taken \in Seq(Signals), NEW batch \in Seq(Signals), NEW arrived \in Seq(Signals),
         NEW pending \in Seq(Signals), NEW accepted \in Nat,
         Line(taken, batch, arrived, pending, accepted)
  PROVE  LET all == taken \o batch \o arrived \o pending
         IN  Len(all) = accepted /\ \A i \in DOMAIN all : all[i].n = i
<1>1. /\ taken \o batch \in Seq(Signals) /\ Len(taken \o batch) = Len(taken) + Len(batch)
      /\ Numbered(taken \o batch, 0)
  <2>1. Numbered(taken, 0) /\ Numbered(batch, 0 + Len(taken)) /\ 0 \in Nat
    BY DEF Line
  <2>2. Numbered(taken \o batch, 0)
    BY <2>1, NumberedConcat
  <2>3. QED
    BY <2>2
<1>2. /\ (taken \o batch) \o arrived \in Seq(Signals)
      /\ Len((taken \o batch) \o arrived) = Len(taken) + Len(batch) + Len(arrived)
      /\ Numbered((taken \o batch) \o arrived, 0)
  <2>1. Numbered(arrived, 0 + Len(taken \o batch)) /\ 0 \in Nat
    BY <1>1 DEF Line
  <2>2. Numbered((taken \o batch) \o arrived, 0)
    BY <1>1, <2>1, NumberedConcat
  <2>3. QED
    BY <1>1, <2>2
<1> DEFINE most == (taken \o batch) \o arrived
<1>3. /\ Numbered(most \o pending, 0) /\ most \o pending \in Seq(Signals)
      /\ Len(most \o pending) = accepted
  <2> HIDE DEF most
  <2>1. /\ most \in Seq(Signals) /\ Numbered(most, 0)
        /\ Len(most) = Len(taken) + Len(batch) + Len(arrived)
    BY <1>2 DEF most
  <2>2. /\ Numbered(pending, 0 + Len(most)) /\ accepted = Len(most) + Len(pending)
    BY <2>1 DEF Line
  <2>3. QED
    BY <2>1, <2>2, NumberedConcat
<1>4. QED
  BY <1>3 DEF Numbered

-----------------------------------------------------------------------------
(***************************************************************************)
(* The backend.                                                             *)
(***************************************************************************)
\* What a look at the signaling connection adds to the queue.
LEMMA OutcomeAdds ==
  ASSUME BackendTypes, NEW s \in Outcomes, s.active
  PROVE  \E new \in Seq(Signals) :
           /\ s.pending = session.pending \o new /\ Numbered(new, session.accepted)
           /\ s.accepted = session.accepted + Len(new)
<1>1. /\ session \in Sessions /\ session.pending \in Seq(Signals) /\ session.accepted \in Nat
      /\ <<>> \in Seq(Signals) /\ session.pending \o <<>> = session.pending
  BY DEF BackendTypes, Sessions
<1>2. CASE s = [session EXCEPT !.up = FALSE]
  <2>1. s.pending = session.pending /\ s.accepted = session.accepted
    BY <1>1, <1>2 DEF Sessions
  <2>2. Numbered(<<>>, session.accepted) /\ session.accepted + Len(<<>>) = session.accepted
    BY <1>1, NumberedEmpty
  <2>3. QED
    BY <1>1, <2>1, <2>2
<1>3. ASSUME NEW kinds \in Arrivals, s = Signalled(session, kinds)
      PROVE  \E new \in Seq(Signals) :
               /\ s.pending = session.pending \o new /\ Numbered(new, session.accepted)
               /\ s.accepted = session.accepted + Len(new)
  <2> DEFINE new == [i \in 1..Len(kinds) |-> [n |-> session.accepted + i, kind |-> kinds[i]]]
  <2>1. session.active /\ ~Overflows(session, kinds)
    BY <1>1, <1>3 DEF Signalled, Closed, Sessions
  <2>2. /\ kinds \in Seq({"offer", "ice"}) /\ Len(kinds) \in Nat
        /\ session.accepted + Len(kinds) <= MaxSignals
    <3>1. kinds \in {<<>>, <<"offer">>, <<"ice">>, <<"offer", "ice">>, <<"ice", "offer">>}
      BY DEF Arrivals
    <3>2. /\ <<>> \in Seq({"offer", "ice"})
          /\ <<"offer">> \in Seq({"offer", "ice"}) /\ <<"ice">> \in Seq({"offer", "ice"})
          /\ <<"offer", "ice">> \in Seq({"offer", "ice"})
          /\ <<"ice", "offer">> \in Seq({"offer", "ice"})
      OBVIOUS
    <3>3. kinds \in Seq({"offer", "ice"})
      BY <3>1, <3>2, Zenon
    <3>4. Len(kinds) \in Nat
      BY <3>3
    <3>5. QED
      BY <2>1, <3>3, <3>4 DEF Arrivals, Overflows
  <2>3. \A i \in 1..Len(kinds) : new[i] \in Signals /\ new[i].n = session.accepted + i
    <3> TAKE i \in 1..Len(kinds)
    <3>1. session.accepted + i \in 1..MaxSignals /\ kinds[i] \in {"offer", "ice"}
      BY <1>1, <2>2
    <3>2. QED
      BY <3>1 DEF Signals
  <2>4. new \in Seq(Signals) /\ Len(new) = Len(kinds)
    BY <2>2, <2>3
  <2>5. s = [session EXCEPT !.accepted = @ + Len(kinds),
                            !.offered = @ \/ \E i \in DOMAIN kinds : kinds[i] = "offer",
                            !.pending = @ \o new]
    BY <1>3, <2>1 DEF Signalled
  <2> HIDE DEF new
  <2>6. s.pending = session.pending \o new /\ s.accepted = session.accepted + Len(new)
    BY <1>1, <2>4, <2>5 DEF Sessions
  <2>7. Numbered(new, session.accepted)
    BY <2>3, <2>4 DEF Numbered
  <2>8. QED
    BY <2>4, <2>6, <2>7
<1>4. QED
  BY <1>2, <1>3 DEF Outcomes

\* A command looks at the connection, ends the session, or begins one.
LEMMA CommandKinds ==
  ASSUME BackendTypes, NEW command \in UserCommands \cup {"refresh"}, Executed(command)
  PROVE  \/ session' \in Outcomes
         \/ ~session'.active
         \/ /\ session'.epoch = session.epoch + 1 /\ session'.generation = session'.epoch
            /\ ~session'.stopped /\ session'.pending = <<>> /\ session'.accepted = 0
<1>1. CASE command = "refresh"
  BY <1>1 DEF Executed
<1>2. CASE command \in UserCommands
  <2>1. session' = After(command, session) /\ command \in {"join", "stop", "reset"}
    BY <1>2 DEF Executed
  <2>2. CASE command = "join"
    BY <2>1, <2>2 DEF After, NoSession
  <2>3. CASE command = "stop"
    BY <2>1, <2>3 DEF After, Closed, BackendTypes, Sessions
  <2>4. CASE command = "reset"
    BY <2>1, <2>4 DEF After, NoSession
  <2>5. QED
    BY <2>1, <2>2, <2>3, <2>4
<1>3. QED
  BY <1>1, <1>2

LEMMA ContextTypes ==
  ASSUME PlayerTypes, NEW c \in Contexts
  PROVE  /\ context[c] \in ContextRecords
         /\ context[c].taken \in Seq(Signals) /\ context[c].batch \in Seq(Signals)
         /\ context[c].pendingIce \in Seq(Signals) /\ context[c].generation \in Nat
         /\ Arrived(c) \in Seq(Signals)
<1>1. context[c] \in ContextRecords
  BY DEF PlayerTypes
<1>2. /\ context[c].taken \in Seq(Signals) /\ context[c].batch \in Seq(Signals)
      /\ context[c].pendingIce \in Seq(Signals) /\ context[c].generation \in Nat
  BY <1>1 DEF ContextRecords, Generations
<1>3. CASE Polls(c) = {}
  <2>1. Arrived(c) = <<>> /\ <<>> \in Seq(Signals)
    BY <1>3 DEF Arrived
  <2>2. QED
    BY <1>1, <1>2, <2>1
<1>4. CASE Polls(c) # {}
  <2>1. PICK call \in Polls(c) : Arrived(c) = call.batch
    BY <1>4 DEF Arrived
  <2>2. call \in CallRecords
    BY <2>1 DEF Polls, Returned, Awaited, PlayerTypes
  <2>3. call.batch \in Seq(Signals)
    BY <2>2 DEF CallRecords
  <2>4. QED
    BY <1>1, <1>2, <2>1, <2>3
<1>5. QED
  BY <1>3, <1>4

\* The commands of the page, whoever awaits their answer.
LEMMA CommandFlow ==
  ASSUME Inductive, Inductive', Flow, NEW command \in UserCommands \cup {"refresh"},
         Executed(command), UNCHANGED <<playerVars, calls, shown>>,
         \A answer \in Heard' :
           \/ answer \in Heard
           \/ /\ answer.generation = session'.generation /\ answer.stopped = session'.stopped
              /\ answer.epoch = session'.epoch
  PROVE  Flow'
<1>1. /\ BackendTypes /\ BackendTypes' /\ PlayerTypes /\ Known /\ Known'
      /\ context' = context /\ current' = current /\ calls' = calls /\ shown' = shown
      /\ session.epoch \in Nat /\ session.accepted \in Nat /\ session.pending \in Seq(Signals)
      /\ session'.pending \in Seq(Signals)
      /\ session'.generation \in Nat /\ session'.epoch \in Nat
  BY DEF Inductive, Types, BackendTypes, Sessions, Generations, playerVars
<1>2. \A answer \in Heard : answer.epoch <= session.epoch
  BY DEF Inductive, Known, Heard
<1>3. Asked' /\ Passed'
  <2>1. Asked /\ Passed
    BY DEF Flow
  <2>2. QED
    BY <1>1, <2>1 DEF Asked, Passed, IsOpen, Awaited
<1>4. \A answer \in Heard' : answer.generation <= answer.epoch
  <2>1. session'.generation <= session'.epoch
    BY <1>1 DEF Known
  <2>2. \A answer \in Heard : answer.generation <= answer.epoch
    BY DEF Flow, Truthful
  <2>3. QED
    BY <2>1, <2>2
<1>5. \A c \in Contexts : Arrived(c)' = Arrived(c) /\ IsOpen(c)' = IsOpen(c)
  BY <1>1 DEF Arrived, Polls, Returned, Awaited, IsOpen
<1>6. CASE ~session'.active
  BY <1>3, <1>4, <1>6 DEF Flow, Begun, Truthful, Single, Ended, InLine, Untold
<1>7. CASE session'.active /\ session' \in Outcomes
  <2>1. /\ session'.generation = session.generation /\ session'.epoch = session.epoch
        /\ session'.stopped = session.stopped /\ session.active
    BY <1>1, <1>7, OutcomeTypes
  <2>2. PICK new \in Seq(Signals) :
          /\ session'.pending = session.pending \o new /\ Numbered(new, session.accepted)
          /\ session'.accepted = session.accepted + Len(new)
    BY <1>1, <1>7, OutcomeAdds
  <2>3. Begun' /\ Single' /\ Ended'
    BY <1>1, <2>1 DEF Flow, Begun, Single, Ended
  <2>4. Truthful'
    BY <1>4, <2>1 DEF Flow, Begun, Truthful
  <2>5. InLine'
    <3> SUFFICES ASSUME NEW c \in Contexts, IsOpen(c), context[c].generation = session.generation
                 PROVE  Line(context[c].taken, context[c].batch, Arrived(c),
                             session'.pending, session'.accepted)
      BY <1>1, <1>5, <2>1 DEF InLine
    <3>1. Line(context[c].taken, context[c].batch, Arrived(c), session.pending, session.accepted)
      BY <2>1 DEF Flow, InLine
    <3>2. /\ context[c].taken \in Seq(Signals) /\ context[c].batch \in Seq(Signals)
          /\ Arrived(c) \in Seq(Signals)
      BY <1>1, ContextTypes
    <3>3. Line(context[c].taken, context[c].batch, Arrived(c),
               session.pending \o new, session.accepted + Len(new))
      BY <1>1, <2>2, <3>1, <3>2, LineGrows
    <3>4. QED
      BY <2>2, <3>3
  <2>6. Untold'
    <3> SUFFICES ASSUME \A c \in Contexts : context[c].generation # session.generation
                 PROVE  Line(<<>>, <<>>, <<>>, session'.pending, session'.accepted)
      BY <1>1, <2>1 DEF Untold
    <3>1. Line(<<>>, <<>>, <<>>, session.pending, session.accepted) /\ <<>> \in Seq(Signals)
      BY <2>1 DEF Flow, Untold
    <3>2. Line(<<>>, <<>>, <<>>, session.pending \o new, session.accepted + Len(new))
      BY <1>1, <2>2, <3>1, LineGrows
    <3>3. QED
      BY <2>2, <3>2
  <2>7. QED
    BY <1>3, <2>3, <2>4, <2>5, <2>6 DEF Flow
<1>8. CASE /\ session'.epoch = session.epoch + 1 /\ session'.generation = session'.epoch
           /\ ~session'.stopped /\ session'.pending = <<>> /\ session'.accepted = 0
  <2>1. \A c \in Contexts : context[c].generation # session'.generation
    BY <1>1, <1>8, ContextTypes DEF Known
  <2>2. Begun' /\ Single' /\ InLine' /\ Ended'
    <3>1. \A call \in calls : call.from \in Contexts
      BY <1>1 DEF PlayerTypes, CallRecords
    <3>2. QED
      BY <1>1, <1>8, <2>1, <3>1 DEF Begun, Single, InLine, Ended
  <2>3. Truthful'
    <3>1. \A answer \in Heard : answer.epoch # session'.epoch
      <4>1. \A answer \in Heard : answer.epoch \in Nat
        BY DEF Inductive, Types, PageTypes, Heard, Answers
      <4>2. QED
        BY <1>1, <1>2, <1>8, <4>1
    <3>2. QED
      BY <1>4, <1>8, <3>1 DEF Truthful
  <2>4. Untold'
    <3>1. Line(<<>>, <<>>, <<>>, <<>>, 0)
      BY NumberedEmpty DEF Line
    <3>2. QED
      BY <1>8, <3>1 DEF Untold
  <2>5. QED
    BY <1>3, <2>2, <2>3, <2>4 DEF Flow
<1>9. QED
  BY <1>1, <1>6, <1>7, <1>8, CommandKinds

\* A reply takes the place of its call; its context polls as it did.
LEMMA ReplyFlow ==
  ASSUME PlayerTypes, Asked, NEW call \in calls, call.answer = "none",
         NEW answer \in {"ok", "error", "stopped"}, NEW batch \in Seq(Signals),
         Reply(call, answer, batch), UNCHANGED playerVars
  PROVE  /\ Asked'
         /\ \A one \in calls' :
              one \in calls \/ (one.answer = answer /\ one.from = call.from)
         /\ \A c \in Contexts : IsOpen(c) =>
              /\ call.from = c /\ call.kind = "poll" => Arrived(c) = <<>> /\ context[c].batch = <<>>
              /\ call.from = c /\ call.kind = "poll" /\ answer = "ok" => Arrived(c)' = batch
              /\ ~(call.from = c /\ call.kind = "poll" /\ answer = "ok") => Arrived(c)' = Arrived(c)
<1> DEFINE reply == [call EXCEPT !.answer = answer, !.batch = batch]
<1>1. /\ call \in CallRecords /\ context' = context /\ current' = current
      /\ calls' = (calls \ {call}) \cup (IF context[call.from].closed THEN {} ELSE {reply})
  BY DEF PlayerTypes, playerVars, Reply
<1>2. /\ reply.from = call.from /\ reply.kind = call.kind /\ reply.answer = answer
      /\ reply.batch = batch
  BY <1>1 DEF CallRecords
<1> HIDE DEF reply
<1>3. \A one \in calls' : one \in calls \/ (one.answer = answer /\ one.from = call.from)
  BY <1>1, <1>2
<1>4. \A c \in Contexts : IsOpen(c)' = IsOpen(c)
  BY <1>1 DEF IsOpen
<1>5. Asked'
  <2> SUFFICES ASSUME NEW c \in Contexts, IsOpen(c)
               PROVE  /\ \A one, other \in Awaited(c, "poll")' : one = other
                      /\ Awaited(c, "poll")' # {} => context[c].at = "polling"
                      /\ context[c].at \in {"poll", "polling"} => context[c].batch = <<>>
    BY <1>1, <1>4 DEF Asked
  <2>1. /\ \A one, other \in Awaited(c, "poll") : one = other
        /\ Awaited(c, "poll") # {} => context[c].at = "polling"
        /\ context[c].at \in {"poll", "polling"} => context[c].batch = <<>>
    BY DEF Asked
  <2>2. CASE call \in Awaited(c, "poll")
    <3>1. Awaited(c, "poll")' \subseteq {reply}
      BY <1>1, <2>1, <2>2 DEF Awaited
    <3>2. QED
      BY <2>1, <2>2, <3>1
  <2>3. CASE call \notin Awaited(c, "poll")
    <3>1. reply \in Awaited(c, "poll")' => reply \in calls
      BY <1>2, <2>3 DEF Awaited
    <3>2. Awaited(c, "poll")' \subseteq Awaited(c, "poll")
      BY <1>1, <3>1 DEF Awaited
    <3>3. QED
      BY <2>1, <3>2
  <2>4. QED
    BY <2>2, <2>3
<1>6. ASSUME NEW c \in Contexts, IsOpen(c)
      PROVE  /\ call.from = c /\ call.kind = "poll" => Arrived(c) = <<>> /\ context[c].batch = <<>>
             /\ call.from = c /\ call.kind = "poll" /\ answer = "ok" => Arrived(c)' = batch
             /\ ~(call.from = c /\ call.kind = "poll" /\ answer = "ok") => Arrived(c)' = Arrived(c)
  <2>1. CASE call.from = c /\ call.kind = "poll"
    <3>1. /\ call \in Awaited(c, "poll") /\ Awaited(c, "poll") = {call}
          /\ context[c].at = "polling" /\ context[c].batch = <<>>
      BY <1>6, <2>1 DEF Asked, Awaited
    <3>2. Polls(c) = {} /\ Arrived(c) = <<>>
      BY <3>1 DEF Polls, Returned, Arrived
    <3>3. Awaited(c, "poll")' = {reply}
      BY <1>1, <1>2, <1>6, <2>1, <3>1 DEF Awaited, IsOpen
    <3>4. CASE answer = "ok"
      <4>1. Polls(c)' = {reply}
        BY <1>2, <3>3, <3>4 DEF Polls, Returned
      <4>2. Arrived(c)' = batch
        BY <1>2, <4>1 DEF Arrived
      <4>3. QED
        BY <2>1, <3>1, <3>2, <3>4, <4>2
    <3>5. CASE answer # "ok"
      <4>1. Polls(c)' = {}
        BY <1>2, <3>3, <3>5 DEF Polls, Returned
      <4>2. Arrived(c)' = <<>>
        BY <4>1 DEF Arrived
      <4>3. QED
        BY <2>1, <3>1, <3>2, <3>5, <4>2
    <3>6. QED
      BY <3>4, <3>5
  <2>2. CASE ~(call.from = c /\ call.kind = "poll")
    <3>1. call \notin Awaited(c, "poll") /\ (reply \in Awaited(c, "poll")' => FALSE)
      BY <1>2, <2>2 DEF Awaited
    <3>2. Awaited(c, "poll")' = Awaited(c, "poll")
      BY <1>1, <3>1 DEF Awaited
    <3>3. Polls(c)' = Polls(c)
      BY <3>2 DEF Polls, Returned
    <3>4. Arrived(c)' = Arrived(c)
      BY <3>3 DEF Arrived
    <3>5. QED
      BY <2>2, <3>4
  <2>3. QED
    BY <2>1, <2>2
<1>7. QED
  BY <1>3, <1>5, <1>6

\* A call that leaves the queue alone, or ends the viewer.
LEMMA PlainCallFlow ==
  ASSUME Inductive, Inductive', Flow, NEW call \in calls, ExecuteCall(call),
         NEW answer \in {"ok", "error", "stopped"}, Reply(call, answer, <<>>),
         call.kind = "poll" => answer # "ok",
         answer = "stopped" => session.stopped,
         session' = session \/ ~session'.active
  PROVE  Flow'
<1>1. /\ PlayerTypes /\ context' = context /\ current' = current /\ UNCHANGED <<playerVars, pageVars>>
      /\ call.answer = "none" /\ <<>> \in Seq(Signals)
      /\ shown' = shown /\ action' = action /\ refresh' = refresh
  BY DEF Inductive, Types, ExecuteCall, playerVars, pageVars
<1>2. /\ session'.epoch = session.epoch /\ session'.generation = session.generation
      /\ session'.stopped = session.stopped /\ (session'.active => session.active)
  BY CallTypes DEF Inductive
<1>3. /\ Asked'
      /\ \A one \in calls' : one \in calls \/ (one.answer = answer /\ one.from = call.from)
      /\ \A c \in Contexts : IsOpen(c) => Arrived(c)' = Arrived(c)
  BY <1>1, ReplyFlow DEF Flow
<1>4. Begun' /\ Single' /\ Truthful' /\ Passed'
  BY <1>1, <1>2 DEF Flow, Begun, Single, Truthful, Heard, Passed, IsOpen
<1>5. Ended'
  <2>1. answer = "stopped" => ~session'.active
    BY <1>2 DEF Flow, Begun
  <2>2. \A one \in calls' : one.answer = "stopped" => one \in calls \/ ~session'.active
    BY <1>3, <2>1
  <2>3. QED
    BY <1>1, <1>2, <2>2 DEF Flow, Ended
<1>6. InLine' /\ Untold'
  BY <1>1, <1>2, <1>3 DEF Flow, InLine, Untold, IsOpen
<1>7. QED
  BY <1>3, <1>4, <1>5, <1>6 DEF Flow

LEMMA CallFlow ==
  ASSUME Inductive, Inductive', Flow, NEW call \in calls, ExecuteCall(call)
  PROVE  Flow'
<1>1. /\ PlayerTypes /\ BackendTypes
      /\ context' = context /\ current' = current /\ UNCHANGED <<playerVars, pageVars>>
      /\ call.answer = "none" /\ call \in CallRecords /\ call.from \in Contexts
      /\ shown' = shown /\ action' = action /\ refresh' = refresh
      /\ session \in Sessions /\ session.pending \in Seq(Signals) /\ session.accepted \in Nat
  BY DEF Inductive, Types, ExecuteCall, playerVars, pageVars, PlayerTypes, CallRecords,
         BackendTypes, Sessions
<1>2. CASE ExecutePoll(call)
  <2>1. call.kind = "poll"
    BY <1>2 DEF ExecutePoll
  <2>2. CASE Reply(call, "error", <<>>) /\ UNCHANGED session
    BY <2>2, PlainCallFlow
  <2>3. CASE session.stopped /\ Reply(call, "stopped", <<>>) /\ UNCHANGED session
    BY <2>1, <2>3, PlainCallFlow
  <2>4. ASSUME NEW outcome \in Outcomes, ~outcome.active, session' = outcome,
               Reply(call, "error", <<>>)
        PROVE  Flow'
    BY <2>4, PlainCallFlow
  <2>5. ASSUME NEW outcome \in Outcomes, IsCurrent(call), outcome.active, session' = Taken(outcome),
               Reply(call, "ok", outcome.pending)
        PROVE  Flow'
    <3>1. /\ outcome \in Sessions /\ outcome.generation = session.generation
          /\ outcome.epoch = session.epoch /\ outcome.stopped = session.stopped /\ session.active
      BY <1>1, <2>5, OutcomeTypes
    <3>2. PICK new \in Seq(Signals) :
            /\ outcome.pending = session.pending \o new /\ Numbered(new, session.accepted)
            /\ outcome.accepted = session.accepted + Len(new)
      BY <1>1, <2>5, OutcomeAdds
    <3>3. /\ session'.generation = session.generation /\ session'.epoch = session.epoch
          /\ session'.stopped = session.stopped /\ session'.pending = <<>>
          /\ session'.accepted = session.accepted + Len(new)
          /\ outcome.pending \in Seq(Signals)
      BY <2>5, <3>1, <3>2 DEF Taken, Sessions
    <3>4. context[call.from].generation = session.generation /\ current = call.from
      BY <1>1, <2>5, <3>1 DEF IsCurrent, Flow, Single
    <3>5. /\ Asked'
          /\ \A one \in calls' : one \in calls \/ (one.answer = "ok" /\ one.from = call.from)
          /\ IsOpen(call.from) =>
               /\ Arrived(call.from) = <<>> /\ context[call.from].batch = <<>>
               /\ Arrived(call.from)' = outcome.pending
      BY <1>1, <2>1, <2>5, <3>3, ReplyFlow DEF Flow
    <3>6. Begun' /\ Single' /\ Truthful' /\ Passed' /\ Ended'
      BY <1>1, <3>1, <3>3, <3>5 DEF Flow, Begun, Single, Truthful, Heard, Passed, IsOpen, Ended
    <3>7. InLine'
      <4> SUFFICES ASSUME NEW c \in Contexts, IsOpen(c), context[c].generation = session.generation
                   PROVE  Line(context[c].taken, context[c].batch, Arrived(c)',
                               session'.pending, session'.accepted)
        BY <1>1, <3>3 DEF InLine, IsOpen
      <4>1. c = call.from
        BY <3>4 DEF IsOpen
      <4>2. Line(context[c].taken, context[c].batch, Arrived(c), session.pending, session.accepted)
        BY <3>1 DEF Flow, InLine
      <4>3. /\ context[c].taken \in Seq(Signals) /\ context[c].batch \in Seq(Signals)
            /\ Arrived(c) \in Seq(Signals)
        BY <1>1, ContextTypes
      <4>4. Arrived(c) = <<>> /\ Arrived(c)' = session.pending \o new
        BY <3>2, <3>5, <4>1
      <4>5. Line(context[c].taken, context[c].batch, session.pending \o new, <<>>,
                 session.accepted + Len(new))
        BY <1>1, <3>2, <4>2, <4>3, <4>4, LineGrows
      <4>6. QED
        BY <3>3, <4>4, <4>5
    <3>8. Untold'
      BY <1>1, <3>3, <3>4 DEF Untold
    <3>9. QED
      BY <3>5, <3>6, <3>7, <3>8 DEF Flow
  <2>6. QED
    BY <1>2, <2>2, <2>3, <2>4, <2>5 DEF ExecutePoll
<1>3. CASE ExecuteSend(call)
  <2>1. /\ call.kind = "send" /\ session' = session
        /\ Reply(call, "ok", <<>>) \/ Reply(call, "error", <<>>)
    BY <1>3 DEF ExecuteSend
  <2>2. QED
    BY <2>1, PlainCallFlow
<1>4. CASE ExecuteReport(call)
  <2>1. /\ call.kind = "failure" /\ Reply(call, "ok", <<>>)
        /\ session' \in {session, [session EXCEPT !.active = FALSE]}
    BY <1>4 DEF ExecuteReport
  <2>2. session' = session \/ ~session'.active
    BY <1>1, <2>1 DEF Sessions
  <2>3. QED
    BY <2>1, <2>2, PlainCallFlow
<1>5. QED
  BY <1>2, <1>3, <1>4 DEF ExecuteCall

-----------------------------------------------------------------------------
(***************************************************************************)
(* The page.                                                                *)
(***************************************************************************)
\* A step that leaves no context open.
LEMMA ClosedFlow ==
  ASSUME PlayerTypes, Flow, UNCHANGED backendVars, Truthful', Single',
         \A c \in Contexts : context'[c].generation = context[c].generation /\ ~IsOpen(c)',
         \A call \in calls' : call \in calls \/ call.answer = "none"
  PROVE  Flow'
<1>1. session' = session
  BY DEF backendVars
<1>2. Begun' /\ Asked' /\ InLine' /\ Passed'
  BY <1>1 DEF Flow, Begun, Asked, InLine, Passed
<1>3. Untold'
  BY <1>1 DEF Flow, Untold
<1>4. Ended'
  <2>1. \A call \in calls : call.from \in Contexts
    BY DEF PlayerTypes, CallRecords
  <2>2. QED
    BY <1>1, <2>1 DEF Flow, Ended
<1>5. QED
  BY <1>2, <1>3, <1>4 DEF Flow

\* The player stops, and not for a session that lives.
LEMMA StoppingFlow ==
  ASSUME PlayerTypes, Flow, Stopping, UNCHANGED backendVars, Truthful',
         session.active => \A c \in Contexts : context[c].generation # session.generation
  PROVE  Flow'
<1>1. \A c \in Contexts : context'[c].generation = context[c].generation
  <2>1. CASE current = 0
    BY <2>1 DEF Stopping
  <2>2. CASE current # 0
    BY <2>2, StoppedType DEF Stopping, PlayerTypes
  <2>3. QED
    BY <2>1, <2>2
<1>2. \A c \in Contexts : ~IsOpen(c)'
  BY DEF Stopping, IsOpen, Contexts
<1>3. \A call \in calls' : call \in calls
  BY DEF Stopping, Unread
<1>4. Single'
  BY <1>1 DEF Single, backendVars
<1>5. QED
  BY <1>1, <1>2, <1>3, <1>4, ClosedFlow

LEMMA NewContextEmpty ==
  ASSUME NEW g \in {0} \cup Generations
  PROVE  /\ NewContext(g).generation = g /\ NewContext(g).batch = <<>>
         /\ NewContext(g).taken = <<>> /\ NewContext(g).at = "poll"
BY DEF NewContext

LEMMA SyncFlow ==
  ASSUME Inductive, Inductive', Flow, NEW s \in Answers, Sync(s), shown' = s, s \in Heard,
         UNCHANGED backendVars, shown.epoch <= s.epoch, s.epoch <= session.epoch,
         Heard' \subseteq Heard
  PROVE  Flow'
<1>1. /\ PlayerTypes /\ Chain /\ session' = session /\ Flow
      /\ session.epoch \in Nat /\ shown.epoch \in Nat /\ s.epoch \in Nat /\ s.generation \in Nat
      /\ s.generation \in {0} \cup Generations
  BY DEF Inductive, Types, BackendTypes, PageTypes, Sessions, Answers, Generations, backendVars
<1>2. Truthful'
  BY <1>1 DEF Flow, Truthful
\* Whoever has a context of a session that lives is shown that session.
<1>3. ASSUME session.active, NEW c \in Contexts, context[c].generation = session.generation
      PROVE  /\ current = c /\ s.epoch = session.epoch
             /\ s.generation = session.generation /\ ~s.stopped /\ s.generation # 0
  <2>1. current = c /\ shown.epoch = session.epoch
    BY <1>3 DEF Flow, Single
  <2>2. s.epoch = session.epoch
    BY <1>1, <2>1
  <2>3. s.generation = session.generation /\ ~s.stopped
    BY <1>3, <2>2 DEF Flow, Truthful
  <2>4. session.generation # 0
    BY <1>3 DEF Inductive, Known
  <2>5. QED
    BY <2>1, <2>2, <2>3, <2>4
<1>4. CASE (s.generation = 0 \/ s.stopped) /\ Stopping
  <2>1. session.active => \A c \in Contexts : context[c].generation # session.generation
    BY <1>3, <1>4
  <2>2. QED
    BY <1>1, <1>2, <1>4, <2>1, StoppingFlow
<1>5. CASE UNCHANGED <<playerVars, calls>>
  <2>1. context' = context /\ current' = current /\ calls' = calls
    BY <1>5 DEF playerVars
  <2>2. Single'
    BY <1>1, <1>3, <2>1 DEF Single
  <2>3. Begun' /\ Ended' /\ Untold' /\ Passed'
    BY <1>1, <2>1 DEF Flow, Begun, Ended, Untold, Passed, IsOpen
  <2>4. \A c \in Contexts :
          /\ IsOpen(c)' = IsOpen(c) /\ Arrived(c)' = Arrived(c)
          /\ Awaited(c, "poll")' = Awaited(c, "poll")
    BY <2>1 DEF IsOpen, Arrived, Polls, Returned, Awaited
  <2>5. Asked' /\ InLine'
    BY <1>1, <2>1, <2>4 DEF Flow, Asked, InLine
  <2>6. QED
    BY <1>2, <2>2, <2>3, <2>5 DEF Flow
<1>6. ASSUME NEW c \in Unused, s.generation # 0,
             ~(current # 0 /\ context[current].generation = s.generation),
             /\ context' = [d \in Contexts |->
                  IF d = c THEN NewContext(s.generation)
                  ELSE IF d = current THEN Stopped(context[d]) ELSE context[d]]
             /\ calls' = Unread({current})
             /\ current' = c
      PROVE  Flow'
  <2>1. /\ c \in Contexts /\ context[c].generation = 0 /\ calls' \subseteq calls
        /\ context'[c] = NewContext(s.generation) /\ current' = c
        /\ \A d \in Contexts : d # c => context'[d].generation = context[d].generation
        /\ \A d \in Contexts : IsOpen(d)' => d = c
    BY <1>6, StoppedType DEF Unused, Unread, PlayerTypes, IsOpen, Inductive, Types
  <2>2. /\ context'[c].generation = s.generation /\ context'[c].batch = <<>>
        /\ context'[c].taken = <<>> /\ context'[c].at = "poll"
    BY <1>1, <2>1, NewContextEmpty
  <2>3. \A call \in calls : call.from \in Contexts /\ call.from # c
    BY <1>1, <2>1 DEF PlayerTypes, CallRecords, Chain
  <2>4. Awaited(c, "poll")' = {} /\ Arrived(c)' = <<>>
    <3>1. Awaited(c, "poll")' = {}
      BY <2>1, <2>3 DEF Awaited
    <3>2. Polls(c)' = {}
      BY <3>1 DEF Polls, Returned
    <3>3. QED
      BY <3>1, <3>2 DEF Arrived
  <2>5. session.active => \A d \in Contexts : context[d].generation # session.generation
    <3>1. ASSUME session.active, NEW d \in Contexts, context[d].generation = session.generation
          PROVE  FALSE
      <4>1. current = d /\ s.generation = session.generation
        BY <1>3, <3>1
      <4>2. current # 0
        BY <4>1 DEF Contexts
      <4>3. QED
        BY <1>6, <3>1, <4>1, <4>2
    <3>2. QED
      BY <3>1
  <2>6. session.active /\ s.generation = session.generation => s.epoch = session.epoch
    <3>1. session.active => session.epoch = session.generation
      BY DEF Flow, Begun
    <3>2. s.generation <= s.epoch
      BY DEF Flow, Truthful
    <3>3. QED
      BY <1>1, <3>1, <3>2
  <2>7. Single'
    BY <1>1, <2>1, <2>2, <2>5, <2>6 DEF Single
  <2>8. Begun' /\ Asked'
    BY <1>1, <2>1, <2>2, <2>4 DEF Flow, Begun, Asked
  <2>9. Ended'
    BY <1>1, <2>1, <2>3 DEF Flow, Ended
  <2>10. InLine'
    <3> SUFFICES ASSUME session.active, s.generation = session.generation
                 PROVE  Line(<<>>, <<>>, <<>>, session.pending, session.accepted)
      BY <1>1, <2>1, <2>2, <2>4 DEF InLine
    <3>1. QED
      BY <2>5 DEF Flow, Untold
  <2>11. Untold'
    BY <1>1, <2>5 DEF Flow, Untold
  <2>12. Passed'
    <3>1. Held(context'[c])
      BY <2>2 DEF Held
    <3>2. QED
      BY <2>1, <3>1 DEF Passed
  <2>13. QED
    BY <1>2, <2>7, <2>8, <2>9, <2>10, <2>11, <2>12 DEF Flow
<1>7. QED
  BY <1>4, <1>5, <1>6 DEF Sync

\* A step that tells the page nothing new.
LEMMA SilentFlow ==
  ASSUME Flow, UNCHANGED <<backendVars, playerVars, calls, shown>>, Heard' \subseteq Heard
  PROVE  Flow'
<1>1. /\ context' = context /\ current' = current /\ calls' = calls /\ session' = session
      /\ shown' = shown
  BY DEF playerVars, backendVars
<1>2. Begun' /\ Truthful' /\ Single' /\ Ended' /\ Untold' /\ Passed'
  BY <1>1 DEF Flow, Begun, Truthful, Single, Ended, Untold, Passed, IsOpen
<1>3. \A c \in Contexts :
        /\ IsOpen(c)' = IsOpen(c) /\ Arrived(c)' = Arrived(c)
        /\ Awaited(c, "poll")' = Awaited(c, "poll")
  BY <1>1 DEF IsOpen, Arrived, Polls, Returned, Awaited
<1>4. Asked' /\ InLine'
  BY <1>1, <1>3 DEF Flow, Asked, InLine
<1>5. QED
  BY <1>2, <1>4 DEF Flow

LEMMA PageFlow ==
  ASSUME Inductive, Inductive', Flow,
         Page \/ BeginRefresh \/ \E command \in UserCommands : Act(command)
  PROVE  Flow'
<1>1. /\ PageTypes /\ Known /\ UNCHANGED backendVars
      /\ shown \in Answers /\ action.answer \in Answers /\ refresh.answer \in Answers
      /\ shown.epoch <= shown'.epoch
  <2>1. shown.epoch <= shown'.epoch
    BY PageStep
  <2>2. QED
    BY <2>1 DEF Inductive, Types, PageTypes, Page, BeginRefresh, Act,
       ActionReturns, ActionTimesOut, ActionEnds, RefreshReturns, RefreshTimesOut
<1>2. ASSUME shown' \in Heard, action'.at = "answered" => action' = action,
             refresh'.at = "answered" => refresh' = refresh
      PROVE  Heard' \subseteq Heard
  BY <1>2 DEF Heard
<1>3. ASSUME NEW command \in UserCommands, Act(command) PROVE Flow'
  <2>1. action'.at = "queued" /\ UNCHANGED <<backendVars, playerVars, calls, shown, refresh>>
    BY <1>3, RequestTypes DEF Act
  <2>2. Heard' \subseteq Heard
    BY <1>2, <2>1 DEF Heard
  <2>3. QED
    BY <2>1, <2>2, SilentFlow
<1>4. CASE BeginRefresh
  <2>1. refresh'.at = "queued" /\ UNCHANGED <<backendVars, playerVars, calls, shown, action>>
    BY <1>4, RequestTypes DEF BeginRefresh
  <2>2. Heard' \subseteq Heard
    BY <1>2, <2>1 DEF Heard
  <2>3. QED
    BY <2>1, <2>2, SilentFlow
<1>5. CASE ActionReturns
  <2>1. /\ action.at = "answered" /\ shown' = action.answer /\ Sync(action.answer) /\ Drain
    BY <1>5 DEF ActionReturns
  <2>2. /\ action'.at # "answered" /\ (refresh'.at = "answered" => refresh' = refresh)
    BY <1>1, <2>1, DrainTypes
  <2>3. shown' \in Heard /\ action.answer \in Heard
    BY <2>1 DEF Heard
  <2>4. Heard' \subseteq Heard
    BY <1>2, <2>2, <2>3
  <2>5. action.answer.epoch <= session.epoch /\ shown.epoch <= action.answer.epoch
    BY <1>1, <2>1 DEF Known
  <2>6. QED
    BY <1>1, <2>1, <2>3, <2>4, <2>5, SyncFlow
<1>6. CASE ActionTimesOut \/ ActionEnds
  <2>1. Drain /\ UNCHANGED <<backendVars, playerVars, calls, shown>>
    BY <1>6 DEF ActionTimesOut, ActionEnds
  <2>2. /\ action'.at # "answered" /\ (refresh'.at = "answered" => refresh' = refresh)
    BY <1>1, <2>1, DrainTypes
  <2>3. Heard' \subseteq Heard
    BY <1>2, <2>1, <2>2 DEF Heard
  <2>4. QED
    BY <2>1, <2>3, SilentFlow
<1>7. CASE RefreshReturns
  <2>1. /\ refresh.at = "answered" /\ refresh' = Idle /\ UNCHANGED action
        /\ refresh'.at # "answered"
    BY <1>7, RequestTypes DEF RefreshReturns
  <2>2. CASE action = Idle
    <3>1. shown' = refresh.answer /\ Sync(refresh.answer)
      BY <1>7, <2>2 DEF RefreshReturns, Shows
    <3>2. shown' \in Heard /\ refresh.answer \in Heard
      BY <2>1, <3>1 DEF Heard
    <3>3. Heard' \subseteq Heard
      BY <1>2, <2>1, <3>2
    <3>4. refresh.answer.epoch <= session.epoch /\ shown.epoch <= refresh.answer.epoch
      BY <1>1, <2>1, <2>2 DEF Known
    <3>5. QED
      BY <1>1, <3>1, <3>2, <3>3, <3>4, SyncFlow
  <2>3. CASE action # Idle
    <3>1. UNCHANGED <<backendVars, playerVars, calls, shown>>
      BY <1>7, <2>3 DEF RefreshReturns, Shows
    <3>2. Heard' \subseteq Heard
      BY <1>2, <2>1, <3>1 DEF Heard
    <3>3. QED
      BY <3>1, <3>2, SilentFlow
  <2>4. QED
    BY <2>2, <2>3
<1>8. CASE RefreshTimesOut
  <2>1. refresh'.at # "answered" /\ UNCHANGED <<backendVars, playerVars, calls, shown, action>>
    BY <1>8, RequestTypes DEF RefreshTimesOut
  <2>2. Heard' \subseteq Heard
    BY <1>2, <2>1 DEF Heard
  <2>3. QED
    BY <2>1, <2>2, SilentFlow
<1>9. QED
  BY <1>3, <1>4, <1>5, <1>6, <1>7, <1>8 DEF Page

-----------------------------------------------------------------------------
(***************************************************************************)
(* The player.                                                              *)
(***************************************************************************)
LEMMA FailFlow ==
  ASSUME BackendTypes, PlayerTypes, Flow, NEW c \in Contexts, IsOpen(c), Fail(c),
         UNCHANGED <<backendVars, current, pageVars>>
  PROVE  Flow'
<1>1. /\ session' = session /\ shown' = shown /\ current' = current /\ Heard' = Heard
  BY DEF backendVars, pageVars, Heard
<1>2. context' = [context EXCEPT ![c] = [Stopped(@) EXCEPT !.failed = TRUE]]
  BY DEF Fail
<1>3. context'[c].generation = context[c].generation /\ context'[c].closed
  <2>1. context[c] \in ContextRecords
    BY DEF PlayerTypes
  <2>2. /\ Stopped(context[c]) \in ContextRecords /\ Stopped(context[c]).closed
        /\ Stopped(context[c]).generation = context[c].generation
    BY <2>1, StoppedType
  <2>3. context'[c] = [Stopped(context[c]) EXCEPT !.failed = TRUE]
    BY <1>2 DEF PlayerTypes
  <2>4. QED
    BY <2>2, <2>3 DEF ContextRecords
<1>4. \A d \in Contexts : context'[d].generation = context[d].generation /\ ~IsOpen(d)'
  BY <1>1, <1>2, <1>3 DEF PlayerTypes, IsOpen
<1>5. \A call \in calls' : call \in calls \/ call.answer = "none"
  BY DEF Fail, FailureReport, Unread, Call
<1>6. Truthful' /\ Single'
  BY <1>1, <1>4 DEF Flow, Truthful, Single
<1>7. QED
  BY <1>4, <1>5, <1>6, ClosedFlow

\* A step of an open context that keeps its signals in line.
LEMMA OwnFlow ==
  ASSUME BackendTypes, PlayerTypes, Flow, NEW c \in Contexts, IsOpen(c), NEW ctx \in ContextRecords,
         ctx.generation = context[c].generation, ctx.closed = context[c].closed,
         context' = [context EXCEPT ![c] = ctx], UNCHANGED <<backendVars, current, pageVars>>,
         \A call \in calls' : call \in calls \/ call.answer = "none",
         \A one, other \in Awaited(c, "poll")' : one = other,
         Awaited(c, "poll")' # {} => ctx.at = "polling",
         ctx.at \in {"poll", "polling"} => ctx.batch = <<>>,
         \A pending \in Seq(Signals), accepted \in Nat :
           Line(context[c].taken, context[c].batch, Arrived(c), pending, accepted) =>
             Line(ctx.taken, ctx.batch, Arrived(c)', pending, accepted),
         Held(context[c]) => Held(ctx)
  PROVE  Flow'
<1>1. /\ session' = session /\ shown' = shown /\ current' = current /\ Heard' = Heard
      /\ context'[c] = ctx /\ \A d \in Contexts : d # c => context'[d] = context[d]
      /\ \A d \in Contexts : context'[d].generation = context[d].generation
      /\ \A d \in Contexts : IsOpen(d)' => d = c
  BY DEF backendVars, pageVars, Heard, PlayerTypes, IsOpen
<1>2. Begun' /\ Truthful' /\ Single' /\ Untold'
  BY <1>1 DEF Flow, Begun, Truthful, Single, Untold
<1>3. Ended'
  <2>1. \A call \in calls : call.from \in Contexts
    BY DEF PlayerTypes, CallRecords
  <2>2. QED
    BY <1>1, <2>1 DEF Flow, Ended
<1>4. Asked'
  BY <1>1 DEF Asked
<1>5. InLine'
  <2> SUFFICES ASSUME session.active, context[c].generation = session.generation
               PROVE  Line(ctx.taken, ctx.batch, Arrived(c)', session.pending, session.accepted)
    BY <1>1 DEF InLine
  <2>1. Line(context[c].taken, context[c].batch, Arrived(c), session.pending, session.accepted)
    BY DEF Flow, InLine
  <2>2. session.pending \in Seq(Signals) /\ session.accepted \in Nat
    BY DEF BackendTypes, Sessions
  <2>3. QED
    BY <2>1, <2>2
<1>6. Passed'
  BY <1>1 DEF Flow, Passed
<1>7. QED
  BY <1>2, <1>3, <1>4, <1>5, <1>6 DEF Flow

\* A step that touches neither the signals nor the poll.
LEMMA OtherFlow ==
  ASSUME BackendTypes, PlayerTypes, Flow, NEW c \in Contexts, IsOpen(c), NEW ctx \in ContextRecords,
         ctx.generation = context[c].generation, ctx.closed = context[c].closed,
         context' = [context EXCEPT ![c] = ctx], UNCHANGED <<backendVars, current, pageVars>>,
         \A call \in calls' : call \in calls \/ call.answer = "none",
         Awaited(c, "poll")' = Awaited(c, "poll"),
         ctx.taken = context[c].taken, ctx.batch = context[c].batch,
         Held(context[c]) => Held(ctx),
         \/ ctx.at = context[c].at
         \/ context[c].at # "polling" /\ ctx.at # "polling" /\ (ctx.at = "poll" => ctx.batch = <<>>)
  PROVE  Flow'
<1>1. /\ \A one, other \in Awaited(c, "poll") : one = other
      /\ Awaited(c, "poll") # {} => context[c].at = "polling"
      /\ context[c].at \in {"poll", "polling"} => context[c].batch = <<>>
  BY DEF Flow, Asked
<1>2. Arrived(c)' = Arrived(c)
  <2>1. Polls(c)' = Polls(c)
    BY DEF Polls, Returned
  <2>2. QED
    BY <2>1 DEF Arrived
<1>3. \A pending \in Seq(Signals), accepted \in Nat :
        Line(context[c].taken, context[c].batch, Arrived(c), pending, accepted) =>
          Line(ctx.taken, ctx.batch, Arrived(c)', pending, accepted)
  BY <1>2
<1>4. /\ \A one, other \in Awaited(c, "poll")' : one = other
      /\ Awaited(c, "poll")' # {} => ctx.at = "polling"
      /\ ctx.at \in {"poll", "polling"} => ctx.batch = <<>>
  BY <1>1
<1>5. QED
  BY <1>3, <1>4, OwnFlow

\* A batch arrives.
LEMMA PolledFlow ==
  ASSUME BackendTypes, PlayerTypes, Flow, NEW c \in Contexts, IsOpen(c), Polled(c),
         UNCHANGED <<backendVars, pageVars>>
  PROVE  Flow'
<1> DEFINE ctx == context[c]
<1>1. PICK call \in Returned(c, "poll") :
        \/ /\ call.answer = "ok"
           /\ context' = [context EXCEPT ![c].at = "signal", ![c].peer = TRUE, ![c].batch = call.batch]
           /\ calls' = calls \ {call} /\ UNCHANGED current
        \/ Fail(c) /\ UNCHANGED current
        \/ call.answer = "stopped" /\ Stopping
  <2>1. \A call \in Returned(c, "poll") : call.answer \in {"ok", "error", "stopped"}
    BY DEF Returned, Awaited, PlayerTypes, CallRecords
  <2>2. QED
    BY <2>1 DEF Polled
<1>2. /\ call \in Awaited(c, "poll") /\ call \in calls /\ call.from = c /\ call.kind = "poll"
      /\ call.answer # "none" /\ call.batch \in Seq(Signals) /\ ctx \in ContextRecords
      /\ ctx.taken \in Seq(Signals)
      /\ \A other \in Awaited(c, "poll") : other = call
      /\ ctx.at = "polling" /\ ctx.batch = <<>>
  BY DEF Returned, Awaited, PlayerTypes, CallRecords, ContextRecords, Flow, Asked
<1>3. CASE /\ call.answer = "ok"
           /\ context' = [context EXCEPT ![c].at = "signal", ![c].peer = TRUE, ![c].batch = call.batch]
           /\ calls' = calls \ {call} /\ UNCHANGED current
  <2> DEFINE new == [ctx EXCEPT !.at = "signal", !.peer = TRUE, !.batch = call.batch]
  <2>1. /\ new \in ContextRecords /\ new.generation = ctx.generation /\ new.closed = ctx.closed
        /\ new.taken = ctx.taken /\ new.batch = call.batch /\ new.at = "signal"
        /\ new.added = ctx.added /\ new.pendingIce = ctx.pendingIce
    BY <1>2 DEF ContextRecords, Places
  <2>2. context' = [context EXCEPT ![c] = new]
    BY <1>3 DEF PlayerTypes
  <2>3. Polls(c) = {call} /\ Arrived(c) = call.batch
    <3>1. Polls(c) = {call}
      BY <1>2, <1>3 DEF Polls, Returned
    <3>2. QED
      BY <3>1 DEF Arrived
  <2>4. Awaited(c, "poll")' = {} /\ Arrived(c)' = <<>>
    <3>1. Awaited(c, "poll")' = {}
      BY <1>2, <1>3 DEF Awaited
    <3>2. Polls(c)' = {}
      BY <3>1 DEF Polls, Returned
    <3>3. QED
      BY <3>1, <3>2 DEF Arrived
  <2> HIDE DEF new, ctx
  <2>5. ASSUME NEW pending \in Seq(Signals), NEW accepted \in Nat,
               Line(ctx.taken, <<>>, call.batch, pending, accepted)
        PROVE  Line(ctx.taken, call.batch, <<>>, pending, accepted)
    <3>1. /\ Len(<<>>) = 0 /\ Len(ctx.taken) + 0 = Len(ctx.taken)
          /\ Len(call.batch) \in Nat /\ Len(ctx.taken) \in Nat
      BY <1>2 DEF ctx
    <3>2. Numbered(ctx.taken, 0) /\ Numbered(call.batch, Len(ctx.taken))
      BY <2>5, <3>1 DEF Line
    <3>3. /\ Len(ctx.taken) + Len(<<>>) + Len(call.batch) = Len(ctx.taken) + Len(call.batch)
          /\ Len(ctx.taken) + Len(call.batch) + Len(<<>>) = Len(ctx.taken) + Len(call.batch)
      BY <3>1
    <3>4. /\ Numbered(pending, Len(ctx.taken) + Len(call.batch))
          /\ accepted = Len(ctx.taken) + Len(call.batch) + Len(pending)
      BY <2>5, <3>3 DEF Line
    <3>5. QED
      BY <3>2, <3>3, <3>4, NumberedEmpty DEF Line
  <2>6. Held(ctx) => Held(new)
    BY <2>1 DEF Held
  <2>7. \A other \in calls' : other \in calls
    BY <1>3
  <2>8. \A pending \in Seq(Signals), accepted \in Nat :
          Line(ctx.taken, ctx.batch, Arrived(c), pending, accepted) =>
            Line(new.taken, new.batch, Arrived(c)', pending, accepted)
    BY <1>2, <2>1, <2>3, <2>4, <2>5
  <2>9. QED
    BY <1>3, <2>1, <2>2, <2>4, <2>6, <2>7, <2>8, OwnFlow DEF ctx
<1>4. CASE Fail(c) /\ UNCHANGED current
  BY <1>4, FailFlow
<1>5. CASE call.answer = "stopped" /\ Stopping
  <2>1. session.active => context[c].generation # session.generation
    BY <1>2, <1>5 DEF Flow, Ended
  <2>2. session.active => \A d \in Contexts : context[d].generation # session.generation
    BY <2>1 DEF IsOpen, Flow, Single
  <2>3. Truthful'
    BY DEF Flow, Truthful, Heard, backendVars, pageVars
  <2>4. QED
    BY <1>5, <2>2, <2>3, StoppingFlow
<1>6. QED
  BY <1>1, <1>3, <1>4, <1>5

\* A signal is taken from the batch.
LEMMA AcceptFlow ==
  ASSUME BackendTypes, PlayerTypes, Flow, NEW c \in Contexts, IsOpen(c), Accept(c),
         UNCHANGED <<backendVars, current, pageVars>>
  PROVE  Flow'
<1> DEFINE ctx    == context[c]
           signal == Head(ctx.batch)
           rest   == [ctx EXCEPT !.batch = Tail(@), !.taken = Append(@, signal)]
<1>1. /\ ctx \in ContextRecords /\ ctx.taken \in Seq(Signals) /\ ctx.batch \in Seq(Signals)
      /\ ctx.pendingIce \in Seq(Signals) /\ ctx.added \in SUBSET Signals
      /\ ctx.at = "signal" /\ ctx.batch # <<>> /\ Arrived(c) \in Seq(Signals)
      /\ signal \in Signals /\ Tail(ctx.batch) \in Seq(Signals)
      /\ Append(ctx.taken, signal) \in Seq(Signals)
  <2>1. /\ ctx \in ContextRecords /\ ctx.taken \in Seq(Signals) /\ ctx.batch \in Seq(Signals)
        /\ ctx.pendingIce \in Seq(Signals) /\ Arrived(c) \in Seq(Signals)
        /\ ctx.at = "signal" /\ ctx.batch # <<>>
    BY ContextTypes DEF Accept
  <2>2. ctx.added \in SUBSET Signals
    BY <2>1 DEF ContextRecords
  <2>3. QED
    BY <2>1, <2>2
<1>2. CASE Fail(c)
  BY <1>2, FailFlow
<1>3. /\ rest \in ContextRecords /\ rest.generation = ctx.generation /\ rest.closed = ctx.closed
      /\ rest.taken = Append(ctx.taken, signal) /\ rest.batch = Tail(ctx.batch)
      /\ rest.at = "signal" /\ rest.added = ctx.added /\ rest.pendingIce = ctx.pendingIce
  BY <1>1 DEF ContextRecords
<1>4. \/ signal.kind = "offer" /\ Step(c, [rest EXCEPT !.answerSent = FALSE, !.at = "remote"])
      \/ Step(c, [rest EXCEPT !.added = @ \cup {signal}])
      \/ Step(c, [rest EXCEPT !.pendingIce = Append(@, signal)])
      \/ Fail(c)
  BY <1>1 DEF Accept, KeptBack, Signals
\* The line of signals only moves.
<1>5. ASSUME NEW new \in ContextRecords, Step(c, new),
             new.generation = ctx.generation, new.closed = ctx.closed,
             new.taken = Append(ctx.taken, signal), new.batch = Tail(ctx.batch),
             new.at \in {"signal", "remote"}, Held(ctx) => Held(new)
      PROVE  Flow'
  <2> HIDE DEF signal, rest
  <2>1. calls' = calls /\ context' = [context EXCEPT ![c] = new]
    BY <1>5 DEF Step
  <2>2. Awaited(c, "poll") = {} /\ Awaited(c, "poll")' = Awaited(c, "poll") /\ Arrived(c)' = Arrived(c)
    BY <1>1, <2>1 DEF Flow, Asked, Awaited, Arrived, Polls, Returned
  <2>3. ASSUME NEW pending \in Seq(Signals), NEW accepted \in Nat,
               Line(ctx.taken, ctx.batch, Arrived(c), pending, accepted)
        PROVE  Line(new.taken, new.batch, Arrived(c), pending, accepted)
    <3>1. /\ Numbered(ctx.taken, 0) /\ Numbered(ctx.batch, 0 + Len(ctx.taken)) /\ 0 \in Nat
      BY <1>1, <2>3 DEF Line
    <3>2. Numbered(new.taken, 0) /\ Numbered(new.batch, 0 + Len(new.taken))
      BY <1>1, <1>5, <3>1, NumberedMove DEF signal
    <3>3. Len(new.taken) = Len(ctx.taken) + 1 /\ Len(new.batch) = Len(ctx.batch) - 1
          /\ Len(ctx.batch) \in Nat /\ Len(ctx.taken) \in Nat
      BY <1>1, <1>5, Appended, Rest
    <3>4. Len(new.taken) + Len(new.batch) = Len(ctx.taken) + Len(ctx.batch)
      <4>1. \A p, q \in Nat : (p + 1) + (q - 1) = p + q
        OBVIOUS
      <4>2. (Len(ctx.taken) + 1) + (Len(ctx.batch) - 1) = Len(ctx.taken) + Len(ctx.batch)
        BY <3>3, <4>1
      <4>3. Len(new.taken) + Len(new.batch) = (Len(ctx.taken) + 1) + (Len(ctx.batch) - 1)
        BY <3>3
      <4>4. QED
        BY <4>2, <4>3
    <3>5. /\ Numbered(Arrived(c), Len(new.taken) + Len(new.batch))
          /\ Numbered(pending, Len(new.taken) + Len(new.batch) + Len(Arrived(c)))
          /\ accepted = Len(new.taken) + Len(new.batch) + Len(Arrived(c)) + Len(pending)
      BY <2>3, <3>4 DEF Line
    <3>6. Numbered(new.batch, Len(new.taken))
      BY <3>2, <3>3
    <3>7. QED
      BY <3>2, <3>5, <3>6 DEF Line
  <2>4. QED
    BY <1>1, <1>5, <2>1, <2>2, <2>3, OwnFlow
<1>6. \A i \in DOMAIN Append(ctx.taken, signal) :
        \/ i \in DOMAIN ctx.taken /\ Append(ctx.taken, signal)[i] = ctx.taken[i]
        \/ Append(ctx.taken, signal)[i] = signal
  BY <1>1
<1> HIDE DEF signal, rest, ctx
<1>7. CASE signal.kind = "offer" /\ Step(c, [rest EXCEPT !.answerSent = FALSE, !.at = "remote"])
  <2> DEFINE new == [rest EXCEPT !.answerSent = FALSE, !.at = "remote"]
  <2>1. /\ new \in ContextRecords /\ new.generation = ctx.generation /\ new.closed = ctx.closed
        /\ new.taken = Append(ctx.taken, signal) /\ new.batch = Tail(ctx.batch) /\ new.at = "remote"
        /\ new.added = ctx.added /\ new.pendingIce = ctx.pendingIce
    BY <1>3 DEF ContextRecords, Places
  <2>2. Step(c, new)
    BY <1>7
  <2> HIDE DEF new
  <2>3. Held(ctx) => Held(new)
    <3> SUFFICES ASSUME Held(ctx), NEW i \in DOMAIN Append(ctx.taken, signal),
                        Append(ctx.taken, signal)[i].kind = "ice"
                 PROVE  \/ Append(ctx.taken, signal)[i] \in ctx.added
                        \/ \E k \in DOMAIN ctx.pendingIce :
                             ctx.pendingIce[k] = Append(ctx.taken, signal)[i]
      BY <2>1 DEF Held
    <3>1. i \in DOMAIN ctx.taken /\ Append(ctx.taken, signal)[i] = ctx.taken[i]
      BY <1>6, <1>7
    <3>2. QED
      BY <3>1 DEF Held
  <2>4. QED
    BY <1>5, <2>1, <2>2, <2>3
<1>8. CASE Step(c, [rest EXCEPT !.added = @ \cup {signal}])
  <2> DEFINE new == [rest EXCEPT !.added = @ \cup {signal}]
  <2>1. rest.added \cup {signal} \in SUBSET Signals
    BY <1>1, <1>3
  <2>2. /\ new \in ContextRecords /\ new.generation = ctx.generation /\ new.closed = ctx.closed
        /\ new.taken = Append(ctx.taken, signal) /\ new.batch = Tail(ctx.batch) /\ new.at = "signal"
        /\ new.added = ctx.added \cup {signal} /\ new.pendingIce = ctx.pendingIce
    BY <1>3, <2>1 DEF ContextRecords
  <2>3. Step(c, new)
    BY <1>8
  <2> HIDE DEF new
  <2>4. Held(ctx) => Held(new)
    BY <1>6, <2>2 DEF Held
  <2>5. QED
    BY <1>5, <2>2, <2>3, <2>4
<1>9. CASE Step(c, [rest EXCEPT !.pendingIce = Append(@, signal)])
  <2> DEFINE new == [rest EXCEPT !.pendingIce = Append(@, signal)]
  <2>1. /\ Append(ctx.pendingIce, signal) \in Seq(Signals)
        /\ \A k \in DOMAIN ctx.pendingIce :
             /\ k \in DOMAIN Append(ctx.pendingIce, signal)
             /\ Append(ctx.pendingIce, signal)[k] = ctx.pendingIce[k]
        /\ \E k \in DOMAIN Append(ctx.pendingIce, signal) : Append(ctx.pendingIce, signal)[k] = signal
    <3>1. /\ Append(ctx.pendingIce, signal) \in Seq(Signals)
          /\ Len(ctx.pendingIce) + 1 \in DOMAIN Append(ctx.pendingIce, signal)
          /\ Append(ctx.pendingIce, signal)[Len(ctx.pendingIce) + 1] = signal
      BY <1>1
    <3>2. QED
      BY <1>1, <3>1
  <2>2. /\ new \in ContextRecords /\ new.generation = ctx.generation /\ new.closed = ctx.closed
        /\ new.taken = Append(ctx.taken, signal) /\ new.batch = Tail(ctx.batch) /\ new.at = "signal"
        /\ new.added = ctx.added /\ new.pendingIce = Append(ctx.pendingIce, signal)
    BY <1>3, <2>1 DEF ContextRecords
  <2>3. Step(c, new)
    BY <1>9
  <2> HIDE DEF new
  <2>4. ASSUME Held(ctx) PROVE Held(new)
    <3> SUFFICES ASSUME NEW i \in DOMAIN Append(ctx.taken, signal),
                        Append(ctx.taken, signal)[i].kind = "ice"
                 PROVE  \/ Append(ctx.taken, signal)[i] \in ctx.added
                        \/ \E k \in DOMAIN Append(ctx.pendingIce, signal) :
                             Append(ctx.pendingIce, signal)[k] = Append(ctx.taken, signal)[i]
      BY <2>2 DEF Held
    <3>1. CASE Append(ctx.taken, signal)[i] = signal
      BY <2>1, <3>1
    <3>2. CASE i \in DOMAIN ctx.taken /\ Append(ctx.taken, signal)[i] = ctx.taken[i]
      BY <2>1, <2>4, <3>2 DEF Held
    <3>3. QED
      BY <1>6, <3>1, <3>2
  <2>5. QED
    BY <1>5, <2>2, <2>3, <2>4
<1>10. QED
  BY <1>2, <1>4, <1>7, <1>8, <1>9

LEMMA PollFlow ==
  ASSUME BackendTypes, PlayerTypes, Flow, NEW c \in Contexts, IsOpen(c), Poll(c),
         UNCHANGED <<backendVars, current, pageVars>>
  PROVE  Flow'
<1> DEFINE ctx  == context[c]
           new  == [ctx EXCEPT !.at = "polling"]
           call == Call(c, "poll", Answer)
<1>1. /\ ctx \in ContextRecords /\ ctx.at = "poll" /\ ctx.batch = <<>> /\ Awaited(c, "poll") = {}
  BY DEF PlayerTypes, Poll, Flow, Asked
<1>2. /\ new \in ContextRecords /\ new.generation = ctx.generation /\ new.closed = ctx.closed
      /\ new.taken = ctx.taken /\ new.batch = ctx.batch /\ new.at = "polling"
      /\ new.added = ctx.added /\ new.pendingIce = ctx.pendingIce
  BY <1>1 DEF ContextRecords, Places
<1>3. context' = [context EXCEPT ![c] = new] /\ calls' = calls \cup {call}
  BY DEF Poll, Invoke, PlayerTypes
<1>4. call.from = c /\ call.kind = "poll" /\ call.answer = "none"
  BY DEF Call
<1> HIDE DEF new, call
<1>5. Awaited(c, "poll")' = {call}
  BY <1>1, <1>3, <1>4 DEF Awaited
<1>6. Arrived(c) = <<>> /\ Arrived(c)' = <<>>
  <2>1. Polls(c) = {} /\ Polls(c)' = {}
    BY <1>1, <1>4, <1>5 DEF Polls, Returned
  <2>2. QED
    BY <2>1 DEF Arrived
<1>7. \A pending \in Seq(Signals), accepted \in Nat :
        Line(ctx.taken, ctx.batch, Arrived(c), pending, accepted) =>
          Line(new.taken, new.batch, Arrived(c)', pending, accepted)
  BY <1>2, <1>6
<1>8. Held(ctx) => Held(new)
  BY <1>2 DEF Held
<1>9. /\ \A other \in calls' : other \in calls \/ other.answer = "none"
      /\ \A one, other \in Awaited(c, "poll")' : one = other
      /\ Awaited(c, "poll")' # {} => new.at = "polling"
      /\ new.at \in {"poll", "polling"} => new.batch = <<>>
  BY <1>1, <1>2, <1>3, <1>4, <1>5
<1>10. QED
  BY <1>2, <1>3, <1>7, <1>8, <1>9, OwnFlow

\* A candidate kept back is passed on.
LEMMA AddIceFlow ==
  ASSUME BackendTypes, PlayerTypes, Flow, NEW c \in Contexts, IsOpen(c), AddIce(c),
         UNCHANGED <<backendVars, current, pageVars>>
  PROVE  Flow'
<1> DEFINE ctx == context[c]
           ice == ctx.pendingIce
<1>1. ctx \in ContextRecords /\ ice \in Seq(Signals) /\ ctx.at = "adding" /\ ctx.added \in SUBSET Signals
  BY DEF PlayerTypes, AddIce, ContextRecords
<1>2. \/ Fail(c)
      \/ Step(c, [ctx EXCEPT !.at = "local"])
      \/ ice # <<>> /\ Step(c, [ctx EXCEPT !.pendingIce = Tail(@), !.added = @ \cup {Head(ice)}])
  BY DEF AddIce
<1>3. CASE Fail(c)
  BY <1>3, FailFlow
<1>4. CASE Step(c, [ctx EXCEPT !.at = "local"])
  <2> DEFINE new == [ctx EXCEPT !.at = "local"]
  <2>1. /\ new \in ContextRecords /\ new.generation = ctx.generation /\ new.closed = ctx.closed
        /\ new.taken = ctx.taken /\ new.batch = ctx.batch /\ new.at = "local"
        /\ new.added = ctx.added /\ new.pendingIce = ctx.pendingIce
    BY <1>1 DEF ContextRecords, Places
  <2> HIDE DEF new
  <2>2. Held(ctx) => Held(new)
    BY <2>1 DEF Held
  <2>3. calls' = calls /\ context' = [context EXCEPT ![c] = new] /\ Awaited(c, "poll")' = Awaited(c, "poll")
    BY <1>4 DEF Step, Awaited, new
  <2>4. QED
    BY <1>1, <2>1, <2>2, <2>3, OtherFlow
<1>5. CASE ice # <<>> /\ Step(c, [ctx EXCEPT !.pendingIce = Tail(@), !.added = @ \cup {Head(ice)}])
  <2> DEFINE new == [ctx EXCEPT !.pendingIce = Tail(@), !.added = @ \cup {Head(ice)}]
  <2>1. /\ Tail(ice) \in Seq(Signals) /\ ctx.added \cup {Head(ice)} \in SUBSET Signals
        /\ \A k \in DOMAIN ice : \/ ice[k] = Head(ice)
                                 \/ k - 1 \in DOMAIN Tail(ice) /\ Tail(ice)[k - 1] = ice[k]
    <3> HIDE DEF ice
    <3>1. /\ Head(ice) = ice[1] /\ Head(ice) \in Signals
          /\ Tail(ice) \in Seq(Signals) /\ Len(Tail(ice)) = Len(ice) - 1
          /\ DOMAIN ice = 1..Len(ice) /\ DOMAIN Tail(ice) = 1..Len(Tail(ice))
          /\ \A k \in 1..Len(Tail(ice)) : Tail(ice)[k] = ice[k + 1]
      BY <1>1, <1>5
    <3>2. ASSUME NEW k \in DOMAIN ice, k # 1
          PROVE  k - 1 \in DOMAIN Tail(ice) /\ Tail(ice)[k - 1] = ice[k]
      <4>1. k - 1 \in 1..Len(Tail(ice)) /\ (k - 1) + 1 = k
        BY <1>1, <3>1, <3>2
      <4>2. QED
        BY <3>1, <4>1
    <3>3. QED
      BY <1>1, <3>1, <3>2
  <2>2. /\ new \in ContextRecords /\ new.generation = ctx.generation /\ new.closed = ctx.closed
        /\ new.taken = ctx.taken /\ new.batch = ctx.batch /\ new.at = ctx.at
        /\ new.added = ctx.added \cup {Head(ice)} /\ new.pendingIce = Tail(ice)
    BY <1>1, <2>1 DEF ContextRecords
  <2>3. calls' = calls /\ context' = [context EXCEPT ![c] = new] /\ Awaited(c, "poll")' = Awaited(c, "poll")
    BY <1>5 DEF Step, Awaited
  <2> HIDE DEF new
  <2>4. ASSUME Held(ctx) PROVE Held(new)
    <3> SUFFICES ASSUME NEW i \in DOMAIN ctx.taken, ctx.taken[i].kind = "ice"
                 PROVE  \/ ctx.taken[i] \in ctx.added \cup {Head(ice)}
                        \/ \E k \in DOMAIN Tail(ice) : Tail(ice)[k] = ctx.taken[i]
      BY <2>2 DEF Held
    <3>1. \/ ctx.taken[i] \in ctx.added
          \/ \E k \in DOMAIN ice : ice[k] = ctx.taken[i]
      BY <2>4 DEF Held
    <3>2. QED
      BY <2>1, <3>1
  <2>5. QED
    BY <1>1, <2>2, <2>3, <2>4, OtherFlow
<1>6. QED
  BY <1>2, <1>3, <1>4, <1>5

\* The steps that only move the player's place, or what it sends.
LEMMA PlaceFlow ==
  ASSUME BackendTypes, PlayerTypes, PlayerTypes', Flow, NEW c \in Contexts, IsOpen(c),
         \/ SetRemote(c) \/ SetLocal(c) \/ AnswerSent(c) \/ Flushed(c) \/ EndBatch(c)
         \/ SendNext(c) \/ Sent(c) \/ Gather(c),
         UNCHANGED <<backendVars, current, pageVars>>
  PROVE  Flow'
<1> DEFINE ctx == context[c]
<1>1. ctx \in ContextRecords
  BY DEF PlayerTypes
\* What all of them leave alone.
<1>2. ASSUME NEW new, context' = [context EXCEPT ![c] = new],
             \A call \in calls' : call \in calls \/ call.answer = "none",
             Awaited(c, "poll")' = Awaited(c, "poll"),
             new.generation = ctx.generation, new.closed = ctx.closed,
             new.taken = ctx.taken, new.batch = ctx.batch,
             new.added = ctx.added, new.pendingIce = ctx.pendingIce,
             \/ new.at = ctx.at
             \/ ctx.at # "polling" /\ new.at # "polling" /\ (new.at = "poll" => new.batch = <<>>)
      PROVE  Flow'
  <2>1. new \in ContextRecords
    <3>1. context'[c] = new
      BY <1>2 DEF PlayerTypes
    <3>2. QED
      BY <3>1 DEF PlayerTypes
  <2>2. Held(ctx) => Held(new)
    BY <1>2 DEF Held
  <2> HIDE DEF ctx
  <2>3. QED
    BY <1>2, <2>1, <2>2, OtherFlow DEF ctx
<1>3. ASSUME NEW new, Step(c, new) 
      PROVE  /\ context' = [context EXCEPT ![c] = new]
             /\ \A call \in calls' : call \in calls \/ call.answer = "none"
             /\ Awaited(c, "poll")' = Awaited(c, "poll")
  BY <1>3 DEF Step, Awaited
<1>4. CASE Fail(c)
  BY <1>4, FailFlow
<1>5. CASE SetRemote(c)
  <2> DEFINE new == [ctx EXCEPT !.remote = TRUE, !.at = "adding"]
  <2>1. ctx.at = "remote" /\ (Step(c, new) \/ Fail(c))
    BY <1>5 DEF SetRemote
  <2>2. /\ new.generation = ctx.generation /\ new.closed = ctx.closed /\ new.taken = ctx.taken
        /\ new.batch = ctx.batch /\ new.added = ctx.added /\ new.pendingIce = ctx.pendingIce
        /\ new.at = "adding"
    BY <1>1 DEF ContextRecords
  <2> HIDE DEF new, ctx
  <2>3. QED
    BY <1>2, <1>3, <1>4, <2>1, <2>2
<1>6. CASE SetLocal(c)
  <2> DEFINE new == Answering(ctx)
  <2>1. ctx.at = "local" /\ (Step(c, new) \/ Fail(c))
    BY <1>6 DEF SetLocal
  <2>2. /\ new.generation = ctx.generation /\ new.closed = ctx.closed /\ new.taken = ctx.taken
        /\ new.batch = ctx.batch /\ new.added = ctx.added /\ new.pendingIce = ctx.pendingIce
        /\ new.at = "answering"
    BY <1>1 DEF ContextRecords, Answering
  <2> HIDE DEF new, ctx
  <2>3. QED
    BY <1>2, <1>3, <1>4, <2>1, <2>2
<1>7. CASE AnswerSent(c)
  <2> DEFINE new == [ctx EXCEPT !.at = "flushing", !.answerSent = TRUE,
                                !.outgoing = ctx.localIce, !.localIce = <<>>]
  <2>1. ctx.at = "answering" /\ Step(c, new)
    BY <1>7 DEF AnswerSent
  <2>2. /\ new.generation = ctx.generation /\ new.closed = ctx.closed /\ new.taken = ctx.taken
        /\ new.batch = ctx.batch /\ new.added = ctx.added /\ new.pendingIce = ctx.pendingIce
        /\ new.at = "flushing"
    BY <1>1 DEF ContextRecords
  <2> HIDE DEF new, ctx
  <2>3. QED
    BY <1>2, <1>3, <2>1, <2>2
<1>8. CASE Flushed(c)
  <2> DEFINE new == [ctx EXCEPT !.at = "signal"]
  <2>1. ctx.at = "flushing" /\ Step(c, new)
    BY <1>8 DEF Flushed
  <2>2. /\ new.generation = ctx.generation /\ new.closed = ctx.closed /\ new.taken = ctx.taken
        /\ new.batch = ctx.batch /\ new.added = ctx.added /\ new.pendingIce = ctx.pendingIce
        /\ new.at = "signal"
    BY <1>1 DEF ContextRecords
  <2> HIDE DEF new, ctx
  <2>3. QED
    BY <1>2, <1>3, <2>1, <2>2
<1>9. CASE EndBatch(c)
  <2> DEFINE new == [ctx EXCEPT !.at = "poll"]
  <2>1. ctx.at = "signal" /\ ctx.batch = <<>> /\ Step(c, new)
    BY <1>9 DEF EndBatch
  <2>2. /\ new.generation = ctx.generation /\ new.closed = ctx.closed /\ new.taken = ctx.taken
        /\ new.batch = ctx.batch /\ new.added = ctx.added /\ new.pendingIce = ctx.pendingIce
        /\ new.at = "poll"
    BY <1>1 DEF ContextRecords
  <2> HIDE DEF new, ctx
  <2>3. QED
    BY <1>2, <1>3, <2>1, <2>2
<1>10. CASE SendNext(c)
  <2> DEFINE call == Call(c, "send", Head(ctx.outgoing))
  <2>1. context' = [context EXCEPT ![c] = ctx] /\ calls' = calls \cup {call}
    BY <1>10 DEF SendNext, PlayerTypes
  <2>2. call.kind = "send" /\ call.answer = "none"
    BY DEF Call
  <2> HIDE DEF call
  <2>3. Awaited(c, "poll")' = Awaited(c, "poll")
    BY <2>1, <2>2 DEF Awaited
  <2>4. \A other \in calls' : other \in calls \/ other.answer = "none"
    BY <2>1, <2>2
  <2> HIDE DEF ctx
  <2>5. QED
    BY <1>2, <2>1, <2>3, <2>4
<1>11. CASE Sent(c)
  <2>1. PICK call \in Returned(c, "send") :
          \/ context' = [context EXCEPT ![c].outgoing = Tail(@)] /\ calls' = calls \ {call}
          \/ Fail(c)
    BY <1>11 DEF Sent
  <2>2. CASE context' = [context EXCEPT ![c].outgoing = Tail(@)] /\ calls' = calls \ {call}
    <3> DEFINE new == [ctx EXCEPT !.outgoing = Tail(@)]
    <3>1. context' = [context EXCEPT ![c] = new] /\ call.kind = "send"
      BY <2>1, <2>2 DEF PlayerTypes, Returned, Awaited
    <3>2. Awaited(c, "poll")' = Awaited(c, "poll") /\ \A other \in calls' : other \in calls
      BY <2>2, <3>1 DEF Awaited
    <3>3. /\ new.generation = ctx.generation /\ new.closed = ctx.closed /\ new.taken = ctx.taken
          /\ new.batch = ctx.batch /\ new.added = ctx.added /\ new.pendingIce = ctx.pendingIce
          /\ new.at = ctx.at
      BY <1>1 DEF ContextRecords
    <3> HIDE DEF new, ctx
    <3>4. QED
      BY <1>2, <3>1, <3>2, <3>3
  <2>3. QED
    BY <1>4, <2>1, <2>2
<1>12. CASE Gather(c)
  <2>1. PICK new \in {[ctx EXCEPT !.gathered = @ + 1, !.outgoing = Append(@, ctx.gathered + 1)],
                      [ctx EXCEPT !.gathered = @ + 1, !.localIce = Append(@, ctx.gathered + 1)]} :
          Step(c, new) \/ Fail(c)
    BY <1>1, <1>12 DEF Gather, ContextRecords
  <2>2. /\ new.generation = ctx.generation /\ new.closed = ctx.closed /\ new.taken = ctx.taken
        /\ new.batch = ctx.batch /\ new.added = ctx.added /\ new.pendingIce = ctx.pendingIce
        /\ new.at = ctx.at
    BY <1>1, <2>1 DEF ContextRecords
  <2> HIDE DEF ctx
  <2>3. QED
    BY <1>2, <1>3, <1>4, <2>1, <2>2
<1>13. QED
  BY <1>5, <1>6, <1>7, <1>8, <1>9, <1>10, <1>11, <1>12

LEMMA PlayerFlow ==
  ASSUME Inductive, Inductive', Flow, NEW c \in Contexts, Run(c) \/ Outgoing(c) \/ Peer(c)
  PROVE  Flow'
<1>1. /\ BackendTypes /\ PlayerTypes /\ PlayerTypes' /\ IsOpen(c) /\ UNCHANGED <<backendVars, pageVars>>
  BY DEF Inductive, Types, Run, Outgoing, Peer
<1>2. CASE Polled(c)
  BY <1>1, <1>2, PolledFlow
<1>3. CASE Poll(c) /\ UNCHANGED current
  BY <1>1, <1>3, PollFlow
<1>4. CASE Accept(c) /\ UNCHANGED current
  BY <1>1, <1>4, AcceptFlow
<1>5. CASE AddIce(c) /\ UNCHANGED current
  BY <1>1, <1>5, AddIceFlow
<1>6. CASE (\/ SetRemote(c) \/ SetLocal(c) \/ AnswerSent(c) \/ Flushed(c) \/ EndBatch(c)
            \/ SendNext(c) \/ Sent(c) \/ Gather(c)) /\ UNCHANGED current
  BY <1>1, <1>6, PlaceFlow
<1>7. CASE Fail(c) /\ UNCHANGED current
  BY <1>1, <1>7, FailFlow
<1>8. QED
  BY <1>2, <1>3, <1>4, <1>5, <1>6, <1>7 DEF Run, Outgoing, Peer, PeerFails, CallTimesOut

-----------------------------------------------------------------------------
(***************************************************************************)
(* The theorem.                                                             *)
(***************************************************************************)
LEMMA InitFlow == Init => Flow
<1> SUFFICES ASSUME Init PROVE Flow
  OBVIOUS
<1>1. /\ ~session.active /\ calls = {} /\ current = 0
      /\ Heard = {shown} /\ shown.generation <= shown.epoch
  BY NoSessionType DEF Init, Heard, Idle
<1>2. \A c \in Contexts : ~IsOpen(c)
  BY <1>1 DEF IsOpen, Contexts
<1>3. QED
  BY <1>1, <1>2 DEF Flow, Begun, Truthful, Single, Ended, Asked, InLine, Untold, Passed

\* A command of the page that is executed answers with the session it leaves.
LEMMA ExecutedFlow ==
  ASSUME Inductive, Inductive', Flow, ExecuteAction \/ ExecuteRefresh \/ ExecuteAbandoned
  PROVE  Flow'
<1>1. PageTypes /\ {action, refresh} \subseteq Requests
  BY DEF Inductive, Types, PageTypes
<1>2. ASSUME NEW request \in Requests
      PROVE  LET a == Answered(request).answer
             IN  a.generation = session'.generation /\ a.stopped = session'.stopped
                 /\ a.epoch = session'.epoch
  BY DEF Answered, Requests
<1>3. ASSUME UNCHANGED shown,
             \/ action' = action \/ action' = Answered(action),
             \/ refresh' = refresh \/ refresh' = Answered(refresh)
      PROVE  \A answer \in Heard' :
               \/ answer \in Heard
               \/ /\ answer.generation = session'.generation /\ answer.stopped = session'.stopped
                  /\ answer.epoch = session'.epoch
  BY <1>1, <1>2, <1>3 DEF Heard
<1>4. CASE ExecuteAction
  <2>1. /\ Executed(action.kind) /\ UNCHANGED <<playerVars, calls, shown>>
        /\ action' = Answered(action) /\ refresh' = refresh
    BY <1>4 DEF ExecuteAction
  <2>2. action.kind \in UserCommands \cup {"refresh"}
    BY <1>1, <1>4 DEF ExecuteAction, PageTypes, Requests
  <2>3. QED
    BY <1>3, <2>1, <2>2, CommandFlow
<1>5. CASE ExecuteRefresh
  <2>1. /\ Executed("refresh") /\ UNCHANGED <<playerVars, calls, shown>>
        /\ refresh' = Answered(refresh) /\ action' = action
    BY <1>5 DEF ExecuteRefresh
  <2>2. QED
    BY <1>3, <2>1, CommandFlow
<1>6. CASE ExecuteAbandoned
  <2>1. PICK command \in abandoned : Executed(command)
    BY <1>6 DEF ExecuteAbandoned
  <2>2. command \in UserCommands /\ UNCHANGED <<playerVars, calls, shown, action, refresh>>
    BY <1>1, <1>6, <2>1 DEF ExecuteAbandoned, PageTypes
  <2>3. QED
    BY <1>3, <2>1, <2>2, CommandFlow
<1>7. QED
  BY <1>4, <1>5, <1>6

LEMMA FlowStep == Inductive /\ Inductive' /\ Flow /\ [Next]_vars => Flow'
<1> SUFFICES ASSUME Inductive, Inductive', Flow, [Next]_vars PROVE Flow'
  OBVIOUS
<1>1. CASE UNCHANGED vars
  <2>1. UNCHANGED <<backendVars, playerVars, calls, shown, action, refresh>>
    BY <1>1 DEF vars, pageVars
  <2>2. Heard' \subseteq Heard
    BY <2>1 DEF Heard
  <2>3. QED
    BY <2>1, <2>2, SilentFlow
<1>2. QED
  BY <1>1, PageFlow, ExecutedFlow, CallFlow, PlayerFlow DEF Next, Backend

\* Nothing the bridge accepts is lost, doubled or overtaken on its way to the
\* player's peer, whatever is replaced, times out or fails meanwhile.
THEOREM SignalsStayInLine == Spec => []SignalsReachPlayerInOrder
<1>1. Inductive /\ Flow => SignalsReachPlayerInOrder
  <2> SUFFICES ASSUME Inductive, Flow, NEW c \in Contexts, IsOpen(c),
                      session.generation = context[c].generation, session.active
               PROVE  /\ Len(OnTheWay(c)) = session.accepted
                      /\ \A i \in DOMAIN OnTheWay(c) : OnTheWay(c)[i].n = i
                      /\ Held(context[c])
    BY DEF SignalsReachPlayerInOrder, Held
  <2>1. /\ context[c].taken \in Seq(Signals) /\ context[c].batch \in Seq(Signals)
        /\ Arrived(c) \in Seq(Signals)
        /\ session.pending \in Seq(Signals) /\ session.accepted \in Nat
    BY ContextTypes DEF Inductive, Types, BackendTypes, Sessions
  <2>2. OnTheWay(c) = context[c].taken \o context[c].batch \o Arrived(c) \o session.pending
    BY DEF OnTheWay, Arrived, Polls
  <2>3. Line(context[c].taken, context[c].batch, Arrived(c), session.pending, session.accepted)
    BY DEF Flow, InLine
  <2>4. /\ Len(OnTheWay(c)) = session.accepted
        /\ \A i \in DOMAIN OnTheWay(c) : OnTheWay(c)[i].n = i
    <3> DEFINE all == context[c].taken \o context[c].batch \o Arrived(c) \o session.pending
    <3>1. Len(all) = session.accepted /\ \A i \in DOMAIN all : all[i].n = i
      BY <2>1, <2>3, LineInOrder
    <3>2. OnTheWay(c) = all
      BY <2>2
    <3> HIDE DEF all
    <3>3. QED
      BY <3>1, <3>2
  <2>5. QED
    BY <2>4 DEF Flow, Passed
<1>2. QED
  BY <1>1, Invariance, InitFlow, FlowStep, PTL DEF Spec
=============================================================================
