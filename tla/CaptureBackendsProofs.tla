------------------------- MODULE CaptureBackendsProofs -------------------------
(***************************************************************************)
(* Theorems about CaptureBackends for any sources, any number of native      *)
(* objects and any limit of the audio packets.                               *)
(***************************************************************************)
EXTENDS CaptureBackends, SequenceLemmas

Captures == 1..MaxCaptures
Live     == {"starting", "running"}

\* What the variables of either runtime range over.
RuntimeTypes ==
  /\ status \in Statuses /\ active \in SourceIds \cup {NoSource}
  /\ pending \in Seq(Events) /\ bridgeSource \in SourceIds \cup {NoSource}

\* No sample is pending: it is polled from the bridge.
NoSamplePending == \A i \in 1..Len(pending) : pending[i].kind \notin Samples

-----------------------------------------------------------------------------
(***************************************************************************)
(* The status after several events.                                         *)
(***************************************************************************)
\* StatusChanged is taken at its word.
LEMMA StatusChanges ==
  ASSUME NEW s, NEW event, event.kind = "statuschanged"
  PROVE  StatusAfter(s, event) = event.status
BY DEF StatusAfter, Samples

\* What StatusAfter may return.
Marks == Statuses \cup {"started", "error"} \cup Samples

\* They are closed under it,
LEMMA OneEvent ==
  ASSUME NEW s \in Marks, NEW event \in Events
  PROVE  StatusAfter(s, event) \in Marks
BY DEF Marks, Events, StatusAfter, Statuses, Samples

\* and under a sequence of steps.
LEMMA MarksFollow ==
  ASSUME NEW n \in Nat, NEW base \in Marks, NEW step \in [1..n -> [Marks -> Marks]]
  PROVE  \E g \in [0..n -> Marks] : /\ g[0] = base
                                     /\ \A i \in 1..n : g[i] = step[i][g[i - 1]]
BY StepsTaken DEF Iterated

\* apply_event_status takes the events one by one.
LEMMA EventByEvent ==
  ASSUME NEW s \in Marks, NEW list \in Seq(Events)
  PROVE  \E after \in [0..Len(list) -> Marks] :
           /\ after[0] = s
           /\ \A i \in 1..Len(list) : after[i] = StatusAfter(after[i - 1], list[i])
           /\ StatusAfterAll(s, list) = after[Len(list)]
<1> DEFINE n == Len(list)
           Folded(g) == g = [i \in 0..n |-> IF i = 0 THEN s ELSE StatusAfter(g[i - 1], list[i])]
           after == CHOOSE g : Folded(g)
           step == [i \in 1..n |-> [t \in Marks |-> StatusAfter(t, list[i])]]
<1>1. n \in Nat /\ \A i \in 1..n : list[i] \in Events
  BY LenProperties, ElementOfSeq
<1>2. step \in [1..n -> [Marks -> Marks]]
  BY <1>1, OneEvent
<1>3. PICK g \in [0..n -> Marks] : g[0] = s /\ \A i \in 1..n : g[i] = step[i][g[i - 1]]
  <2>1. n \in Nat
    BY <1>1
  <2> HIDE DEF step, n, Folded, after
  <2>2. QED
    BY <1>2, <2>1, MarksFollow, Zenon
<1>4. ASSUME NEW i \in 1..n PROVE g[i] = StatusAfter(g[i - 1], list[i])
  <2>1. i - 1 \in 0..n
    BY <1>1
  <2>2. g[i - 1] \in Marks /\ g[i] = step[i][g[i - 1]]
    BY <1>3, <2>1
  <2>3. \A t \in Marks : step[i][t] = StatusAfter(t, list[i])
    OBVIOUS
  <2> HIDE DEF step, n
  <2>4. QED
    BY <2>2, <2>3
<1>5. \A i \in 0..n : i = 0 \/ i \in 1..n
  BY <1>1
<1>6. Folded(g)
  <2> HIDE DEF step, n
  <2>1. \A i \in 0..n : g[i] = IF i = 0 THEN s ELSE StatusAfter(g[i - 1], list[i])
    BY <1>3, <1>4, <1>5
  <2>2. QED
    BY <1>3, <2>1
<1>7. Folded(after)
  BY <1>6
<1>8. after[0] = s /\ \A i \in 1..n : after[i] = StatusAfter(after[i - 1], list[i])
  <2>1. 0 \in 0..n /\ \A i \in 1..n : i \in 0..n /\ i # 0
    BY <1>1
  <2> HIDE DEF after, n
  <2>2. QED
    BY <1>7, <2>1
<1>9. StatusAfterAll(s, list) = after[n]
  BY DEF StatusAfterAll
<1> HIDE DEF after
<1>10. after \in [0..n -> Marks]
  <2> DEFINE T == {i \in 0..n : after[i] \in Marks}
  <2>1. 0 \in T
    BY <1>1, <1>8
  <2>2. ASSUME NEW i \in 1..n, i - 1 \in T PROVE i \in T
    <3>1. i \in 0..n /\ list[i] \in Events /\ after[i - 1] \in Marks
      BY <1>1, <2>2
    <3>2. StatusAfter(after[i - 1], list[i]) \in Marks
      BY <3>1, OneEvent
    <3>3. QED
      BY <1>8, <3>1, <3>2
  <2>3. 0..n \subseteq T
    <3>1. n \in Nat
      BY <1>1
    <3> HIDE DEF T, n
    <3>2. QED
      BY <2>1, <2>2, <3>1, Induction
  <2>4. \A i \in 0..n : after[i] \in Marks
    BY <2>3
  <2>5. QED
    BY <1>7, <2>4
<1>11. QED
  BY <1>8, <1>9, <1>10

\* Both runtimes apply their events with it.
LEMMA SameFold ==
  ASSUME NEW s, NEW list
  PROVE  /\ Mac!StatusAfterAll(s, list) = StatusAfterAll(s, list)
         /\ Linux!StatusAfterAll(s, list) = StatusAfterAll(s, list)
BY DEF StatusAfterAll, Mac!StatusAfterAll, Linux!StatusAfterAll,
       StatusAfter, Mac!StatusAfter, Linux!StatusAfter, Samples, Mac!Samples, Linux!Samples

\* And the native queue is the same Retain.
LEMMA SameRetain ==
  ASSUME NEW list, NEW indices
  PROVE  Mac!Retain(list, indices) = Retain(list, indices)
BY DEF Retain, Mac!Retain

-----------------------------------------------------------------------------
(***************************************************************************)
(* macOS.                                                                   *)
(***************************************************************************)
\* This event makes the status what it is, whatever it was before.
Decides(event) ==
  \/ event.kind = "statuschanged" /\ event.status = status
  \/ event.kind = "stopped" /\ status = "stopped"
  \/ event.kind = "error" /\ status = "failed"

\* The runtime has applied what is pending; polling applies it again.
Settled == pending # <<>> => Decides(pending[Len(pending)])

\* The bridge holds an object of the active source, which captures, or has
\* failed and still has to say so.
Held ==
  handle # 0 => /\ bridgeSource = active
                /\ object[handle].active \/ object[handle].packets = <<"error">>

\* An object that runs has its Started polled before anything else.
StartedFirst ==
  handle # 0 /\ object[handle].running /\ status = "starting" =>
    object[handle].packets # <<>> /\ object[handle].packets[1] = "started"

MacTypes == handle \in {0} \cup Captures /\ object \in [Captures -> Mac!Objects]

\* Only the object of the bridge is active,
OnlyHeld == \A n \in Captures : object[n].active => handle = n

\* and one that is not has told its stream to stop since it starts or captures,
\* unless it was out of reach by then.
Stops(o) ==
  o.at \in {"starting", "capturing"} =>
    /\ o.active => o.held
    /\ o.active \/ o.told = o.at \/ Mac!StartedUnreachably(o)
AllStop == \A n \in Captures : Stops(object[n])

MacInvariant ==
  /\ RuntimeTypes /\ MacTypes /\ NoSamplePending
  /\ Settled /\ Held /\ StartedFirst /\ Mac!StatusTellsTruth /\ OnlyHeld /\ AllStop

\* An object begins with its Started.
Begins(o) == o.packets # <<>> /\ o.packets[1] = "started"

\* enqueue puts the packet last, and never drops a Started.
LEMMA EnqueueType ==
  ASSUME NEW packets \in Seq(Mac!Packets), NEW packet \in Mac!Packets
  PROVE  LET queue == Mac!Enqueue(packets, packet) IN
         /\ queue \in Seq(Mac!Packets)
         /\ packets = <<>> => queue = <<packet>>
         /\ packets # <<>> /\ packets[1] = "started" /\ Mac!Type(packet) \in Samples =>
              queue # <<>> /\ queue[1] = "started"
<1> DEFINE Survives(i) ==
             \/ Mac!Type(packets[i]) # Mac!Type(packet) \/ Mac!Type(packet) \notin Mac!Samples
             \/ /\ Mac!Type(packet) = "audio"
                /\ Mac!Cardinality({j \in i..Len(packets) : Mac!Type(packets[j]) = "audio"}) < AudioLimit
           indices == {i \in 1..Len(packets) : Survives(i)}
           left == Retain(packets, indices)
           queue == Mac!Enqueue(packets, packet)
<1>1. queue = Append(left, packet)
  BY SameRetain DEF Mac!Enqueue
<1>2. packets # <<>> /\ packets[1] = "started" /\ Mac!Type(packet) \in Samples => 1 \in indices
  <2>1. packets # <<>> => 1 \in 1..Len(packets)
    BY LenProperties, EmptySeq
  <2>2. Mac!Type("started") = "started" /\ "started" \notin Samples
    BY DEF Mac!Type, Samples
  <2>3. QED
    BY <2>1, <2>2
<1> HIDE DEF indices, queue
<1>3. /\ left \in Seq(Mac!Packets) /\ Len(left) <= Len(packets)
      /\ packets # <<>> /\ 1 \in indices => left # <<>> /\ left[1] = packets[1]
  BY RetainType
<1> HIDE DEF left
<1>4. queue \in Seq(Mac!Packets)
  BY <1>1, <1>3, AppendProperties
<1>5. packets = <<>> => queue = <<packet>>
  <2>1. packets = <<>> => left = <<>>
    BY <1>3, LenProperties, EmptySeq
  <2>2. QED
    BY <1>1, <2>1
<1>6. left # <<>> => queue # <<>> /\ queue[1] = left[1]
  <2>1. left # <<>> => 1 \in 1..Len(left)
    BY <1>3, LenProperties, EmptySeq
  <2>2. QED
    BY <1>1, <1>3, <2>1, AppendProperties
<1>7. QED
  BY <1>2, <1>3, <1>4, <1>5, <1>6 DEF queue

\* What may become of an object without the runtime.
Fits(o, n) ==
  /\ o \in Mac!Objects
  /\ o.active => object[n].active
  /\ object[n].active \/ object[n].packets = <<"error">> => o.active \/ o.packets = <<"error">>
  /\ o.running /\ ~Begins(o) => object[n].running /\ ~Begins(object[n])
  /\ Stops(object[n]) => Stops(o)

\* fail leaves the error to be polled.
LEMMA FailedFits ==
  ASSUME MacTypes, NEW n \in Captures
  PROVE  Fits(Mac!Failed(object[n]), n)
<1>1. "error" \in Mac!Packets /\ <<>> \in Seq(Mac!Packets) /\ object[n] \in Mac!Objects
  BY EmptySeq DEF Mac!Packets, MacTypes
<1>2. Mac!Enqueue(<<>>, "error") = <<"error">> /\ <<"error">> \in Seq(Mac!Packets)
  BY <1>1, EnqueueType
<1> DEFINE given == [object[n] EXCEPT !.active = FALSE, !.running = FALSE, !.packets = <<"error">>]
           failed == Mac!ToldToStop(given)
<1>3. /\ given \in Mac!Objects /\ ~given.active /\ ~given.running /\ given.packets = <<"error">>
      /\ given.at = object[n].at /\ given.held = object[n].held /\ given.told = object[n].told
  BY <1>1, <1>2 DEF Mac!Objects
<1>4. Mac!Failed(object[n]) = IF object[n].active THEN failed ELSE object[n]
  BY <1>2 DEF Mac!Failed
<1> HIDE DEF given
<1>5. /\ failed \in Mac!Objects /\ ~failed.active /\ ~failed.running
      /\ failed.packets = <<"error">> /\ failed.at = given.at
      /\ given.held => failed.told = failed.at
  BY <1>3 DEF Mac!ToldToStop, Mac!Objects
<1> HIDE DEF failed
<1>6. QED
  BY <1>1, <1>3, <1>4, <1>5 DEF Fits, Stops

\* Whatever ScreenCaptureKit or the timer does to an object, it fits.
LEMMA NativeFits ==
  ASSUME MacTypes, NEW n \in Captures, Mac!Native(n) \/ Mac!TimerFires(n)
  PROVE  \E o : Fits(o, n) /\ Mac!Becomes(n, o)
<1> DEFINE o == object[n]
<1>0. o \in Mac!Objects /\ o.packets \in Seq(Mac!Packets) /\ Fits(o, n)
  BY DEF MacTypes, Mac!Objects, Fits
<1>1. /\ Fits(Mac!Failed(o), n)
      /\ Fits([Mac!Failed(o) EXCEPT !.at = "over"], n)
      /\ Fits([Mac!Failed(o) EXCEPT !.timer = FALSE], n)
      /\ o.active => Fits([o EXCEPT !.at = "starting", !.held = TRUE], n)
      /\ Fits([o EXCEPT !.timer = FALSE], n)
  <2> DEFINE failed == Mac!Failed(o)
  <2>1. Fits(failed, n)
    BY FailedFits
  <2> HIDE DEF failed
  <2>2. Fits([failed EXCEPT !.at = "over"], n) /\ Fits([failed EXCEPT !.timer = FALSE], n)
    BY <2>1 DEF Fits, Mac!Objects, Mac!Stages, Begins, Stops, Mac!StartedUnreachably
  <2>3. o.active => Fits([o EXCEPT !.at = "starting", !.held = TRUE], n)
    BY <1>0 DEF Fits, Mac!Objects, Mac!Stages, Begins, Stops
  <2>4. Fits([o EXCEPT !.timer = FALSE], n)
    BY <1>0 DEF Fits, Mac!Objects, Begins, Stops, Mac!StartedUnreachably
  <2>5. QED
    BY <2>1, <2>2, <2>3, <2>4 DEF failed
<1>2. ASSUME o.at = "starting" PROVE Fits(Mac!Started([o EXCEPT !.at = "capturing"]), n)
  <2> DEFINE queue == <<"started">> \o o.packets
  <2>1. <<"started">> \in Seq(Mac!Packets) /\ Len(<<"started">>) = 1 /\ <<"started">>[1] = "started"
    BY DEF Mac!Packets
  <2>2. queue \in Seq(Mac!Packets) /\ queue # <<>> /\ queue[1] = "started"
    BY <1>0, <2>1, ConcatProperties, LenProperties, EmptySeq
  <2> HIDE DEF queue
  <2> DEFINE late == [o EXCEPT !.at = "capturing"]
  <2>3. CASE o.active
    <3>1. Mac!Started(late) = [late EXCEPT !.running = TRUE, !.packets = queue]
      BY <1>0, <2>3 DEF Mac!Started, Mac!Running, queue, Mac!Objects
    <3>2. QED
      BY <1>0, <1>2, <2>2, <2>3, <3>1 DEF Fits, Mac!Objects, Mac!Stages, Begins, Stops
  <2>4. CASE ~o.active
    <3>1. Mac!Started(late) = IF o.held THEN [late EXCEPT !.told = "capturing"] ELSE late
      BY <1>0, <2>4 DEF Mac!Started, Mac!ToldToStop, Mac!Objects
    <3>2. QED
      BY <1>0, <1>2, <2>4, <3>1
      DEF Fits, Mac!Objects, Mac!Stages, Begins, Stops, Mac!StartedUnreachably
  <2>5. QED
    BY <2>3, <2>4
<1>3. ASSUME NEW packet \in {"video", "audio", "garbled"}, o.active
      PROVE  Fits([o EXCEPT !.packets = Mac!Enqueue(@, packet)], n)
  <2>1. packet \in Mac!Packets /\ Mac!Type(packet) \in Samples
    BY <1>3 DEF Mac!Packets, Mac!Samples, Samples, Mac!Type
  <2> DEFINE queue == Mac!Enqueue(o.packets, packet)
  <2>2. queue \in Seq(Mac!Packets) /\ (Begins(o) => queue # <<>> /\ queue[1] = "started")
    BY <1>0, <2>1, EnqueueType DEF Begins
  <2> HIDE DEF queue
  <2>3. [o EXCEPT !.packets = Mac!Enqueue(@, packet)] = [o EXCEPT !.packets = queue]
    BY DEF queue
  <2>4. QED
    BY <1>0, <1>3, <2>2, <2>3 DEF Fits, Mac!Objects, Begins, Stops
<1>4. CASE Mac!ContentArrives(n)
  BY <1>1, <1>4 DEF Mac!ContentArrives
<1>5. CASE Mac!StartCompletes(n)
  BY <1>1, <1>2, <1>5 DEF Mac!StartCompletes
<1>6. CASE Mac!Sample(n)
  BY <1>1, <1>3, <1>6 DEF Mac!Sample
<1>7. CASE Mac!StreamStops(n)
  BY <1>1, <1>7 DEF Mac!StreamStops
<1>8. CASE Mac!TimerFires(n)
  BY <1>1, <1>8 DEF Mac!TimerFires, Mac!TimedOut
<1>9. QED
  BY <1>4, <1>5, <1>6, <1>7, <1>8 DEF Mac!Native

\* A step of an object keeps the invariant, and is no poll.
LEMMA NativeKeeps ==
  ASSUME MacInvariant, NEW n \in Captures, Mac!Native(n) \/ Mac!TimerFires(n)
  PROVE  MacInvariant' /\ batch' = <<>>
<1> USE DEF MacInvariant
<1>1. PICK o : Fits(o, n) /\ Mac!Becomes(n, o)
  BY NativeFits
<1>2. /\ object \in [Captures -> Mac!Objects] /\ o \in Mac!Objects
      /\ object' = [object EXCEPT ![n] = o] /\ batch' = <<>>
      /\ UNCHANGED <<status, active, pending, handle, bridgeSource>>
  BY <1>1 DEF Mac!Becomes, Mac!runtimeVars, Mac!bridgeVars, Fits, MacTypes
<1>3. object' \in [Captures -> Mac!Objects]
      /\ \A m \in Captures : object'[m] = IF m = n THEN o ELSE object[m]
  BY <1>2
<1>4. RuntimeTypes' /\ NoSamplePending' /\ Settled' /\ (Mac!StatusTellsTruth)' /\ MacTypes'
  BY <1>2, <1>3 DEF RuntimeTypes, NoSamplePending, Settled, Decides, Mac!StatusTellsTruth, MacTypes
<1>5. OnlyHeld' /\ AllStop'
  BY <1>1, <1>2, <1>3 DEF OnlyHeld, AllStop, Fits
<1>6. handle # 0 => handle \in Captures
  BY DEF MacTypes
<1>7. Held'
  BY <1>1, <1>2, <1>3, <1>6 DEF Held, Fits
<1>8. StartedFirst'
  BY <1>1, <1>2, <1>3, <1>6 DEF StartedFirst, Fits, Begins
<1>9. QED
  BY <1>2, <1>4, <1>5, <1>7, <1>8

\* close leaves nothing active, and tells the stream to stop.
LEMMA NothingCaptures ==
  ASSUME MacTypes, OnlyHeld, AllStop
  PROVE  /\ Mac!Closed \in [Captures -> Mac!Objects]
         /\ \A n \in Captures : ~Mac!Closed[n].active /\ Stops(Mac!Closed[n])
<1>1. object \in [Captures -> Mac!Objects] /\ <<>> \in Seq(Mac!Packets)
  BY EmptySeq DEF MacTypes
<1>2. \A n \in Captures : (object[n].active => handle = n) /\ Stops(object[n])
  BY DEF OnlyHeld, AllStop
<1>3. CASE handle = 0
  <2>1. \A n \in Captures : n # 0
    BY BoundsAssumption DEF Captures
  <2>2. QED
    BY <1>1, <1>2, <1>3, <2>1 DEF Mac!Closed
<1>4. CASE handle # 0
  <2> DEFINE o == Mac!Destroyed(object[handle])
  <2>1. handle \in Captures
    BY <1>4 DEF MacTypes
  <2> DEFINE given == [object[handle] EXCEPT !.active = FALSE, !.running = FALSE, !.packets = <<>>]
             told == Mac!ToldToStop(given)
  <2>2. /\ given \in Mac!Objects /\ ~given.active /\ given.at = object[handle].at
        /\ given.held = object[handle].held /\ given.told = object[handle].told
    BY <1>1, <2>1 DEF Mac!Objects
  <2>3. o = [told EXCEPT !.held = FALSE]
    BY DEF Mac!Destroyed
  <2> HIDE DEF given
  <2>4. /\ told \in Mac!Objects /\ ~told.active /\ told.at = given.at
        /\ told.told = IF given.held THEN given.at ELSE given.told
    BY <2>2 DEF Mac!ToldToStop, Mac!Objects
  <2> HIDE DEF told
  <2>5. Mac!Closed = [object EXCEPT ![handle] = o]
    BY <1>4 DEF Mac!Closed
  <2> HIDE DEF o
  <2>6. /\ o \in Mac!Objects /\ ~o.active /\ o.at = told.at /\ o.told = told.told /\ ~o.held
    BY <2>3, <2>4 DEF Mac!Objects
  <2>7. o \in Mac!Objects /\ ~o.active /\ Stops(o)
    BY <1>2, <2>1, <2>2, <2>4, <2>6 DEF Stops, Mac!StartedUnreachably
  <2>8. QED
    BY <1>1, <1>2, <2>1, <2>5, <2>7
<1>5. QED
  BY <1>3, <1>4

\* A step that gives the stream up, and says so.
LEMMA GivenUp ==
  ASSUME RuntimeTypes', object' \in [Captures -> Mac!Objects],
         \A n \in Captures : ~object'[n].active /\ Stops(object'[n]), handle' = 0, status' \notin Live, NoSamplePending', Settled'
  PROVE  MacInvariant'
BY DEF MacInvariant, MacTypes, Held, StartedFirst, Live, Mac!StatusTellsTruth, OnlyHeld, AllStop

\* A step after which one event is pending.
LEMMA OnePending ==
  ASSUME NEW event \in Events, pending' = <<event>>, event.kind \notin Samples, Decides(event)'
  PROVE  pending' \in Seq(Events) /\ NoSamplePending' /\ Settled'
<1>1. /\ <<event>> \in Seq(Events) /\ Len(<<event>>) = 1 /\ <<event>>[1] = event
      /\ \A i \in 1..1 : i = 1
  OBVIOUS
<1>2. QED
  BY <1>1 DEF NoSamplePending, Settled

\* Event and StatusChanged make events.
LEMMA EventTypes ==
  ASSUME NEW source \in SourceIds \cup {NoSource}
  PROVE  /\ \A kind \in {"started", "stopped", "error"} \cup Samples :
              Event(kind, source) \in Events /\ Event(kind, source).kind = kind
                /\ Event(kind, source).source = source
         /\ \A s \in Statuses : /\ StatusChanged(source, s) \in Events
                                /\ StatusChanged(source, s).kind = "statuschanged"
                                /\ StatusChanged(source, s).status = s
BY DEF Event, StatusChanged, Events, Statuses, Samples

\* start() ends with a fresh object, or with none and the reason.
LEMMA StartKeeps ==
  ASSUME MacInvariant, NEW source \in SourceIds, NEW audio \in BOOLEAN, Mac!Start(source, audio)
  PROVE  MacInvariant' /\ batch' = <<>>
<1> USE DEF MacInvariant
<1>1. active' = source /\ batch' = <<>>
  BY DEF Mac!Start
<1>2. /\ Mac!Closed \in [Captures -> Mac!Objects]
      /\ \A n \in Captures : ~Mac!Closed[n].active /\ Stops(Mac!Closed[n])
  BY NothingCaptures
<1>3. /\ Event("error", source) \in Events /\ Event("error", source).kind = "error"
      /\ \A s \in Statuses : /\ StatusChanged(source, s) \in Events
                             /\ StatusChanged(source, s).kind = "statuschanged"
                             /\ StatusChanged(source, s).status = s
  BY EventTypes
<1>4. {"failed", "permissionrequired", "starting"} \subseteq Statuses
      /\ {"failed", "permissionrequired"} \cap Live = {}
      /\ {"statuschanged", "error"} \cap Samples = {}
  BY DEF Statuses, Live, Samples
<1>5. CASE Mac!FailedStart(source)
  <2>1. /\ status' = "failed" /\ pending' = <<Event("error", source)>> /\ handle' = 0
        /\ bridgeSource' = NoSource /\ object' = Mac!Closed
    BY <1>5 DEF Mac!FailedStart, Event, Mac!Event
  <2> DEFINE event == Event("error", source)
  <2>2. event \in Events /\ event.kind \notin Samples /\ Decides(event)' /\ pending' = <<event>>
    BY <1>3, <1>4, <2>1 DEF Decides
  <2> HIDE DEF event
  <2>3. pending' \in Seq(Events) /\ NoSamplePending' /\ Settled'
    BY <2>2, OnePending
  <2>4. RuntimeTypes'
    BY <1>1, <1>4, <2>1, <2>3 DEF RuntimeTypes
  <2>5. QED
    BY <1>1, <1>2, <1>4, <2>1, <2>3, <2>4, GivenUp
<1>6. CASE /\ status' = "permissionrequired"
           /\ pending' = <<StatusChanged(source, "permissionrequired")>>
           /\ handle' = 0 /\ bridgeSource' = NoSource /\ object' = Mac!Closed
  <2> DEFINE event == StatusChanged(source, "permissionrequired")
  <2>1. event \in Events /\ event.kind \notin Samples /\ Decides(event)' /\ pending' = <<event>>
    BY <1>3, <1>4, <1>6 DEF Decides
  <2> HIDE DEF event
  <2>2. pending' \in Seq(Events) /\ NoSamplePending' /\ Settled'
    BY <2>1, OnePending
  <2>3. RuntimeTypes'
    BY <1>1, <1>4, <1>6, <2>2 DEF RuntimeTypes
  <2>4. QED
    BY <1>1, <1>2, <1>4, <1>6, <2>2, <2>3, GivenUp
<1>7. CASE Mac!Begun(source, audio)
  <2>1. PICK n \in Captures :
          /\ object' = [Mac!Closed EXCEPT ![n] = Mac!NewCapture(audio)]
          /\ handle' = n /\ bridgeSource' = source
          /\ status' = "starting" /\ pending' = <<StatusChanged(source, "starting")>>
    BY <1>7 DEF Mac!Begun, Mac!Captures, Captures, Mac!StatusChanged, StatusChanged
  <2> DEFINE event == StatusChanged(source, "starting")
             o == Mac!NewCapture(audio)
  <2>2. event \in Events /\ event.kind \notin Samples /\ Decides(event)' /\ pending' = <<event>>
    BY <1>3, <1>4, <2>1 DEF Decides
  <2>3. o \in Mac!Objects /\ o.active /\ ~o.running /\ Stops(o)
    BY EmptySeq DEF Mac!NewCapture, Mac!Unused, Mac!Objects, Mac!Stages, Stops
  <2> HIDE DEF event, o
  <2>4. pending' \in Seq(Events) /\ NoSamplePending' /\ Settled'
    BY <2>2, OnePending
  <2>5. RuntimeTypes'
    BY <1>1, <1>4, <2>1, <2>4 DEF RuntimeTypes
  <2>6. object' \in [Captures -> Mac!Objects] /\ object'[n] = o
        /\ \A m \in Captures : (object'[m].active => m = n) /\ Stops(object'[m])
    BY <1>2, <2>1, <2>3 DEF o
  <2>7. n # 0 /\ handle' = n /\ status' = "starting"
    BY <2>1, BoundsAssumption DEF Captures
  <2>8. MacTypes' /\ Held' /\ StartedFirst'
    BY <1>1, <2>1, <2>3, <2>6, <2>7 DEF MacTypes, Held, StartedFirst
  <2>9. (Mac!StatusTellsTruth)' /\ OnlyHeld' /\ AllStop'
    BY <2>6, <2>7 DEF Mac!StatusTellsTruth, OnlyHeld, AllStop
  <2>10. QED
    BY <1>1, <2>4, <2>5, <2>8, <2>9
<1>8. QED
  BY <1>5, <1>6, <1>7 DEF Mac!Start, Mac!StatusChanged, StatusChanged

\* stop() gives the stream up.
LEMMA StopKeeps ==
  ASSUME MacInvariant, Mac!Stop
  PROVE  MacInvariant' /\ batch' = <<>>
<1> USE DEF MacInvariant
<1> DEFINE event == Event("stopped", IF active # NoSource THEN active ELSE bridgeSource)
<1>1. /\ handle' = 0 /\ bridgeSource' = NoSource /\ object' = Mac!Closed /\ active' = NoSource
      /\ status' = "stopped" /\ pending' = Append(pending, event) /\ batch' = <<>>
  BY DEF Mac!Stop, Mac!Event, Event
<1>2. event \in Events /\ event.kind = "stopped" /\ "stopped" \notin Samples \cup Live
      /\ "stopped" \in Statuses
  BY EventTypes DEF RuntimeTypes, Samples, Live, Statuses
<1> HIDE DEF event
<1>3. /\ pending \in Seq(Events) /\ pending' \in Seq(Events) /\ Len(pending) \in Nat
      /\ Len(pending') = Len(pending) + 1 /\ pending'[Len(pending) + 1] = event
      /\ \A i \in 1..Len(pending) : pending'[i] = pending[i]
  BY <1>1, <1>2, AppendProperties, LenProperties DEF RuntimeTypes
<1>4. \A i \in 1..Len(pending') : i \in 1..Len(pending) \/ i = Len(pending) + 1
  BY <1>3
<1>5. RuntimeTypes' /\ NoSamplePending' /\ Settled'
  <2>1. RuntimeTypes'
    BY <1>1, <1>2, <1>3 DEF RuntimeTypes
  <2>2. NoSamplePending'
    BY <1>2, <1>3, <1>4 DEF NoSamplePending
  <2>3. Settled'
    BY <1>1, <1>2, <1>3 DEF Settled, Decides
  <2>4. QED
    BY <2>1, <2>2, <2>3
<1>6. QED
  BY <1>1, <1>2, <1>5, NothingCaptures, GivenUp

\* A runtime that is replaced leaves nothing behind.
LEMMA ReplaceKeeps ==
  ASSUME MacInvariant, Mac!Replace
  PROVE  MacInvariant' /\ batch' = <<>>
<1> USE DEF MacInvariant
<1>1. /\ object' = Mac!Closed /\ handle' = 0 /\ bridgeSource' = NoSource /\ active' = NoSource
      /\ status' = "stopped" /\ pending' = <<>> /\ batch' = <<>>
  BY DEF Mac!Replace
<1>2. RuntimeTypes' /\ NoSamplePending' /\ Settled' /\ status' \notin Live
  BY <1>1, EmptySeq DEF RuntimeTypes, NoSamplePending, Settled, Statuses, Live
<1>3. QED
  BY <1>1, <1>2, NothingCaptures, GivenUp

\* What a poll finds with the bridge.
Polled == IF handle = 0 THEN <<>> ELSE Mac!Ready(object[handle])
Found  == [i \in DOMAIN Polled |-> Mac!Decoded(Polled[i])]

\* Only a stream is polled, and of one that starts its Started is found first.
LEMMA FoundTypes ==
  ASSUME MacInvariant
  PROVE  /\ Polled \in Seq(Mac!Packets) /\ Found \in Seq(Events) /\ Len(Found) = Len(Polled)
         /\ \A i \in 1..Len(Found) : /\ Found[i].source = active
                                    /\ Found[i].kind \in {"started", "error"} \cup Samples
         /\ Found # <<>> => /\ handle # 0
                            /\ \/ \E i \in 1..Len(Found) : Found[i].kind = "error"
                               \/ object[handle].running
                            /\ \/ \E i \in 1..Len(Found) : Found[i].kind = "error" /\ Len(Found) = 1
                               \/ status = "running"
                               \/ Found[1] = Event("started", active)
<1> USE DEF MacInvariant
<1> DEFINE n == Len(Polled)
<1>1. handle # 0 => /\ object[handle] \in Mac!Objects /\ object[handle].packets \in Seq(Mac!Packets)
                    /\ bridgeSource = active /\ status \in Live
  BY DEF MacTypes, Mac!Objects, Held, Mac!StatusTellsTruth, Live
<1>2. Polled \in Seq(Mac!Packets)
  BY <1>1, EmptySeq DEF Polled, Mac!Ready
<1>3. n \in Nat /\ DOMAIN Polled = 1..n /\ \A i \in 1..n : Polled[i] \in Mac!Packets
  BY <1>2, LenProperties, ElementOfSeq
<1>4. Polled # <<>> => handle # 0
  BY DEF Polled
<1>5. n # 0 <=> Polled # <<>>
  BY <1>2, EmptySeq
<1>6. ASSUME NEW i \in 1..n
      PROVE  /\ Mac!Decoded(Polled[i]) \in Events
             /\ Mac!Decoded(Polled[i]) =
                  Event(IF Polled[i] = "garbled" THEN "error" ELSE Polled[i], active)
             /\ Mac!Decoded(Polled[i]).source = active
             /\ Mac!Decoded(Polled[i]).kind = IF Polled[i] = "garbled" THEN "error" ELSE Polled[i]
             /\ Mac!Decoded(Polled[i]).kind \in {"started", "error"} \cup Samples
  <2>1. Polled[i] \in Mac!Packets /\ bridgeSource = active /\ active \in SourceIds \cup {NoSource}
    BY <1>1, <1>3, <1>4, <1>5, <1>6 DEF RuntimeTypes
  <2>2. (IF Polled[i] = "garbled" THEN "error" ELSE Polled[i]) \in {"started", "error"} \cup Samples
    BY <2>1 DEF Mac!Packets, Mac!Samples, Samples
  <2>3. Mac!Decoded(Polled[i]) = Event(IF Polled[i] = "garbled" THEN "error" ELSE Polled[i], active)
    BY <2>1 DEF Mac!Decoded, Mac!Event, Event
  <2> DEFINE kind == IF Polled[i] = "garbled" THEN "error" ELSE Polled[i]
  <2> HIDE DEF kind
  <2>4. /\ Event(kind, active) \in Events /\ Event(kind, active).kind = kind
        /\ Event(kind, active).source = active
    BY <2>1, <2>2 DEF kind, Event, Events, Samples
  <2>5. QED
    BY <2>2, <2>3, <2>4 DEF kind
<1>7. Found = [i \in 1..n |-> Mac!Decoded(Polled[i])]
  BY <1>3 DEF Found
<1>8. Found \in [1..n -> Events]
  BY <1>6, <1>7
<1>9. Found \in Seq(Events) /\ Len(Found) = n
  BY <1>3, <1>8, SeqDef, LenProperties
<1>10. \A i \in 1..n : Found[i] = Mac!Decoded(Polled[i])
  BY <1>7
<1>11. ASSUME Found # <<>>
       PROVE  /\ handle # 0
              /\ \/ \E i \in 1..n : Found[i].kind = "error"
                 \/ object[handle].running
              /\ \/ \E i \in 1..n : Found[i].kind = "error" /\ n = 1
                 \/ status = "running"
                 \/ Found[1] = Event("started", active)
  <2>1. n # 0 /\ handle # 0 /\ 1 \in 1..n
    BY <1>3, <1>4, <1>5, <1>9, <1>11, EmptySeq
  <2> DEFINE o == object[handle]
  <2>2. CASE o.packets = <<"error">> /\ ~o.active
    <3>1. Polled = <<"error">>
      BY <2>1, <2>2 DEF Polled, Mac!Ready
    <3>2. n = 1 /\ Polled[1] = "error"
      BY <3>1
    <3>3. QED
      BY <1>6, <1>10, <2>1, <3>2
  <2>3. CASE o.active
    <3>1. o.running /\ Polled = o.packets
      BY <1>5, <2>1, <2>3 DEF Polled, Mac!Ready
    <3>2. status = "running" \/ Polled[1] = "started"
      BY <1>1, <2>1, <3>1 DEF StartedFirst, Live
    <3>3. QED
      BY <1>6, <1>10, <2>1, <3>1, <3>2
  <2>4. QED
    BY <2>1, <2>2, <2>3 DEF Held
<1>12. QED
  BY <1>2, <1>6, <1>9, <1>10, <1>11

\* An error among what is found, up to its i-th event.
ErrorBy(i) == \E k \in 1..i : Found[k].kind = "error"

\* The status after a poll: a failure is final, and a start is over once its
\* Started was found.
LEMMA PollDecides ==
  ASSUME MacInvariant, Mac!PollEvents
  PROVE  LET n == Len(Found) IN
         /\ ErrorBy(n) => status' = "failed"
         /\ n = 0 => status' = status
         /\ n # 0 /\ ~ErrorBy(n) => status' = "running"
<1> USE DEF MacInvariant
<1> DEFINE n == Len(Found)
           m == Len(pending)
<1>1. /\ batch' = pending \o Found /\ status' = StatusAfterAll(status, batch')
  BY SameFold DEF Mac!PollEvents, Found, Polled
<1>2. /\ Found \in Seq(Events) /\ n \in Nat /\ pending \in Seq(Events) /\ m \in Nat
  BY FoundTypes, LenProperties DEF RuntimeTypes
<1>3. /\ batch' \in Seq(Events) /\ Len(batch') = m + n
      /\ \A i \in 1..m : batch'[i] = pending[i]
      /\ \A i \in 1..n : batch'[m + i] = Found[i]
  BY <1>1, <1>2, ConcatProperties
<1>4. status \in Marks
  BY DEF RuntimeTypes, Marks
<1>5. PICK after \in [0..Len(batch') -> Marks] :
        /\ after[0] = status
        /\ \A i \in 1..Len(batch') : after[i] = StatusAfter(after[i - 1], batch'[i])
        /\ StatusAfterAll(status, batch') = after[Len(batch')]
  BY <1>3, <1>4, EventByEvent
<1>6. after[m] = status
  <2>1. CASE m = 0
    BY <1>5, <2>1
  <2>2. CASE m # 0
    <3>1. m \in 1..Len(batch') /\ pending # <<>> /\ m \in 1..m
      BY <1>2, <1>3, <2>2, EmptySeq
    <3>2. after[m] = StatusAfter(after[m - 1], pending[m])
      BY <1>3, <1>5, <3>1
    <3>3. Decides(pending[m])
      BY <3>1 DEF Settled
    <3>4. QED
      BY <3>2, <3>3 DEF Decides, StatusAfter
  <2>3. QED
    BY <2>1, <2>2
<1>7. status' = after[m + n]
  BY <1>1, <1>3, <1>5
<1> DEFINE Right(i) == /\ ErrorBy(i) => after[m + i] = "failed"
                       /\ ~ErrorBy(i) => after[m + i] \in Live
                       /\ i = 0 => after[m] = status
                       /\ i # 0 /\ ~ErrorBy(i) => after[m + i] = "running"
           T == {i \in 0..n : Right(i)}
<1>8. CASE n = 0
  BY <1>2, <1>6, <1>7, <1>8 DEF ErrorBy
<1>9. CASE n # 0
  <2>0. Found # <<>> /\ handle # 0 /\ status \in Live
    BY <1>2, <1>9, FoundTypes, EmptySeq DEF Mac!StatusTellsTruth, Live
  <2>1. Right(0)
    BY <1>2, <1>6, <2>0 DEF ErrorBy
  <2>2. ASSUME NEW i \in 1..n, Right(i - 1) PROVE Right(i)
    <3> DEFINE event == Found[i]
               before == after[m + (i - 1)]
    <3>1. /\ m + i \in 1..Len(batch') /\ (m + i) - 1 = m + (i - 1)
          /\ batch'[m + i] = Found[i]
      BY <1>2, <1>3
    <3>2. after[m + i] = StatusAfter(before, event)
      BY <1>5, <3>1
    <3>3. event.kind \in {"started", "error"} \cup Samples
      BY FoundTypes
    <3>4. ErrorBy(i) <=> ErrorBy(i - 1) \/ event.kind = "error"
      BY <1>2 DEF ErrorBy
    <3> HIDE DEF event, before
    <3>5. CASE event.kind = "error"
      <4>1. after[m + i] = "failed"
        BY <3>2, <3>5 DEF StatusAfter
      <4>2. QED
        BY <1>2, <3>4, <3>5, <4>1
    <3>6. CASE event.kind # "error" /\ ErrorBy(i - 1)
      <4>1. before = "failed"
        BY <2>2, <3>6 DEF before
      <4>2. after[m + i] = "failed"
        BY <3>2, <3>3, <3>6, <4>1 DEF StatusAfter, Samples
      <4>3. QED
        BY <3>4, <3>6, <4>2
    <3>7. CASE event.kind # "error" /\ ~ErrorBy(i - 1)
      <4>1. before \in Live
        BY <2>2, <3>7 DEF before
      <4>2. before = "running" \/ event.kind = "started"
        <5>1. CASE i = 1
          <6>1. before = status
            BY <1>2, <1>6, <5>1 DEF before
          <6>2. \/ \E k \in 1..n : Found[k].kind = "error" /\ n = 1
                \/ status = "running"
                \/ Found[1] = Event("started", active)
            BY <2>0, FoundTypes
          <6>3. ~(\E k \in 1..n : Found[k].kind = "error" /\ n = 1)
            BY <3>7, <5>1 DEF event
          <6>4. Event("started", active).kind = "started"
            BY DEF Event
          <6>5. QED
            BY <5>1, <6>1, <6>2, <6>3, <6>4 DEF event
        <5>2. CASE i # 1
          <6>1. i - 1 # 0
            BY <1>2, <5>2
          <6>2. QED
            BY <2>2, <3>7, <6>1 DEF before
        <5>3. QED
          BY <5>1, <5>2
      <4>3. after[m + i] = "running"
        BY <3>2, <3>3, <3>7, <4>1, <4>2 DEF StatusAfter, Samples, Live
      <4>4. QED
        BY <1>2, <3>4, <3>7, <4>3 DEF Live
    <3>8. QED
      BY <3>5, <3>6, <3>7
  <2>3. 0..n \subseteq T
    <3>1. \A i \in 1..n : i \in 0..n /\ i - 1 \in 0..n
      BY <1>2
    <3>2. 0 \in 0..n
      BY <1>2
    <3> HIDE DEF Right, n
    <3>3. 0 \in T /\ \A i \in 1..n : i - 1 \in T => i \in T
      BY <2>1, <2>2, <3>1, <3>2
    <3>4. n \in Nat
      BY <1>2
    <3> HIDE DEF T
    <3>5. QED
      BY <3>3, <3>4, Induction
  <2>4. Right(n)
    BY <1>2, <2>3
  <2>5. QED
    BY <1>7, <1>9, <2>4
<1>10. QED
  BY <1>8, <1>9

\* A poll keeps the invariant.
LEMMA PollKeeps ==
  ASSUME MacInvariant, Mac!PollEvents
  PROVE  MacInvariant'
<1> USE DEF MacInvariant
<1> DEFINE n == Len(Found)
<1>1. /\ Found \in Seq(Events) /\ n \in Nat /\ Polled \in Seq(Mac!Packets) /\ n = Len(Polled)
      /\ (n = 0 <=> Polled = <<>>) /\ (n = 0 <=> Found = <<>>)
  BY FoundTypes, LenProperties, EmptySeq
<1>2. /\ ErrorBy(n) => status' = "failed"
      /\ n = 0 => status' = status
      /\ n # 0 /\ ~ErrorBy(n) => status' = "running"
  BY PollDecides
<1>3. /\ pending' = <<>> /\ UNCHANGED <<active, bridgeSource>>
      /\ CASE Mac!EndsCapture(Found) -> handle' = 0 /\ object' = Mac!Closed
           [] ~Mac!EndsCapture(Found) /\ Polled # <<>> ->
                object' = [object EXCEPT ![handle].packets = <<>>] /\ UNCHANGED handle
           [] Polled = <<>> -> UNCHANGED <<handle, object>>
  BY DEF Mac!PollEvents, Found, Polled
<1>4. Mac!EndsCapture(Found) <=> ErrorBy(n)
  <2>1. DOMAIN Found = 1..n
    BY <1>1, LenProperties
  <2>2. QED
    BY <2>1 DEF Mac!EndsCapture, ErrorBy
<1>5. pending' \in Seq(Events) /\ NoSamplePending' /\ Settled'
  BY <1>3, EmptySeq DEF NoSamplePending, Settled
<1>6. {"failed", "running"} \subseteq Statuses /\ "failed" \notin Live /\ "running" \in Live
  BY DEF Statuses, Live
<1>7. CASE ErrorBy(n)
  <2>0. Mac!EndsCapture(Found) /\ Polled # <<>>
    BY <1>1, <1>4, <1>7 DEF ErrorBy
  <2>1. handle' = 0 /\ object' = Mac!Closed /\ status' = "failed"
    BY <1>2, <1>3, <1>7, <2>0
  <2>2. RuntimeTypes'
    BY <1>3, <1>5, <1>6, <2>1 DEF RuntimeTypes
  <2>3. QED
    BY <1>5, <1>6, <2>1, <2>2, NothingCaptures, GivenUp
<1>8. CASE ~ErrorBy(n) /\ n = 0
  <2>1. UNCHANGED <<handle, object, status>>
    BY <1>1, <1>2, <1>3, <1>4, <1>8
  <2>2. RuntimeTypes'
    BY <1>3, <1>5, <2>1 DEF RuntimeTypes
  <2>3. QED
    BY <1>3, <1>5, <2>1, <2>2
    DEF MacTypes, Held, StartedFirst, Mac!StatusTellsTruth, OnlyHeld, AllStop
<1>9. CASE ~ErrorBy(n) /\ n # 0
  <2>1. /\ object' = [object EXCEPT ![handle].packets = <<>>] /\ handle' = handle
        /\ status' = "running"
    BY <1>1, <1>2, <1>3, <1>4, <1>9
  <2>2. handle \in Captures /\ handle # 0 /\ <<>> \in Seq(Mac!Packets)
    BY <1>1, <1>9, FoundTypes, EmptySeq DEF MacTypes
  <2> DEFINE o == [object[handle] EXCEPT !.packets = <<>>]
  <2>3. o \in Mac!Objects /\ o.active = object[handle].active /\ Stops(o)
    BY <2>2 DEF MacTypes, Mac!Objects, AllStop, Stops, Mac!StartedUnreachably
  <2>4. object[handle].active
    <3>1. CASE object[handle].packets = <<"error">> /\ ~object[handle].active
      <4>1. Polled = <<"error">>
        BY <2>2, <3>1 DEF Polled, Mac!Ready
      <4>2. 1 \in 1..n /\ Polled[1] = "error" /\ DOMAIN Polled = 1..n
        BY <1>1, <4>1
      <4>3. Found[1] = Mac!Decoded("error")
        BY <4>2 DEF Found
      <4>4. Found[1].kind = "error"
        BY <4>3 DEF Mac!Decoded, Mac!Event
      <4>5. QED
        BY <1>9, <4>2, <4>4 DEF ErrorBy
    <3>2. QED
      BY <2>2, <3>1 DEF Held
  <2>5. object' = [object EXCEPT ![handle] = o]
    BY <2>1
  <2> HIDE DEF o
  <2>6. /\ object' \in [Captures -> Mac!Objects]
        /\ \A k \in Captures : (object'[k].active => object[k].active) /\ Stops(object'[k])
        /\ object'[handle] = o
    BY <2>2, <2>3, <2>5 DEF MacTypes, AllStop
  <2>7. RuntimeTypes'
    BY <1>3, <1>5, <1>6, <2>1 DEF RuntimeTypes
  <2>8. MacTypes' /\ Held' /\ StartedFirst'
    BY <1>3, <2>1, <2>2, <2>3, <2>4, <2>6 DEF MacTypes, Held, StartedFirst
  <2>9. (Mac!StatusTellsTruth)' /\ OnlyHeld' /\ AllStop'
    BY <2>1, <2>2, <2>6 DEF Mac!StatusTellsTruth, OnlyHeld, AllStop
  <2>10. QED
    BY <1>5, <2>7, <2>8, <2>9
<1>10. QED
  BY <1>7, <1>8, <1>9

\* A sample that is polled follows its Started.
LEMMA PolledInOrder ==
  ASSUME MacInvariant, Mac!PollEvents, NEW i \in DOMAIN batch', batch'[i].kind \in Samples
  PROVE  /\ batch'[i].source = active
         /\ \/ status = "running"
            \/ \E k \in 1..(i - 1) : batch'[k] = Event("started", active)
<1> USE DEF MacInvariant
<1> DEFINE n == Len(Found)
           m == Len(pending)
<1>1. batch' = pending \o Found
  BY DEF Mac!PollEvents, Found, Polled
<1>2. /\ Found \in Seq(Events) /\ n \in Nat /\ pending \in Seq(Events) /\ m \in Nat
  BY FoundTypes, LenProperties DEF RuntimeTypes
<1>3. /\ DOMAIN batch' = 1..(m + n)
      /\ \A k \in 1..m : batch'[k] = pending[k]
      /\ \A k \in 1..n : batch'[m + k] = Found[k]
  BY <1>1, <1>2, ConcatProperties, LenProperties
<1>4. i \notin 1..m
  BY <1>3 DEF NoSamplePending
<1>5. PICK j \in 1..n : i = m + j
  <2>1. i \in 1..(m + n) /\ i - m \in 1..n /\ i = m + (i - m)
    BY <1>2, <1>3, <1>4
  <2>2. QED
    BY <2>1
<1>6. batch'[i] = Found[j] /\ Found # <<>> /\ 1 \in 1..n
  BY <1>2, <1>3, <1>5, EmptySeq
<1>7. batch'[i].source = active
  BY <1>5, <1>6, FoundTypes
<1>8. CASE \E k \in 1..n : Found[k].kind = "error" /\ n = 1
  BY <1>2, <1>5, <1>6, <1>8 DEF Samples
<1>9. CASE Found[1] = Event("started", active)
  <2>1. j # 1
    BY <1>6, <1>9 DEF Event, Samples
  <2>2. m + 1 \in 1..(i - 1)
    BY <1>2, <1>5, <2>1
  <2>3. batch'[m + 1] = Event("started", active)
    BY <1>3, <1>6, <1>9
  <2>4. QED
    BY <1>7, <2>2, <2>3
<1>10. QED
  BY <1>6, <1>7, <1>8, <1>9, FoundTypes

-----------------------------------------------------------------------------
(***************************************************************************)
(* Linux.                                                                   *)
(***************************************************************************)
\* No event that is pending says that anything starts or runs.
Silent ==
  \A i \in 1..Len(pending) :
    pending[i].kind = "statuschanged" => pending[i].status \in Statuses \ Live

LinuxInvariant ==
  /\ RuntimeTypes /\ NoSamplePending /\ Silent /\ Linux!StatusTellsTruth
  /\ call \in SourceIds \cup {NoSource}

\* Events that say of nothing that it starts or runs leave it so.
LEMMA QuietFold ==
  ASSUME NEW s \in Statuses \ Live, NEW list \in Seq(Events),
         \A i \in 1..Len(list) :
           list[i].kind \notin Samples /\ (list[i].kind = "statuschanged" => list[i].status \in Statuses \ Live)
  PROVE  StatusAfterAll(s, list) \in Statuses \ Live
<1> DEFINE n == Len(list)
<1>1. s \in Marks /\ n \in Nat /\ \A i \in 1..n : list[i] \in Events
  BY LenProperties, ElementOfSeq DEF Marks
<1>2. PICK after \in [0..n -> Marks] :
        /\ after[0] = s
        /\ \A i \in 1..n : after[i] = StatusAfter(after[i - 1], list[i])
        /\ StatusAfterAll(s, list) = after[n]
  BY <1>1, EventByEvent
<1> DEFINE T == {i \in 0..n : after[i] \in Statuses \ Live}
<1>3. 0 \in T
  BY <1>1, <1>2
<1>4. ASSUME NEW i \in 1..n, i - 1 \in T PROVE i \in T
  <2> DEFINE before == after[i - 1]  event == list[i]
  <2>1. /\ after[i] = StatusAfter(before, event) /\ before \in Statuses \ Live /\ event \in Events
        /\ event.kind \notin Samples /\ (event.kind = "statuschanged" => event.status \in Statuses \ Live)
    BY <1>1, <1>2, <1>4
  <2> HIDE DEF before, event
  <2>2. event.kind \in {"started", "statuschanged", "stopped", "error"}
    BY <2>1 DEF Events
  <2>3. StatusAfter(before, event) \in Statuses \ Live
    BY <2>1, <2>2 DEF StatusAfter, Statuses, Live
  <2>4. QED
    BY <1>1, <2>1, <2>3
<1>5. 0..n \subseteq T
  <2>1. n \in Nat
    BY <1>1
  <2> HIDE DEF T, n
  <2>2. QED
    BY <1>3, <1>4, <2>1, Induction
<1>6. QED
  BY <1>1, <1>2, <1>5

\* A step after which these events are pending.
LEMMA QuietlyPending ==
  ASSUME RuntimeTypes', NoSamplePending', Silent', status' \notin Live,
         call' \in SourceIds \cup {NoSource}
  PROVE  LinuxInvariant'
BY DEF LinuxInvariant, Linux!StatusTellsTruth, Live

\* plan_runtime_start leaves the runtime failed or without a permission: the
\* bridge that reports Started reports its failure in the same breath.
LEMMA PlannedKeeps ==
  ASSUME LinuxInvariant, NEW listed, call # NoSource, Linux!Planned(listed)
  PROVE  LinuxInvariant' /\ batch' = <<>>
<1> USE DEF LinuxInvariant
<1>1. call' = NoSource /\ batch' = <<>> /\ UNCHANGED active
  BY DEF Linux!Planned
<1>2. call \in SourceIds
  OBVIOUS
<1>3. /\ \A kind \in {"started", "stopped", "error"} \cup Samples :
           Event(kind, call) \in Events /\ Event(kind, call).kind = kind
      /\ \A s \in Statuses : /\ StatusChanged(call, s) \in Events
                             /\ StatusChanged(call, s).kind = "statuschanged"
                             /\ StatusChanged(call, s).status = s
  BY <1>2, EventTypes
<1>4. /\ {"failed", "permissionrequired"} \subseteq Statuses
      /\ {"failed", "permissionrequired"} \cap Live = {}
      /\ {"started", "statuschanged", "error"} \cap Samples = {}
  BY DEF Statuses, Live, Samples
<1>5. ASSUME NEW event \in Events, pending' = <<event>>, event.kind \in {"error", "statuschanged"},
             event.kind = "statuschanged" => event.status \in Statuses \ Live,
             status' \in {"failed", "permissionrequired"}, UNCHANGED bridgeSource
      PROVE  LinuxInvariant'
  <2>1. /\ pending' \in Seq(Events) /\ Len(pending') = 1 /\ pending'[1] = event
        /\ \A i \in 1..1 : i = 1
    BY <1>5
  <2>2. RuntimeTypes'
    BY <1>1, <1>4, <1>5, <2>1 DEF RuntimeTypes
  <2>3. NoSamplePending' /\ Silent'
    BY <1>4, <1>5, <2>1 DEF NoSamplePending, Silent
  <2>4. QED
    BY <1>1, <1>4, <1>5, <2>2, <2>3, QuietlyPending
<1>6. CASE /\ status' = "failed" /\ pending' = <<Event("error", call)>>
           /\ UNCHANGED bridgeSource
  <2> DEFINE event == Event("error", call)
  <2>1. event \in Events /\ event.kind = "error" /\ pending' = <<event>>
    BY <1>3, <1>6
  <2> HIDE DEF event
  <2>2. QED
    BY <1>1, <1>5, <1>6, <2>1
<1>7. CASE /\ status' = "permissionrequired"
           /\ pending' = <<StatusChanged(call, "permissionrequired")>>
           /\ UNCHANGED bridgeSource
  <2> DEFINE event == StatusChanged(call, "permissionrequired")
  <2>1. /\ event \in Events /\ event.kind = "statuschanged" /\ pending' = <<event>>
        /\ event.status \in Statuses \ Live
    BY <1>3, <1>4, <1>7
  <2> HIDE DEF event
  <2>2. QED
    BY <1>1, <1>5, <1>7, <2>1
<1>8. CASE Linux!BridgeStarts
  <2> DEFINE first == Event("started", call)  second == StatusChanged(call, "failed")
  <2>1. /\ bridgeSource' = call /\ pending' = <<first, second>>
        /\ status' = StatusAfterAll("starting", pending')
    BY <1>8, SameFold DEF Linux!BridgeStarts, Linux!Event, Linux!StatusChanged, Event, StatusChanged
  <2>2. /\ first \in Events /\ first.kind = "started"
        /\ second \in Events /\ second.kind = "statuschanged" /\ second.status = "failed"
    BY <1>3, <1>4
  <2> HIDE DEF first, second
  <2>3. /\ pending' \in Seq(Events) /\ Len(pending') = 2
        /\ pending'[1] = first /\ pending'[2] = second
        /\ \A i \in 1..2 : i = 1 \/ i = 2
    BY <2>1, <2>2
  <2>4. "starting" \in Marks
    BY DEF Marks, Statuses
  <2>5. PICK after \in [0..Len(pending') -> Marks] :
          /\ \A i \in 1..Len(pending') : after[i] = StatusAfter(after[i - 1], pending'[i])
          /\ StatusAfterAll("starting", pending') = after[Len(pending')]
    BY <2>3, <2>4, EventByEvent
  <2>6. status' = "failed"
    <3>1. status' = StatusAfter(after[1], second)
      BY <2>1, <2>3, <2>5
    <3>2. \A t : StatusAfter(t, second) = second.status
      BY <2>2, StatusChanges
    <3>3. QED
      BY <2>2, <3>1, <3>2
  <2>7. RuntimeTypes'
    BY <1>1, <1>2, <1>4, <2>1, <2>3, <2>6 DEF RuntimeTypes
  <2>8. NoSamplePending' /\ Silent'
    BY <1>4, <2>2, <2>3 DEF NoSamplePending, Silent
  <2>9. QED
    BY <1>1, <1>4, <2>6, <2>7, <2>8, QuietlyPending
<1>9. QED
  BY <1>1, <1>6, <1>7, <1>8
  DEF Linux!Planned, Linux!Event, Linux!StatusChanged, Event, StatusChanged, Linux!Offered

\* Every step keeps the runtime quiet, and polls no sample.
LEMMA LinuxKeeps ==
  ASSUME LinuxInvariant, Linux!Next
  PROVE  LinuxInvariant' /\ \A i \in DOMAIN batch' : batch'[i].kind \notin Samples
<1> USE DEF LinuxInvariant
<1>0. <<>> \in Seq(Events) /\ Len(<<>>) = 0 /\ DOMAIN <<>> = {} /\ 1..0 = {}
      /\ "stopped" \in Statuses \ Live /\ "stopped" \notin Samples
  BY EmptySeq DEF Statuses, Live, Samples
<1>1. ASSUME NEW source \in SourceIds, Linux!Start(source) PROVE LinuxInvariant' /\ batch' = <<>>
  <2>1. /\ pending' = <<>> /\ active' = source /\ call' = source /\ batch' = <<>>
        /\ UNCHANGED <<status, bridgeSource>>
    BY <1>1 DEF Linux!Start
  <2>2. RuntimeTypes' /\ NoSamplePending' /\ Silent'
    BY <1>0, <2>1 DEF RuntimeTypes, NoSamplePending, Silent
  <2>3. QED
    BY <2>1, <2>2, QuietlyPending DEF Linux!StatusTellsTruth, Live
<1>2. CASE Linux!Collect \/ Linux!TimeOut
  <2>1. PICK listed : call # NoSource /\ Linux!Planned(listed)
    BY <1>2 DEF Linux!Collect, Linux!TimeOut
  <2>2. QED
    BY <1>0, <2>1, PlannedKeeps
<1>3. CASE Linux!PollEvents
  <2>1. /\ batch' = pending /\ pending' = <<>> /\ status' = StatusAfterAll(status, pending)
        /\ UNCHANGED <<active, bridgeSource, call>>
    BY <1>3, SameFold DEF Linux!PollEvents
  <2>2. status \in Statuses \ Live /\ pending \in Seq(Events)
    BY DEF RuntimeTypes, Linux!StatusTellsTruth, Live
  <2>3. ASSUME NEW i \in 1..Len(pending)
        PROVE  /\ pending[i].kind \notin Samples
               /\ pending[i].kind = "statuschanged" => pending[i].status \in Statuses \ Live
    <3>1. pending[i].kind \notin Samples
      BY DEF NoSamplePending
    <3>2. QED
      BY <3>1 DEF Silent
  <2>4. status' \in Statuses \ Live
    BY <2>1, <2>2, <2>3, QuietFold
  <2>5. RuntimeTypes' /\ NoSamplePending' /\ Silent'
    BY <1>0, <2>1, <2>4 DEF RuntimeTypes, NoSamplePending, Silent
  <2>6. DOMAIN pending = 1..Len(pending)
    BY <2>2, LenProperties
  <2>7. QED
    BY <2>1, <2>3, <2>4, <2>5, <2>6, QuietlyPending
<1>4. CASE Linux!Stop
  <2> DEFINE event == Event("stopped", IF active # NoSource THEN active ELSE bridgeSource)
  <2>1. /\ active' = NoSource /\ bridgeSource' \in {NoSource, bridgeSource} /\ status' = "stopped"
        /\ pending' = Append(pending, event) /\ batch' = <<>> /\ UNCHANGED call
    BY <1>4 DEF Linux!Stop, Linux!Event, Event
  <2>2. event \in Events /\ event.kind = "stopped"
    BY EventTypes DEF RuntimeTypes
  <2> HIDE DEF event
  <2>3. /\ pending' \in Seq(Events) /\ Len(pending) \in Nat
        /\ Len(pending') = Len(pending) + 1 /\ pending'[Len(pending) + 1] = event
        /\ \A i \in 1..Len(pending) : pending'[i] = pending[i]
    BY <2>1, <2>2, AppendProperties, LenProperties DEF RuntimeTypes
  <2>4. \A i \in 1..Len(pending') : i \in 1..Len(pending) \/ i = Len(pending) + 1
    BY <2>3
  <2>5. RuntimeTypes'
    BY <1>0, <2>1, <2>3 DEF RuntimeTypes
  <2>6. NoSamplePending' /\ Silent'
    BY <1>0, <2>2, <2>3, <2>4 DEF NoSamplePending, Silent
  <2>7. QED
    BY <1>0, <2>1, <2>5, <2>6, QuietlyPending
<1>5. CASE Linux!Replace
  <2>1. /\ status' = "stopped" /\ active' = NoSource /\ pending' = <<>> /\ batch' = <<>>
        /\ bridgeSource' = NoSource /\ UNCHANGED call
    BY <1>5 DEF Linux!Replace
  <2>2. RuntimeTypes' /\ NoSamplePending' /\ Silent'
    BY <1>0, <2>1 DEF RuntimeTypes, NoSamplePending, Silent
  <2>3. QED
    BY <1>0, <2>1, <2>2, QuietlyPending
<1>6. CASE Linux!ChildWrites \/ Linux!ChildExits
  <2>1. UNCHANGED <<status, active, pending, bridgeSource, call>> /\ batch' = <<>>
    BY <1>6 DEF Linux!ChildWrites, Linux!ChildExits, Linux!runtimeVars
  <2>2. RuntimeTypes' /\ NoSamplePending' /\ Silent'
    BY <2>1 DEF RuntimeTypes, NoSamplePending, Silent
  <2>3. QED
    BY <1>0, <2>1, <2>2, QuietlyPending DEF Linux!StatusTellsTruth, Live
<1>7. QED
  BY <1>0, <1>1, <1>2, <1>3, <1>4, <1>5, <1>6 DEF Linux!Next, Linux!SourceIds, SourceIds

-----------------------------------------------------------------------------
(***************************************************************************)
(* Either.                                                                  *)
(***************************************************************************)
CaptureInvariant ==
  /\ platform \in {"macos", "linux"}
  /\ platform = "macos" => MacInvariant
  /\ platform = "linux" => LinuxInvariant

\* Every step of the macOS runtime and of its objects keeps the invariant; only
\* a poll returns events.
LEMMA MacKeeps ==
  ASSUME MacInvariant, Mac!Next
  PROVE  MacInvariant' /\ (batch' = <<>> \/ Mac!PollEvents)
<1>1. CASE Mac!Runtime
  BY <1>1, StartKeeps, StopKeeps, ReplaceKeeps, PollKeeps
  DEF Mac!Runtime, Mac!SourceIds, SourceIds
<1>2. CASE \E n \in Captures : Mac!Native(n) \/ Mac!TimerFires(n)
  BY <1>2, NativeKeeps
<1>3. QED
  BY <1>1, <1>2 DEF Mac!Next, Mac!Captures, Captures

\* The states a runtime is made in.
LEMMA InitCapture == Init => CaptureInvariant
<1> SUFFICES ASSUME Init PROVE CaptureInvariant
  OBVIOUS
<1>1. /\ platform \in {"macos", "linux"} /\ status = "stopped" /\ active = NoSource
      /\ pending = <<>> /\ handle = 0 /\ bridgeSource = NoSource /\ call = NoSource
      /\ object = [n \in Captures |-> Mac!Unused]
  BY DEF Init, Mac!Init, Linux!Init, Captures, Mac!Captures
<1>2. /\ <<>> \in Seq(Events) /\ Len(<<>>) = 0 /\ "stopped" \in Statuses \ Live
      /\ Mac!Unused \in Mac!Objects /\ ~Mac!Unused.active /\ Stops(Mac!Unused)
  BY EmptySeq DEF Statuses, Live, Mac!Unused, Mac!Objects, Mac!Stages, Stops
<1>3. RuntimeTypes /\ NoSamplePending /\ Settled /\ Silent
  BY <1>1, <1>2 DEF RuntimeTypes, NoSamplePending, Settled, Silent
<1>4. MacInvariant
  BY <1>1, <1>2, <1>3 DEF MacInvariant, MacTypes, Held, StartedFirst, Live, Mac!StatusTellsTruth,
                          OnlyHeld, AllStop
<1>5. LinuxInvariant
  BY <1>1, <1>2, <1>3 DEF LinuxInvariant, Linux!StatusTellsTruth, Live
<1>6. QED
  BY <1>1, <1>4, <1>5 DEF CaptureInvariant

\* Every step keeps the invariant, and the samples it polls follow their Started.
LEMMA CaptureStep ==
  ASSUME CaptureInvariant, [Next]_vars
  PROVE  /\ CaptureInvariant'
         /\ batch' # batch =>
              \A i \in DOMAIN batch' : batch'[i].kind \in Samples =>
                /\ batch'[i].source = active
                /\ \/ status = "running"
                   \/ \E k \in 1..(i - 1) : batch'[k] = Event("started", active)
<1> USE DEF CaptureInvariant
<1>1. CASE platform = "macos" /\ Mac!Next /\ UNCHANGED platform
  <2>1. MacInvariant' /\ (batch' = <<>> \/ Mac!PollEvents)
    BY <1>1, MacKeeps
  <2>2. DOMAIN <<>> = {}
    OBVIOUS
  <2>3. QED
    BY <1>1, <2>1, <2>2, PolledInOrder
<1>2. CASE platform = "linux" /\ Linux!Next /\ UNCHANGED platform
  BY <1>2, LinuxKeeps
<1>3. CASE UNCHANGED vars
  BY <1>3 DEF vars, macVars, linuxVars, MacInvariant, LinuxInvariant, RuntimeTypes, MacTypes,
     NoSamplePending, Settled, Decides, Held, StartedFirst, Silent, Mac!StatusTellsTruth,
     OnlyHeld, AllStop, Linux!StatusTellsTruth
<1>4. QED
  BY <1>1, <1>2, <1>3 DEF Next

\* The invariant behind the theorems.
LEMMA CaptureAlways == Spec => []CaptureInvariant
<1>1. CaptureInvariant /\ [Next]_vars => CaptureInvariant'
  BY CaptureStep
<1>2. QED
  BY <1>1, InitCapture, PTL DEF Spec

\* The runtime says that it starts or runs exactly while it holds a stream,
\* whatever arrives late and however many events a poll returns.
THEOREM StatusIsTrue == Spec => []StatusTellsTruth
<1>1. CaptureInvariant => StatusTellsTruth
  BY DEF CaptureInvariant, MacInvariant, LinuxInvariant, StatusTellsTruth
<1>2. QED
  BY <1>1, CaptureAlways, PTL

\* A stream that starts or captures is the one the bridge holds, or has been told
\* to stop since it does; the one exception is a stream whose object was destroyed
\* before its start completed.
THEOREM CaptureIsOwned == Spec => []StreamHasOwner
<1>1. ASSUME CaptureInvariant PROVE StreamHasOwner
  <2>1. CASE platform = "macos"
    <3>1. OnlyHeld /\ AllStop
      BY <1>1, <2>1 DEF CaptureInvariant, MacInvariant
    <3>2. QED
      BY <3>1 DEF OnlyHeld, AllStop, Stops, StreamHasOwner, Mac!StreamHasOwner, Captures, Mac!Captures
  <2>2. QED
    BY <2>1 DEF StreamHasOwner
<1>2. QED
  BY <1>1, CaptureAlways, PTL

\* The samples polled of a source follow its Started, and none is of an
\* earlier start.
THEOREM SamplesAreInOrder == Spec => SamplesFollowStart
<1>1. CaptureInvariant /\ [Next]_vars =>
        [\A i \in DOMAIN batch' : batch'[i].kind \in Samples =>
           /\ batch'[i].source = active
           /\ \/ status = "running"
              \/ \E k \in 1..(i - 1) : batch'[k] = Event("started", active)]_batch
  BY CaptureStep
<1>2. QED
  BY <1>1, CaptureAlways, PTL
  DEF Spec, SamplesFollowStart, Mac!SamplesFollowStart, Mac!Samples, Samples, Mac!Event, Event
=============================================================================
