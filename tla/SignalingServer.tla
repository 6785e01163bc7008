--------------------------- MODULE SignalingServer ---------------------------
(***************************************************************************)
(* The rendezvous server of crates/signaling-server/src/main.rs: one        *)
(* handler thread per accepted TCP connection, a map of rooms behind one    *)
(* mutex, and two slots (sender, receiver) per room.                        *)
(*                                                                         *)
(* A handler changes the rooms only while it holds the mutex, and one such  *)
(* critical section is one action here.  What it has to tell the clients is *)
(* queued inside the critical section and written AFTER the mutex is        *)
(* released, one line per step, so the writes of two handlers interleave.   *)
(*                                                                         *)
(* A connection is identified by a member of Conns and is used once: a      *)
(* client that reconnects is a new connection.  The payload of a signalling *)
(* message is abstracted to the pair <connection, line number>.             *)
(***************************************************************************)
EXTENDS Guests, Integers, Sequences

CONSTANTS
  Slow,       \* bound: the connections whose client may stop draining its socket
  MaxLines    \* bound: how many lines after JOIN one connection may send

ASSUME SlowAssumption == Slow \subseteq Conns
ASSUME MaxLinesAssumption == MaxLines \in Nat

Joins == [room : Rooms, role : Roles]
NoJoin == [room |-> "none", role |-> "none"]

\* The lines the server writes.  A SIG line stands for one client envelope.
Waiting    == [kind |-> "WAITING", about |-> NoConn, n |-> 0]
Failure    == [kind |-> "ERROR",   about |-> NoConn, n |-> 0]
Peer(c)    == [kind |-> "PEER",    about |-> c,      n |-> 0]
Signal(c, i) == [kind |-> "SIG",   about |-> c,      n |-> i]

Signals == [kind : {"SIG"}, about : Conns, n : 1..MaxLines]
Lines   == [kind : {"WAITING", "ERROR", "PEER", "SIG"},
            about : Conns \cup {NoConn}, n : 0..MaxLines]

\* One queued write: the connection whose writer it takes, and the line.
To(c, line) == [to |-> c, line |-> line]
Writes == [to : Conns, line : Lines]

(***************************************************************************)
(* "announcing": applying the writes of its registration.  "relaying":      *)
(* applying the write of one relay.  "correcting": answering an invalid     *)
(* line.  "rejecting": answering a refused JOIN.  "leaving": its relay loop *)
(* or its registration has ended, unregister_participant is due.            *)
(***************************************************************************)
Registered == {"announcing", "reading", "relaying", "correcting", "leaving"}
Writing    == {"announcing", "relaying", "correcting", "rejecting"}
Stages     == Registered \cup {"new", "rejecting", "done"}

VARIABLES
  stage,    \* stage[c]: where the handler of c is in handle_client
  join,     \* join[c]: the room and role its first line asked for
  lines,    \* lines[c]: how many lines the handler has read after JOIN
  queue,    \* queue[c]: writes the handler of c has still to apply
  open,     \* the keys of the rooms map
  slot,     \* slot[r][role]: the participant of a room, or NoConn
  history,  \* history[r][role]: the stored signals of that role, in order
  wire,     \* wire[c]: every line written to the socket of c, in order
  gone,     \* connections whose client has closed its end
  stalled   \* connections whose client does not drain its socket

vars == <<stage, join, lines, queue, open, slot, history, wire, gone, stalled>>
rooms == <<open, slot, history>>
clients == <<gone, stalled>>

EmptyRoom == [role \in Roles |-> NoConn]
NoHistory == [role \in Roles |-> <<>>]

-----------------------------------------------------------------------------
(***************************************************************************)
(* The decisions the handlers take.  An operator whose name begins with     *)
(* Faulty is not part of the server: it is the operator below it with a     *)
(* plausible mistake, and shows that a property would notice the mistake.   *)
(*                                                                         *)
(* Room::signaling_history is one vector of (role, message) pairs.  Every   *)
(* use of it filters on one role, so it is kept as one sequence per role.   *)
(***************************************************************************)

\* Mistakes: the replay begins with the newest message; it starts at the
\* second one.
FaultyNewestFirst(c, stored) ==
  [i \in 1..Len(stored) |-> To(c, stored[Len(stored) + 1 - i])]
FaultyReplay(c, stored) == [i \in 1..(Len(stored) - 1) |-> To(c, stored[i + 1])]

Replay(c, stored) == [i \in 1..Len(stored) |-> To(c, stored[i])]

\* Mistake: the participant already there is not told of the new one.
FaultyRegistrationWrites(c, j) ==
  LET peer == slot[j.room][Opposite(j.role)]
  IN  IF peer = NoConn
      THEN <<To(c, Waiting)>>
      ELSE <<To(c, Peer(peer))>> \o Replay(c, history[j.room][Opposite(j.role)])

\* What a registration has to announce: WAITING to a participant that is
\* alone, otherwise both PEER lines and then the opposite role's history.
RegistrationWrites(c, j) ==
  LET peer == slot[j.room][Opposite(j.role)]
  IN  IF peer = NoConn
      THEN <<To(c, Waiting)>>
      ELSE <<To(c, Peer(peer)), To(peer, Peer(c))>>
             \o Replay(c, history[j.room][Opposite(j.role)])

\* A relayed message goes to the opposite participant if there is one.
RelayWrites(j, signal) ==
  LET peer == slot[j.room][Opposite(j.role)]
  IN  IF peer = NoConn THEN <<>> ELSE <<To(peer, signal)>>

\* Mistakes: a refused client goes on to relay; nobody goes on to relay.
FaultyAfterLastWrite(s) == "reading"
FaultyNoRelay(s) == s

\* All lines are written: a refused client's handler has ended, any other
\* handler reads the next line.
AfterLastWrite(s) == IF s = "rejecting" THEN "done" ELSE "reading"

\* Mistakes: a refused client's handler unregisters; a failed registration
\* does not; a handler whose relay failed goes on to the next line.
FaultyAfterRefusal(s) == "leaving"
FaultyAfterRegistration(s) ==
  IF s \in {"rejecting", "announcing"} THEN "done" ELSE "leaving"
FaultyAfterRelay(s) ==
  CASE s = "rejecting" -> "done" [] s = "relaying" -> "reading" [] OTHER -> "leaving"

\* A write failed: what was registered has to be unregistered.
AfterFailedWrite(s) == IF s = "rejecting" THEN "done" ELSE "leaving"

\* Is nobody left in a room once the participant with join j has gone?
Empties(j) == slot[j.room][Opposite(j.role)] = NoConn

\* The history of j's room without what j's role has said.
HistoryWithout(j) ==
  IF Empties(j) THEN NoHistory ELSE [history[j.room] EXCEPT ![j.role] = <<>>]

\* Mistake: rooms are never removed.
FaultyRoomsWithout(j) == open

\* The rooms left when j's participant has gone.
RoomsWithout(j) == IF Empties(j) THEN open \ {j.room} ELSE open

-----------------------------------------------------------------------------
Init ==
  /\ stage = [c \in Conns |-> "new"]
  /\ join = [c \in Conns |-> NoJoin]
  /\ lines = [c \in Conns |-> 0]
  /\ queue = [c \in Conns |-> <<>>]
  /\ open = {}
  /\ slot = [r \in Rooms |-> EmptyRoom]
  /\ history = [r \in Rooms |-> NoHistory]
  /\ wire = [c \in Conns |-> <<>>]
  /\ gone = {}
  /\ stalled = {}

\* The first line is no valid JOIN: ERROR is written and the handler returns.
BadJoin(c) ==
  /\ stage[c] = "new"
  /\ stage' = [stage EXCEPT ![c] = "rejecting"]
  /\ queue' = [queue EXCEPT ![c] = <<To(c, Failure)>>]
  /\ UNCHANGED <<join, lines, wire, rooms, clients>>

\* The connection breaks before its first line, or that line is no text: the
\* read fails and the handler returns without an answer.
ReadFails(c) ==
  /\ stage[c] = "new"
  /\ c \in gone
  /\ stage' = [stage EXCEPT ![c] = "done"]
  /\ UNCHANGED <<join, lines, queue, wire, rooms, clients>>

\* The role is taken: the handler writes ERROR and ends without unregistering.
Reject(c, j) ==
  /\ stage[c] = "new"
  /\ slot[j.room][j.role] # NoConn
  /\ stage' = [stage EXCEPT ![c] = "rejecting"]
  /\ join' = [join EXCEPT ![c] = j]
  /\ open' = open \cup {j.room}
  /\ queue' = [queue EXCEPT ![c] = <<To(c, Failure)>>]
  /\ UNCHANGED <<lines, wire, slot, history, clients>>

\* The critical section of register_participant when the role is free.
Register(c, j) ==
  /\ stage[c] = "new"
  /\ slot[j.room][j.role] = NoConn
  /\ stage' = [stage EXCEPT ![c] = "announcing"]
  /\ join' = [join EXCEPT ![c] = j]
  /\ open' = open \cup {j.room}
  /\ slot' = [slot EXCEPT ![j.room][j.role] = c]
  /\ queue' = [queue EXCEPT ![c] = RegistrationWrites(c, j)]
  /\ UNCHANGED <<lines, wire, history, clients>>

\* A valid envelope is read: it is stored, and queued for the opposite
\* participant, in one critical section.  A missing room swallows it.
ReadSignal(c) ==
  LET j == join[c]
      signal == Signal(c, lines[c] + 1)
      writes == RelayWrites(j, signal)
  IN  /\ stage[c] = "reading"
      /\ lines[c] < MaxLines
      /\ lines' = [lines EXCEPT ![c] = @ + 1]
      /\ IF j.room \in open
         THEN /\ history' = [history EXCEPT ![j.room][j.role] = Append(@, signal)]
              /\ queue' = [queue EXCEPT ![c] = writes]
              /\ stage' = [stage EXCEPT ![c] = IF writes = <<>> THEN "reading"
                                               ELSE "relaying"]
         ELSE UNCHANGED <<history, queue, stage>>
      /\ UNCHANGED <<join, open, slot, wire, clients>>

\* A line that is no valid envelope is answered on the client's own writer.
ReadInvalid(c) ==
  /\ stage[c] = "reading"
  /\ lines[c] < MaxLines
  /\ lines' = [lines EXCEPT ![c] = @ + 1]
  /\ stage' = [stage EXCEPT ![c] = "correcting"]
  /\ queue' = [queue EXCEPT ![c] = <<To(c, Failure)>>]
  /\ UNCHANGED <<join, wire, rooms, clients>>

\* End of file or a read error: the relay loop returns.
ReadEnd(c) ==
  /\ stage[c] = "reading"
  /\ c \in gone
  /\ stage' = [stage EXCEPT ![c] = "leaving"]
  /\ UNCHANGED <<join, lines, queue, wire, rooms, clients>>

\* apply_writes puts its next line on the wire.  The write of a line blocks
\* while the client that should receive it does not drain its socket.  Bytes
\* for a client that has closed may still be accepted by the socket.
WriteLine(c) ==
  /\ stage[c] \in Writing
  /\ Head(queue[c]).to \notin stalled
  /\ wire' = [wire EXCEPT ![Head(queue[c]).to] = Append(@, Head(queue[c]).line)]
  /\ queue' = [queue EXCEPT ![c] = Tail(@)]
  /\ stage' = [stage EXCEPT ![c] = IF Tail(queue[c]) = <<>> THEN AfterLastWrite(@)
                                   ELSE @]
  /\ UNCHANGED <<join, lines, rooms, clients>>

\* A write fails because the client it is for has closed its connection.  The
\* rest of the queue is dropped, and it is the handler that writes, not the
\* one of the closed connection, that ends.
FailWrite(c) ==
  /\ stage[c] \in Writing
  /\ Head(queue[c]).to \in gone
  /\ queue' = [queue EXCEPT ![c] = <<>>]
  /\ stage' = [stage EXCEPT ![c] = AfterFailedWrite(@)]
  /\ UNCHANGED <<join, lines, wire, rooms, clients>>

\* unregister_participant: the slot is cleared by ROLE, whoever holds it, the
\* role's history goes with it, and a room nobody is left in is removed.
Unregister(c) ==
  LET j == join[c]
  IN  /\ stage[c] = "leaving"
      /\ stage' = [stage EXCEPT ![c] = "done"]
      /\ slot' = [slot EXCEPT ![j.room][j.role] = NoConn]
      /\ history' = [history EXCEPT ![j.room] = HistoryWithout(j)]
      /\ open' = RoomsWithout(j)
      /\ UNCHANGED <<join, lines, queue, wire, clients>>

\* The environment: a client closes its connection (one that sends bytes that
\* are no text counts as closed, the reader fails alike), stops draining its
\* socket (whose buffers cannot be full before something was written), or
\* drains it again.
Disconnect(c) ==
  /\ c \notin gone
  /\ gone' = gone \cup {c}
  /\ UNCHANGED <<stage, join, lines, queue, wire, rooms, stalled>>

Stall(c) ==
  /\ c \in Slow \ (gone \cup stalled)
  /\ wire[c] # <<>>
  /\ stalled' = stalled \cup {c}
  /\ UNCHANGED <<stage, join, lines, queue, wire, rooms, gone>>

Resume(c) ==
  /\ c \in stalled
  /\ stalled' = stalled \ {c}
  /\ UNCHANGED <<stage, join, lines, queue, wire, rooms, gone>>

\* What the handler of c does without waiting for its client to say anything.
Handler(c) == WriteLine(c) \/ FailWrite(c) \/ ReadEnd(c) \/ Unregister(c)

Next ==
  \E c \in Conns :
    \/ BadJoin(c) \/ ReadFails(c)
    \/ \E j \in Joins : Reject(c, j) \/ Register(c, j)
    \/ ReadSignal(c) \/ ReadInvalid(c)
    \/ Handler(c)
    \/ Disconnect(c) \/ Stall(c) \/ Resume(c)

Spec == Init /\ [][Next]_vars

\* Threads are scheduled, and a write that blocked goes on whenever its client
\* has made room for it, however briefly: strong fairness.  Nothing obliges a
\* client to send, to close or to drain its socket.
FairSpec == Spec /\ \A c \in Conns : SF_vars(Handler(c))

\* The clients additionally never stop draining their sockets for ever.
DrainingSpec == FairSpec /\ \A c \in Conns : WF_vars(Resume(c))

-----------------------------------------------------------------------------
(***************************************************************************)
(* The server implements Rendezvous: a guest is owed what is queued for it  *)
(* and was handed what is on its wire.                                      *)
(***************************************************************************)
SeqToSet(seq) == {seq[i] : i \in 1..Len(seq)}

Owed(d) ==
  {s \in Signals : \E c \in Conns : To(d, s) \in SeqToSet(queue[c])}

Phase(c) == CASE stage[c] = "new" -> "outside"
              [] stage[c] = "leaving" -> "closing"
              [] stage[c] \in Registered \ {"leaving"} -> "seated"
              [] OTHER -> "left"

R == INSTANCE Rendezvous WITH
       phase    <- [c \in Conns |-> Phase(c)],
       occupant <- slot,
       said     <- [r \in Rooms |-> [role \in Roles |-> SeqToSet(history[r][role])]],
       due      <- [c \in Conns |-> Owed(c)],
       got      <- [c \in Conns |-> SeqToSet(wire[c]) \cap Signals]

\* Whatever the interleaving of handlers, the server behaves as Rendezvous:
\* roles are released by their holders only, and every signal is handed to
\* the opposite participant at most once.
ImplementsRendezvous == R!Spec

\* While both participants of a room are there, everything stored for a role is
\* on the other one's wire or about to be written: the promise's NothingMissed,
\* of the server's own state.
NothingMissed == R!NothingMissed

-----------------------------------------------------------------------------
(***************************************************************************)
(* Correctness properties.                                                  *)
(***************************************************************************)

\* Every variable stays in the range the code gives it; a handler has writes
\* to apply exactly while it is in one of the writing stages.
TypeOK ==
  /\ stage \in [Conns -> Stages]
  /\ join \in [Conns -> Joins \cup {NoJoin}]
  /\ lines \in [Conns -> 0..MaxLines]
  /\ queue \in [Conns -> Seq(Writes)]
  /\ \A c \in Conns : queue[c] # <<>> <=> stage[c] \in Writing
  /\ open \subseteq Rooms
  /\ slot \in [Rooms -> [Roles -> Conns \cup {NoConn}]]
  /\ history \in [Rooms -> [Roles -> Seq(Signals)]]
  /\ wire \in [Conns -> Seq(Lines)]
  /\ gone \subseteq Conns
  /\ stalled \subseteq Conns

\* unregister_participant clears a slot by role without looking at who holds
\* it.  That is right only if a slot always holds the one connection whose
\* handler is between its registration and its unregistration for that role.
SlotOwnership ==
  \A r \in Rooms, role \in Roles, c \in Conns :
    slot[r][role] = c <=> /\ stage[c] \in Registered
                          /\ join[c] = [room |-> r, role |-> role]

\* What a late joiner would be replayed was stored by the present occupant of
\* the role, in the order it was read: nothing of a departed or of a refused
\* connection survives, and nothing is stored twice.
StoredByOccupant ==
  \A r \in Rooms, role \in Roles :
    LET stored == history[r][role]
    IN  /\ \A i \in 1..Len(stored) : /\ stored[i].about = slot[r][role]
                                     /\ stored[i].n <= lines[stored[i].about]
        /\ \A i, j \in 1..Len(stored) : i < j => stored[i].n < stored[j].n

\* The map keeps a room exactly while somebody occupies one of its slots, so
\* the relay's missing-room branch is never taken by a registered handler.
RoomsInUse ==
  open = {r \in Rooms : \E role \in Roles : slot[r][role] # NoConn}

Positions(seq, x) == {i \in 1..Len(seq) : seq[i] = x}

\* The writes of the line to connection d that are done or still queued.
Copies(d, line) ==
  {<<d, i>> : i \in Positions(wire[d], line)}
    \cup UNION {{<<"queued", c, i>> : i \in Positions(queue[c], To(d, line))} :
                c \in Conns}

\* Both hold a slot of the same room and neither handler is on its way out.
Paired(c, d) ==
  /\ stage[c] \in Registered \ {"leaving"}
  /\ stage[d] \in Registered \ {"leaving"}
  /\ join[c].room = join[d].room
  /\ join[c].role = Opposite(join[d].role)

Once(S) == \E x \in S : S = {x}

\* Each of two paired participants is told of the other exactly once, whoever
\* came first and whichever handler does the telling.
PairIsAnnounced ==
  \A c, d \in Conns : Paired(c, d) => Once(Copies(c, Peer(d)))

\* What the rooms keep of the signals of c.
StoredOf(c) ==
  {s \in UNION {SeqToSet(history[r][role]) : r \in Rooms, role \in Roles} :
     s.about = c}

\* The i-th line on the wire of d is a signal.  PEER about its sender comes
\* before it, so does every older signal that is stored of the same sender, and
\* what follows of that sender is newer.
FollowsInOrder(d, i) ==
  LET signal == wire[d][i]
  IN  /\ \E k \in 1..(i - 1) : wire[d][k] = Peer(signal.about)
      /\ \A s \in StoredOf(signal.about) :
           s.n < signal.n => \E k \in 1..(i - 1) : wire[d][k] = s
      /\ \A k \in (i + 1)..Len(wire[d]) :
           wire[d][k].about = signal.about => /\ wire[d][k].kind = "SIG"
                                              /\ signal.n < wire[d][k].n

\* The participant that came first (it was owed a WAITING) gets, from every
\* peer that joins it later, the PEER line before any signal, and the signals
\* in the order they were sent, none of the stored ones skipped: all of them
\* are written by the one handler of that peer, which ends with the first
\* write that fails.  (Numbers that are not stored were invalid lines.)
FirstComerInOrder ==
  \A d \in Conns : Copies(d, Waiting) # {} =>
    \A i \in 1..Len(wire[d]) : wire[d][i].kind = "SIG" => FollowsInOrder(d, i)

\* The later one of a pair is written to by two handlers: a live relay of the
\* first comer may overtake its PEER line and its replay.  That is all the
\* disorder there is: a signal that was overtaken by a newer one still comes
\* after PEER and after every older signal stored of its sender, and whatever
\* follows it is newer, so the overtaken signals are in order among themselves.
ReplayInOrder ==
  \A d \in Conns : \A i, k \in 1..Len(wire[d]) :
    /\ i < k
    /\ wire[d][i].kind = "SIG" /\ wire[d][k].kind = "SIG"
    /\ wire[d][i].about = wire[d][k].about
    /\ wire[d][k].n < wire[d][i].n
    => FollowsInOrder(d, k)

\* A disconnect clears the slot and the history of the role that left, no
\* others: once registered, a participant is released only after its own
\* client has closed.
OthersStayRegistered ==
  [][\A c \in Conns :
       stage[c] \in {"reading", "relaying", "correcting"} /\ stage'[c] = "leaving"
         => c \in gone]_vars

\* A client that has closed its connection loses its slot in the end, so a
\* later client can take the role.
DisconnectReleasesRole ==
  \A c \in Conns, r \in Rooms, role \in Roles :
    c \in gone /\ slot[r][role] = c ~> slot[r][role] # c

\* A signal stored for a pair is put on the peer's wire in the end, unless one
\* of the two closes its connection.
StoredIsDelivered ==
  \A c, d \in Conns, n \in 1..MaxLines :
    /\ Paired(c, d)
    /\ \E i \in DOMAIN history[join[c].room][join[c].role] :
         history[join[c].room][join[c].role][i] = Signal(c, n)
    ~> \/ Positions(wire[d], Signal(c, n)) # {}
       \/ stage[c] \in {"leaving", "done"}
       \/ stage[d] \in {"leaving", "done"}
=============================================================================
