------------------------ MODULE SignalingServerProofs ------------------------
(***************************************************************************)
(* Theorems about SignalingServer for every number of connections, rooms    *)
(* and lines: who owns a slot and a room; what is put on the wires, no line *)
(* twice, every pair announced, first comers served in order; and with that *)
(* that SignalingServer implements Rendezvous.                              *)
(***************************************************************************)
EXTENDS SignalingServer, TLAPS, SequenceTheorems

USE GuestsAssumption, SlowAssumption, MaxLinesAssumption

-----------------------------------------------------------------------------
(***************************************************************************)
(* Lemmas about the lines and the writes.                                   *)
(***************************************************************************)

\* Every line the server composes is a line, and addressed it is a write.
LEMMA LineTypes ==
  /\ Waiting \in Lines /\ Failure \in Lines
  /\ \A c \in Conns : Peer(c) \in Lines
  /\ \A c \in Conns, i \in 1..MaxLines : Signal(c, i) \in Signals
  /\ Signals \subseteq Lines
  /\ \A c \in Conns, l \in Lines : To(c, l) \in Writes
BY DEF Waiting, Failure, Peer, Signal, Lines, Signals, To, Writes

\* The two roles are each other's opposite.
LEMMA OppositeRole ==
  \A role \in Roles : /\ Opposite(role) \in Roles
                      /\ Opposite(role) # role
                      /\ Opposite(Opposite(role)) = role
                      /\ Roles = {role, Opposite(role)}
BY DEF Roles, Opposite

\* A replay is as long as the history and carries its entries in their order.
LEMMA ReplayType ==
  ASSUME NEW c \in Conns, NEW stored \in Seq(Signals)
  PROVE  /\ Replay(c, stored) \in Seq(Writes)
         /\ Len(Replay(c, stored)) = Len(stored)
         /\ \A i \in 1..Len(stored) : Replay(c, stored)[i] = To(c, stored[i])
<1>1. \A i \in 1..Len(stored) : To(c, stored[i]) \in Writes
  BY ElementOfSeq, LineTypes
<1>2. Len(stored) \in Nat
  BY LenProperties
<1>3. Replay(c, stored) \in Seq(Writes)
  BY <1>1, <1>2, IsASeq, Z3 DEF Replay
<1>4. QED
  BY <1>2, <1>3, LenProperties DEF Replay

\* Updating one cell of a table keeps the table's type and its other cells.
LEMMA CellUpdate ==
  ASSUME NEW A, NEW B, NEW S, NEW t \in [A -> [B -> S]],
         NEW a \in A, NEW b \in B, NEW x \in S
  PROVE  /\ [t EXCEPT ![a][b] = x] \in [A -> [B -> S]]
         /\ \A a1 \in A, b1 \in B :
              [t EXCEPT ![a][b] = x][a1][b1] = IF a1 = a /\ b1 = b THEN x
                                              ELSE t[a1][b1]
OBVIOUS

\* A registration always has something to announce.
LEMMA RegistrationWritesType ==
  ASSUME NEW c \in Conns, NEW j \in Joins,
         slot \in [Rooms -> [Roles -> Conns \cup {NoConn}]],
         history \in [Rooms -> [Roles -> Seq(Signals)]]
  PROVE  RegistrationWrites(c, j) \in Seq(Writes) \ {<<>>}
<1> DEFINE peer == slot[j.room][Opposite(j.role)]
           stored == history[j.room][Opposite(j.role)]
<1>1. /\ j.room \in Rooms /\ j.role \in Roles
      /\ peer \in Conns \cup {NoConn}
      /\ stored \in Seq(Signals)
  BY OppositeRole DEF Joins
<1>2. CASE peer = NoConn
  <2>1. To(c, Waiting) \in Writes
    BY LineTypes
  <2>2. QED
    BY <1>2, <2>1 DEF RegistrationWrites
<1>3. CASE peer # NoConn
  <2>1. <<To(c, Peer(peer)), To(peer, Peer(c))>> \in Seq(Writes)
    BY <1>1, <1>3, LineTypes
  <2>2. Replay(c, stored) \in Seq(Writes)
    BY <1>1, ReplayType
  <2> DEFINE head == <<To(c, Peer(peer)), To(peer, Peer(c))>>
             tail == Replay(c, stored)
  <2>3. Len(head) = 2 /\ Len(tail) \in Nat
    BY <2>2, LenProperties
  <2>4. head \o tail \in Seq(Writes) /\ Len(head \o tail) = 2 + Len(tail)
    <3> HIDE DEF head, tail
    <3> QED BY <2>1, <2>2, <2>3, ConcatProperties DEF head, tail
  <2>5. head \o tail # <<>>
    <3> HIDE DEF head, tail
    <3> QED BY <2>3, <2>4
  <2>6. RegistrationWrites(c, j) = head \o tail
    BY <1>3 DEF RegistrationWrites
  <2>7. QED
    BY <2>4, <2>5, <2>6
<1>4. QED
  BY <1>2, <1>3

-----------------------------------------------------------------------------
(***************************************************************************)
(* The invariant.                                                           *)
(***************************************************************************)

\* A registered handler knows the room and role it registered for.
AskedToJoin == \A c \in Conns : stage[c] \in Registered => join[c] \in Joins

Ownership == TypeOK /\ AskedToJoin /\ SlotOwnership

LEMMA InitOwnership == Init => Ownership
<1> SUFFICES ASSUME Init PROVE Ownership
  OBVIOUS
<1>1. TypeOK
  BY DEF Init, TypeOK, Stages, Registered, Writing, EmptyRoom, NoHistory
<1>2. AskedToJoin /\ SlotOwnership
  BY DEF Init, AskedToJoin, SlotOwnership, Registered, EmptyRoom
<1>3. QED
  BY <1>1, <1>2 DEF Ownership

\* Next, action by action, for one connection.
LEMMA NextCases ==
  ASSUME Next
  PROVE  \E c \in Conns :
           \/ BadJoin(c) \/ ReadFails(c)
           \/ \E j \in Joins : Reject(c, j)
           \/ \E j \in Joins : Register(c, j)
           \/ ReadSignal(c)
           \/ ReadInvalid(c)
           \/ WriteLine(c)
           \/ FailWrite(c)
           \/ ReadEnd(c)
           \/ Unregister(c)
           \/ Disconnect(c) \/ Stall(c) \/ Resume(c)
BY Zenon DEF Next, Handler

\* The writes of a relay are none or one.
LEMMA RelayWritesType ==
  ASSUME NEW j \in Joins, NEW signal \in Signals,
         slot \in [Rooms -> [Roles -> Conns \cup {NoConn}]]
  PROVE  RelayWrites(j, signal) \in Seq(Writes)
<1>1. /\ j.room \in Rooms /\ Opposite(j.role) \in Roles
      /\ slot[j.room][Opposite(j.role)] \in Conns \cup {NoConn}
  BY OppositeRole DEF Joins
<1>2. QED
  BY <1>1, LineTypes DEF RelayWrites

\* Every step keeps every variable in its range.
LEMMA TypeStep ==
  ASSUME TypeOK, AskedToJoin, [Next]_vars
  PROVE  TypeOK'
<1> USE DEF TypeOK, rooms, clients
<1>1. ASSUME NEW c \in Conns, BadJoin(c) \/ ReadFails(c) PROVE TypeOK'
  <2>1. CASE BadJoin(c)
    BY <2>1, LineTypes DEF BadJoin, Stages, Registered, Writing
  <2>2. CASE ReadFails(c)
    BY <2>2 DEF ReadFails, Stages, Registered, Writing
  <2>3. QED
    BY <1>1, <2>1, <2>2
<1>2. ASSUME NEW c \in Conns, NEW j \in Joins, Reject(c, j) PROVE TypeOK'
  <2>1. j.room \in Rooms
    BY DEF Joins
  <2>2. QED
    BY <1>2, <2>1, LineTypes DEF Reject, Stages, Registered, Writing
<1>3. ASSUME NEW c \in Conns, NEW j \in Joins, Register(c, j) PROVE TypeOK'
  <2>1. j.room \in Rooms /\ j.role \in Roles
    BY DEF Joins
  <2>2. RegistrationWrites(c, j) \in Seq(Writes) \ {<<>>}
    BY RegistrationWritesType
  <2>3. QED
    BY <1>3, <2>1, <2>2 DEF Register, Stages, Registered, Writing
<1>4. ASSUME NEW c \in Conns, ReadSignal(c) PROVE TypeOK'
  <2> DEFINE j == join[c]
             signal == Signal(c, lines[c] + 1)
  <2>1. j \in Joins /\ j.room \in Rooms /\ j.role \in Roles
    BY <1>4 DEF ReadSignal, AskedToJoin, Registered, Joins
  <2>2. lines[c] + 1 \in 1..MaxLines /\ signal \in Signals
    BY <1>4, LineTypes DEF ReadSignal
  <2>3. RelayWrites(j, signal) \in Seq(Writes)
    BY <2>1, <2>2, RelayWritesType
  <2>4. Append(history[j.room][j.role], signal) \in Seq(Signals)
    BY <2>1, <2>2, AppendProperties
  <2>5. CASE j.room \in open
    <3>1. history' \in [Rooms -> [Roles -> Seq(Signals)]]
      <4>1. history' = [history EXCEPT ![j.room][j.role] = Append(@, signal)]
        BY <1>4, <2>5 DEF ReadSignal
      <4> HIDE DEF j, signal
      <4>2. QED
        BY <4>1, <2>1, <2>4, CellUpdate
    <3>2. /\ queue' = [queue EXCEPT ![c] = RelayWrites(j, signal)]
          /\ stage' = [stage EXCEPT ![c] = IF RelayWrites(j, signal) = <<>>
                                           THEN "reading" ELSE "relaying"]
      BY <1>4, <2>5 DEF ReadSignal
    <3>3. lines' \in [Conns -> 0..MaxLines]
      BY <1>4, <2>2 DEF ReadSignal
    <3>4. /\ stage' \in [Conns -> Stages]
          /\ queue' \in [Conns -> Seq(Writes)]
          /\ \A d \in Conns : queue'[d] # <<>> <=> stage'[d] \in Writing
      BY <2>3, <3>2 DEF Stages, Registered, Writing
    <3>5. QED
      BY <1>4, <3>1, <3>3, <3>4 DEF ReadSignal
  <2>6. CASE j.room \notin open
    BY <1>4, <2>2, <2>6 DEF ReadSignal
  <2>7. QED
    BY <2>5, <2>6
<1>5. ASSUME NEW c \in Conns, ReadInvalid(c) PROVE TypeOK'
  BY <1>5, LineTypes DEF ReadInvalid, Stages, Registered, Writing
<1>6. ASSUME NEW c \in Conns, WriteLine(c) PROVE TypeOK'
  <2> DEFINE w == Head(queue[c])
  <2>1. queue[c] \in Seq(Writes) /\ queue[c] # <<>>
    BY <1>6 DEF WriteLine
  <2>2. w \in Writes /\ Tail(queue[c]) \in Seq(Writes)
    BY <2>1, HeadTailProperties
  <2>3. w.to \in Conns /\ w.line \in Lines
    BY <2>2 DEF Writes
  <2>4. Append(wire[w.to], w.line) \in Seq(Lines)
    BY <2>3, AppendProperties
  <2>5. wire' \in [Conns -> Seq(Lines)]
    BY <1>6, <2>3, <2>4 DEF WriteLine
  <2>6. /\ stage' \in [Conns -> Stages]
        /\ queue' \in [Conns -> Seq(Writes)]
        /\ \A d \in Conns : queue'[d] # <<>> <=> stage'[d] \in Writing
    BY <1>6, <2>2 DEF WriteLine, AfterLastWrite, Stages, Registered, Writing
  <2>7. QED
    BY <1>6, <2>5, <2>6 DEF WriteLine
<1>7. ASSUME NEW c \in Conns, FailWrite(c) PROVE TypeOK'
  BY <1>7 DEF FailWrite, AfterFailedWrite, Stages, Registered, Writing
<1>8. ASSUME NEW c \in Conns, ReadEnd(c) PROVE TypeOK'
  BY <1>8 DEF ReadEnd, Stages, Registered, Writing
<1>9. ASSUME NEW c \in Conns, Unregister(c) PROVE TypeOK'
  <2>1. join[c].room \in Rooms /\ join[c].role \in Roles
    BY <1>9 DEF Unregister, AskedToJoin, Registered, Joins
  <2>2. history' \in [Rooms -> [Roles -> Seq(Signals)]]
    BY <1>9, <2>1 DEF Unregister, HistoryWithout, NoHistory
  <2>3. slot' \in [Rooms -> [Roles -> Conns \cup {NoConn}]]
    BY <1>9, <2>1 DEF Unregister
  <2>4. QED
    BY <1>9, <2>2, <2>3 DEF Unregister, RoomsWithout, Stages, Registered, Writing
<1>10. ASSUME NEW c \in Conns, Disconnect(c) \/ Stall(c) \/ Resume(c) PROVE TypeOK'
  BY <1>10 DEF Disconnect, Stall, Resume
<1>11. CASE UNCHANGED vars
  BY <1>11 DEF vars
<1>12. QED
  BY <1>1, <1>2, <1>3, <1>4, <1>5, <1>6, <1>7, <1>8, <1>9, <1>10, <1>11, NextCases

\* Every step keeps a slot and its holder's handler in agreement: no action
\* other than its holder's own registration and unregistration touches it.
LEMMA OwnershipStep ==
  ASSUME Ownership, [Next]_vars
  PROVE  AskedToJoin' /\ SlotOwnership'
<1> USE DEF Ownership, AskedToJoin, SlotOwnership, rooms, clients, Registered
<1>0. /\ stage \in [Conns -> Stages]
      /\ join \in [Conns -> Joins \cup {NoJoin}]
      /\ slot \in [Rooms -> [Roles -> Conns \cup {NoConn}]]
  BY DEF TypeOK
<1>1. ASSUME NEW c \in Conns, BadJoin(c) \/ ReadFails(c)
      PROVE  AskedToJoin' /\ SlotOwnership'
  BY <1>0, <1>1 DEF BadJoin, ReadFails
<1>2. ASSUME NEW c \in Conns, NEW j \in Joins, Reject(c, j)
      PROVE  AskedToJoin' /\ SlotOwnership'
  BY <1>0, <1>2 DEF Reject
<1>3. ASSUME NEW c \in Conns, NEW j \in Joins, Register(c, j)
      PROVE  AskedToJoin' /\ SlotOwnership'
  <2>1. j.room \in Rooms /\ j.role \in Roles /\ j = [room |-> j.room, role |-> j.role]
    BY DEF Joins
  <2>2. /\ stage[c] = "new"
        /\ stage' = [stage EXCEPT ![c] = "announcing"]
        /\ join' = [join EXCEPT ![c] = j]
        /\ slot[j.room][j.role] = NoConn
        /\ slot' = [slot EXCEPT ![j.room][j.role] = c]
    BY <1>3 DEF Register
  <2>3. \A r \in Rooms, role \in Roles :
          slot'[r][role] = IF r = j.room /\ role = j.role THEN c ELSE slot[r][role]
    BY <1>0, <2>1, <2>2, CellUpdate
  <2>4. \A r \in Rooms, role \in Roles : slot[r][role] # c
    <3> TAKE r \in Rooms, role \in Roles
    <3>1. stage[c] \notin Registered
      BY <2>2
    <3>2. SlotOwnership
      OBVIOUS
    <3>3. QED
      BY ONLY <3>1, <3>2, c \in Conns DEF SlotOwnership
  <2>5. AskedToJoin'
    BY <1>0, <2>2
  <2>6. ASSUME NEW r \in Rooms, NEW role \in Roles, NEW d \in Conns
        PROVE  slot'[r][role] = d <=>
                 stage'[d] \in Registered /\ join'[d] = [room |-> r, role |-> role]
    <3>1. CASE d = c
      BY <1>0, <2>1, <2>2, <2>3, <2>4, <2>6, <3>1
    <3>2. CASE d # c
      <4>1. stage'[d] = stage[d] /\ join'[d] = join[d]
        BY <1>0, <2>2, <3>2
      <4>2. CASE r = j.room /\ role = j.role
        <5>1. slot[r][role] # d /\ slot'[r][role] # d
          BY <2>2, <2>3, <3>2, <4>2, GuestsAssumption
        <5>2. QED
          BY <4>1, <5>1
      <4>3. CASE ~(r = j.room /\ role = j.role)
        BY <2>3, <4>1, <4>3
      <4>4. QED
        BY <4>2, <4>3
    <3>3. QED
      BY <3>1, <3>2
  <2>7. QED
    BY <2>5, <2>6
<1>4. ASSUME NEW c \in Conns, ReadSignal(c)
      PROVE  AskedToJoin' /\ SlotOwnership'
  <2>1. /\ stage[c] = "reading" /\ UNCHANGED <<join, slot>>
        /\ \/ stage' = [stage EXCEPT ![c] = "reading"]
           \/ stage' = [stage EXCEPT ![c] = "relaying"]
           \/ UNCHANGED stage
    BY <1>4 DEF ReadSignal
  <2>2. QED
    BY <1>0, <2>1
<1>5. ASSUME NEW c \in Conns, ReadInvalid(c)
      PROVE  AskedToJoin' /\ SlotOwnership'
  BY <1>0, <1>5 DEF ReadInvalid
<1>6. ASSUME NEW c \in Conns, WriteLine(c)
      PROVE  AskedToJoin' /\ SlotOwnership'
  BY <1>0, <1>6 DEF WriteLine, AfterLastWrite, Writing
<1>7. ASSUME NEW c \in Conns, FailWrite(c)
      PROVE  AskedToJoin' /\ SlotOwnership'
  BY <1>0, <1>7 DEF FailWrite, AfterFailedWrite, Writing
<1>8. ASSUME NEW c \in Conns, ReadEnd(c)
      PROVE  AskedToJoin' /\ SlotOwnership'
  BY <1>0, <1>8 DEF ReadEnd
<1>9. ASSUME NEW c \in Conns, Unregister(c)
      PROVE  AskedToJoin' /\ SlotOwnership'
  <2> DEFINE j == join[c]
  <2>1. /\ stage[c] = "leaving"
        /\ stage' = [stage EXCEPT ![c] = "done"]
        /\ slot' = [slot EXCEPT ![j.room][j.role] = NoConn]
        /\ UNCHANGED join
    BY <1>9 DEF Unregister
  <2>2. j \in Joins /\ j.room \in Rooms /\ j.role \in Roles
        /\ j = [room |-> j.room, role |-> j.role]
    BY <2>1 DEF Joins
  <2>3. \A r \in Rooms, role \in Roles :
          slot'[r][role] = IF r = j.room /\ role = j.role THEN NoConn
                           ELSE slot[r][role]
    BY <1>0, <2>1, <2>2, CellUpdate
  <2>4. slot[j.room][j.role] = c
    BY <2>1, <2>2
  <2>5. AskedToJoin'
    BY <1>0, <2>1
  <2>6. ASSUME NEW r \in Rooms, NEW role \in Roles, NEW d \in Conns
        PROVE  slot'[r][role] = d <=>
                 stage'[d] \in Registered /\ join'[d] = [room |-> r, role |-> role]
    <3>1. CASE r = j.room /\ role = j.role
      <4>1. slot'[r][role] # d
        BY <2>3, <3>1, GuestsAssumption
      <4>2. d # c => ~(stage[d] \in Registered /\ join[d] = [room |-> r, role |-> role])
        BY <2>4, <3>1
      <4>3. QED
        BY <1>0, <2>1, <4>1, <4>2
    <3>2. CASE ~(r = j.room /\ role = j.role)
      <4>1. slot'[r][role] = slot[r][role]
        BY <2>3, <3>2
      <4>2. d = c => join[d] # [room |-> r, role |-> role]
        BY <3>2
      <4>3. QED
        BY <1>0, <2>1, <4>1, <4>2
    <3>3. QED
      BY <3>1, <3>2
  <2>7. QED
    BY <2>5, <2>6
<1>10. ASSUME NEW c \in Conns, Disconnect(c) \/ Stall(c) \/ Resume(c)
       PROVE  AskedToJoin' /\ SlotOwnership'
  BY <1>10 DEF Disconnect, Stall, Resume
<1>11. CASE UNCHANGED vars
  BY <1>11 DEF vars
<1>12. QED
  BY <1>1, <1>2, <1>3, <1>4, <1>5, <1>6, <1>7, <1>8, <1>9, <1>10, <1>11, NextCases

\* Type correctness and slot ownership hold in every reachable state: the
\* unregistration by role never evicts anybody but the handler's own client.
THEOREM OwnershipInvariant == Spec => [](TypeOK /\ SlotOwnership)
<1>1. Init => Ownership
  BY InitOwnership
<1>2. Ownership /\ [Next]_vars => Ownership'
  BY TypeStep, OwnershipStep DEF Ownership
<1>3. Ownership => TypeOK /\ SlotOwnership
  BY DEF Ownership
<1>4. QED
  BY <1>1, <1>2, <1>3, PTL DEF Spec

\* Every variable keeps its type, whatever is read, written or cut off.
THEOREM TypeCorrect == Spec => []TypeOK
BY OwnershipInvariant, PTL

-----------------------------------------------------------------------------
(***************************************************************************)
(* The rooms map: no room outlives its occupants, and what a room stores    *)
(* for a role was said by the role's present occupant.                      *)
(***************************************************************************)
MapInvariant == Ownership /\ RoomsInUse /\ StoredByOccupant

\* A handler that changes no slot leaves RoomsInUse alone if it leaves open.
LEMMA RoomsInUseStep ==
  ASSUME MapInvariant, [Next]_vars
  PROVE  RoomsInUse'
<1> USE DEF MapInvariant, RoomsInUse, rooms, clients
<1>0. slot \in [Rooms -> [Roles -> Conns \cup {NoConn}]] /\ open \subseteq Rooms
  BY DEF Ownership, TypeOK
<1>1. ASSUME UNCHANGED <<open, slot>> PROVE RoomsInUse'
  BY <1>1
<1>2. ASSUME NEW c \in Conns, NEW j \in Joins, Reject(c, j) PROVE RoomsInUse'
  <2>1. j.room \in Rooms /\ j.role \in Roles
    BY DEF Joins
  <2>2. j.room \in open
    BY <1>2, <2>1 DEF Reject
  <2>3. UNCHANGED <<open, slot>>
    BY <1>2, <2>2 DEF Reject
  <2>4. QED
    BY <1>1, <2>3
<1>3. ASSUME NEW c \in Conns, NEW j \in Joins, Register(c, j) PROVE RoomsInUse'
  <2>1. j.room \in Rooms /\ j.role \in Roles
    BY DEF Joins
  <2>2. open' = open \cup {j.room} /\ slot' = [slot EXCEPT ![j.room][j.role] = c]
    BY <1>3 DEF Register
  <2>3. \A r \in Rooms, role \in Roles :
          slot'[r][role] = IF r = j.room /\ role = j.role THEN c ELSE slot[r][role]
    BY <1>0, <2>1, <2>2, CellUpdate
  <2>4. slot[j.room][j.role] = NoConn
    BY <1>3 DEF Register
  <2>5. ASSUME NEW r \in Rooms
        PROVE  r \in open' <=> \E role \in Roles : slot'[r][role] # NoConn
    <3>1. CASE r = j.room
      <4>1. slot'[r][j.role] # NoConn
        BY <2>1, <2>3, <3>1, GuestsAssumption
      <4>2. QED
        BY <2>1, <2>2, <3>1, <4>1
    <3>2. CASE r # j.room
      BY <2>2, <2>3, <3>2
    <3>3. QED
      BY <3>1, <3>2
  <2>6. open' \subseteq Rooms
    BY <1>0, <2>1, <2>2
  <2>7. QED
    BY <2>5, <2>6
<1>4. ASSUME NEW c \in Conns, Unregister(c) PROVE RoomsInUse'
  <2> DEFINE j == join[c]
  <2>1. j.room \in Rooms /\ j.role \in Roles
    BY <1>4 DEF Unregister, Ownership, AskedToJoin, Registered, Joins
  <2>2. /\ slot' = [slot EXCEPT ![j.room][j.role] = NoConn]
        /\ open' = IF slot[j.room][Opposite(j.role)] = NoConn
                   THEN open \ {j.room} ELSE open
    BY <1>4 DEF Unregister, RoomsWithout, Empties
  <2>3. \A r \in Rooms, role \in Roles :
          slot'[r][role] = IF r = j.room /\ role = j.role THEN NoConn
                           ELSE slot[r][role]
    BY <1>0, <2>1, <2>2, CellUpdate
  <2>4. ASSUME NEW r \in Rooms
        PROVE  r \in open' <=> \E role \in Roles : slot'[r][role] # NoConn
    <3>1. CASE r = j.room
      <4>1. \A role \in Roles : role = j.role \/ role = Opposite(j.role)
        BY <2>1, OppositeRole
      <4>2. Opposite(j.role) \in Roles /\ Opposite(j.role) # j.role
        BY <2>1, OppositeRole
      <4>3. (\E role \in Roles : slot'[r][role] # NoConn)
              <=> slot[r][Opposite(j.role)] # NoConn
        BY <2>3, <3>1, <4>1, <4>2
      <4>4. slot[r][Opposite(j.role)] # NoConn => r \in open
        BY <4>2
      <4>5. QED
        BY <2>2, <3>1, <4>3, <4>4
    <3>2. CASE r # j.room
      BY <2>2, <2>3, <3>2
    <3>3. QED
      BY <3>1, <3>2
  <2>5. open' \subseteq Rooms
    BY <1>0, <2>2
  <2>6. QED
    BY <2>4, <2>5
<1>5. CASE UNCHANGED vars
  BY <1>1, <1>5 DEF vars
<1>6. ASSUME NEW c \in Conns,
             \/ BadJoin(c) \/ ReadFails(c) \/ ReadSignal(c) \/ ReadInvalid(c) \/ WriteLine(c)
             \/ FailWrite(c) \/ ReadEnd(c) \/ Disconnect(c) \/ Stall(c) \/ Resume(c)
      PROVE  UNCHANGED <<open, slot>>
  BY <1>6 DEF BadJoin, ReadFails, ReadSignal, ReadInvalid, WriteLine, FailWrite, ReadEnd,
              Disconnect, Stall, Resume
<1>7. QED
  BY <1>1, <1>2, <1>3, <1>4, <1>5, <1>6, NextCases

\* What StoredByOccupant says of one room and role.
StoredBy(stored, owner, read) ==
  /\ \A i \in 1..Len(stored) : /\ stored[i].about = owner
                               /\ stored[i].n <= read[stored[i].about]
  /\ \A i, j \in 1..Len(stored) : i < j => stored[i].n < stored[j].n

LEMMA StoredByCells ==
  StoredByOccupant <=>
    \A r \in Rooms, role \in Roles : StoredBy(history[r][role], slot[r][role], lines)
BY DEF StoredByOccupant, StoredBy

\* Nothing is stored for a role nobody holds.
LEMMA VacantStoresNothing ==
  ASSUME TypeOK, StoredByOccupant, NEW r \in Rooms, NEW role \in Roles,
         slot[r][role] = NoConn
  PROVE  history[r][role] = <<>>
<1> DEFINE h == history[r][role]
<1>1. h \in Seq(Signals)
  BY DEF TypeOK
<1>2. ASSUME h # <<>> PROVE FALSE
  <2>1. Len(h) \in Nat \ {0}
    BY <1>1, <1>2, EmptySeq
  <2>2. h[1] \in Signals
    BY <1>1, <2>1, ElementOfSeq
  <2>3. h[1].about = NoConn
    BY <2>1 DEF StoredByOccupant
  <2>4. QED
    BY <2>2, <2>3, GuestsAssumption DEF Signals
<1>3. QED
  BY <1>2

\* Storing the next line of the owner keeps the cell in order.
LEMMA StoreNext ==
  ASSUME NEW stored \in Seq(Signals), NEW c \in Conns, NEW s,
         TypeOK, StoredBy(stored, c, lines), lines[c] < MaxLines,
         s = Signal(c, lines[c] + 1), lines' = [lines EXCEPT ![c] = @ + 1]
  PROVE  StoredBy(Append(stored, s), c, lines')
<1> DEFINE grown == Append(stored, s)
<1>1. lines[c] \in Nat /\ lines'[c] = lines[c] + 1 /\ lines[c] + 1 \in 1..MaxLines
  BY DEF TypeOK
<1>2. s \in Signals /\ s.about = c /\ s.n = lines[c] + 1
  BY <1>1 DEF Signal, Signals
<1>3. /\ Len(stored) \in Nat
      /\ Len(grown) = Len(stored) + 1
      /\ \A i \in 1..Len(stored) : grown[i] = stored[i]
      /\ grown[Len(stored) + 1] = s
  BY <1>2, AppendProperties, LenProperties
<1>4. \A i \in 1..Len(stored) : /\ stored[i].about = c
                               /\ stored[i].n <= lines[c]
                               /\ stored[i].n \in Nat
  <2>1. \A i \in 1..Len(stored) : stored[i] \in Signals
    BY ElementOfSeq
  <2>2. QED
    BY <2>1, MaxLinesAssumption DEF StoredBy, Signals
<1>5. ASSUME NEW i \in 1..Len(grown)
      PROVE  grown[i].about = c /\ grown[i].n <= lines'[c]
  <2> HIDE DEF grown
  <2>1. CASE i = Len(stored) + 1
    BY <1>1, <1>2, <1>3, <2>1
  <2>2. CASE i \in 1..Len(stored)
    BY <1>1, <1>3, <1>4, <2>2
  <2>3. QED
    BY <1>3, <2>1, <2>2
<1>6. ASSUME NEW i \in 1..Len(grown), NEW j \in 1..Len(grown), i < j
      PROVE  grown[i].n < grown[j].n
  <2> HIDE DEF grown
  <2>1. i \in 1..Len(stored)
    BY <1>3, <1>6
  <2>2. CASE j = Len(stored) + 1
    BY <1>1, <1>2, <1>3, <1>4, <2>1, <2>2
  <2>3. CASE j \in 1..Len(stored)
    BY <1>3, <1>6, <2>1, <2>3 DEF StoredBy
  <2>4. QED
    BY <1>3, <2>2, <2>3
<1>7. QED
  BY <1>5, <1>6 DEF StoredBy

\* An empty cell is in order whoever owns it.
LEMMA StoredByEmpty == \A c : StoredBy(<<>>, c, lines)
BY DEF StoredBy

\* Reading one more line keeps every cell in order.
LEMMA StoredByMoreLines ==
  ASSUME TypeOK, NEW stored \in Seq(Signals), NEW owner, StoredBy(stored, owner, lines),
         NEW c \in Conns, lines' = [lines EXCEPT ![c] = @ + 1]
  PROVE  StoredBy(stored, owner, lines')
<1>1. \A i \in 1..Len(stored) : stored[i] \in Signals
  BY ElementOfSeq
<1>2. \A i \in 1..Len(stored) : stored[i].n \in Nat /\ stored[i].about \in Conns
  BY <1>1, MaxLinesAssumption DEF Signals
<1>3. \A d \in Conns : lines[d] \in Nat /\ lines'[d] \in Nat /\ lines[d] <= lines'[d]
  BY MaxLinesAssumption DEF TypeOK
<1>4. QED
  BY <1>2, <1>3 DEF StoredBy

\* Every step keeps what is stored the occupant's own, in order.
LEMMA StoredByOccupantStep ==
  ASSUME MapInvariant, [Next]_vars
  PROVE  StoredByOccupant'
<1> USE DEF rooms, clients
<1>0. /\ TypeOK /\ AskedToJoin /\ SlotOwnership /\ StoredByOccupant
      /\ slot \in [Rooms -> [Roles -> Conns \cup {NoConn}]]
      /\ history \in [Rooms -> [Roles -> Seq(Signals)]]
      /\ \A r \in Rooms, role \in Roles : StoredBy(history[r][role], slot[r][role], lines)
  BY StoredByCells DEF MapInvariant, Ownership, TypeOK
<1> SUFFICES ASSUME NEW r \in Rooms, NEW role \in Roles
             PROVE  StoredBy(history'[r][role], slot'[r][role], lines')
  BY DEF StoredByOccupant, StoredBy
<1>1. ASSUME UNCHANGED <<lines, history, slot>>
      PROVE  StoredBy(history'[r][role], slot'[r][role], lines')
  BY <1>0, <1>1 DEF StoredBy
<1>2. ASSUME NEW c \in Conns, NEW j \in Joins, Register(c, j)
      PROVE  StoredBy(history'[r][role], slot'[r][role], lines')
  <2>1. j.room \in Rooms /\ j.role \in Roles
    BY DEF Joins
  <2>2. /\ slot[j.room][j.role] = NoConn
        /\ slot' = [slot EXCEPT ![j.room][j.role] = c]
        /\ UNCHANGED <<lines, history>>
    BY <1>2 DEF Register
  <2>3. slot'[r][role] = IF r = j.room /\ role = j.role THEN c ELSE slot[r][role]
    BY <1>0, <2>1, <2>2, CellUpdate
  <2>4. CASE r = j.room /\ role = j.role
    <3>1. history[r][role] = <<>>
      BY <1>0, <2>2, <2>4, VacantStoresNothing
    <3>2. QED
      BY <2>2, <3>1 DEF StoredBy
  <2>5. CASE ~(r = j.room /\ role = j.role)
    BY <1>0, <2>2, <2>3, <2>5 DEF StoredBy
  <2>6. QED
    BY <2>4, <2>5
<1>3. ASSUME NEW c \in Conns, ReadSignal(c)
      PROVE  StoredBy(history'[r][role], slot'[r][role], lines')
  <2>1. /\ join[c] \in Joins /\ join[c].room \in Rooms /\ join[c].role \in Roles
        /\ slot[join[c].room][join[c].role] = c
    BY <1>0, <1>3 DEF ReadSignal, AskedToJoin, SlotOwnership, Registered, Joins
  <2>2. /\ lines[c] < MaxLines /\ UNCHANGED slot
        /\ lines' = [lines EXCEPT ![c] = @ + 1]
        /\ \/ history' = [history EXCEPT ![join[c].room][join[c].role] =
                                        Append(@, Signal(c, lines[c] + 1))]
           \/ UNCHANGED history
    BY <1>3 DEF ReadSignal
  <2>3. CASE UNCHANGED history
    BY <1>0, <2>2, <2>3, StoredByMoreLines
  <2>4. CASE history' = [history EXCEPT ![join[c].room][join[c].role] =
                                      Append(@, Signal(c, lines[c] + 1))]
    <3>0. lines[c] \in 0..MaxLines
      BY <1>0 DEF TypeOK
    <3>1. lines[c] + 1 \in 1..MaxLines
      BY <2>2, <3>0, MaxLinesAssumption
    <3>2. PICK s \in Signals : s = Signal(c, lines[c] + 1)
      BY <3>1, LineTypes
    <3>3. Append(history[join[c].room][join[c].role], s) \in Seq(Signals)
      BY <1>0, <2>1, <3>2, AppendProperties
    <3>4. history'[r][role] = IF r = join[c].room /\ role = join[c].role
                              THEN Append(history[r][role], s) ELSE history[r][role]
      BY <1>0, <2>1, <2>4, <3>2, <3>3, CellUpdate
    <3>5. CASE r = join[c].room /\ role = join[c].role
      <4>1. PICK st \in Seq(Signals) : st = history[r][role]
        BY <1>0
      <4>2. StoredBy(st, c, lines)
        BY <1>0, <2>1, <3>5, <4>1
      <4>3. StoredBy(Append(st, s), c, lines')
        BY <1>0, <2>2, <3>2, <4>2, StoreNext
      <4>4. QED
        BY <2>1, <2>2, <3>4, <3>5, <4>1, <4>3, ZenonT(60) DEF StoredBy
    <3>6. CASE ~(r = join[c].room /\ role = join[c].role)
      <4>1. \A st \in Seq(Signals), o \in Conns \cup {NoConn} :
              StoredBy(st, o, lines) => StoredBy(st, o, lines')
        BY <1>0, <2>2, StoredByMoreLines
      <4>2. history'[r][role] = history[r][role] /\ slot'[r][role] = slot[r][role]
        BY <2>2, <3>4, <3>6
      <4>3. QED
        BY <1>0, <4>1, <4>2
    <3>7. QED
      BY <3>5, <3>6
  <2>5. QED
    BY <2>2, <2>3, <2>4
<1>4. ASSUME NEW c \in Conns, ReadInvalid(c)
      PROVE  StoredBy(history'[r][role], slot'[r][role], lines')
  <2>1. lines' = [lines EXCEPT ![c] = @ + 1] /\ UNCHANGED <<history, slot>>
    BY <1>4 DEF ReadInvalid
  <2>2. \A st \in Seq(Signals), o \in Conns \cup {NoConn} :
          StoredBy(st, o, lines) => StoredBy(st, o, lines')
    BY <1>0, <2>1, StoredByMoreLines
  <2>3. history'[r][role] = history[r][role] /\ slot'[r][role] = slot[r][role]
    BY <2>1
  <2>4. QED
    BY <1>0, <2>2, <2>3
<1>5. ASSUME NEW c \in Conns, Unregister(c)
      PROVE  StoredBy(history'[r][role], slot'[r][role], lines')
  <2> DEFINE j == join[c]
  <2>1. j.room \in Rooms /\ j.role \in Roles
    BY <1>0, <1>5 DEF Unregister, AskedToJoin, Registered, Joins
  <2>2. /\ slot' = [slot EXCEPT ![j.room][j.role] = NoConn]
        /\ history' = [history EXCEPT ![j.room] = HistoryWithout(j)]
        /\ UNCHANGED lines
    BY <1>5 DEF Unregister
  <2>3. slot'[r][role] = IF r = j.room /\ role = j.role THEN NoConn ELSE slot[r][role]
    BY <1>0, <2>1, <2>2, CellUpdate
  <2>4. history'[r][role] = <<>> \/ (/\ history'[r][role] = history[r][role]
                                     /\ ~(r = j.room /\ role = j.role))
    <3>1. CASE r = j.room
      BY <1>0, <2>1, <2>2, <3>1 DEF HistoryWithout, NoHistory
    <3>2. CASE r # j.room
      BY <1>0, <2>1, <2>2, <3>2
    <3>3. QED
      BY <3>1, <3>2
  <2>5. CASE history'[r][role] = <<>>
    BY <2>5 DEF StoredBy
  <2>6. CASE history'[r][role] = history[r][role] /\ ~(r = j.room /\ role = j.role)
    BY <1>0, <2>2, <2>3, <2>6
  <2>7. QED
    BY <2>4, <2>5, <2>6
<1>6. ASSUME NEW c \in Conns,
             \/ BadJoin(c) \/ ReadFails(c) \/ (\E j \in Joins : Reject(c, j)) \/ WriteLine(c)
             \/ FailWrite(c) \/ ReadEnd(c) \/ Disconnect(c) \/ Stall(c) \/ Resume(c)
      PROVE  UNCHANGED <<lines, history, slot>>
  BY <1>6 DEF BadJoin, ReadFails, Reject, WriteLine, FailWrite, ReadEnd, Disconnect, Stall, Resume
<1>7. CASE UNCHANGED vars
  BY <1>1, <1>7 DEF vars
<1>8. QED
  BY <1>1, <1>2, <1>3, <1>4, <1>5, <1>6, <1>7, NextCases

\* A room is kept exactly while a slot of it is held, and what it stores for a
\* role comes from the role's present occupant, in the order it was read.
THEOREM MapCorrect == Spec => [](RoomsInUse /\ StoredByOccupant)
<1>1. Init => MapInvariant
  <2> SUFFICES ASSUME Init PROVE MapInvariant
    OBVIOUS
  <2>1. Ownership
    BY InitOwnership
  <2>2. RoomsInUse
    BY DEF Init, RoomsInUse, EmptyRoom
  <2>3. StoredByOccupant
    BY StoredByCells, StoredByEmpty DEF Init, NoHistory
  <2>4. QED
    BY <2>1, <2>2, <2>3 DEF MapInvariant
<1>2. MapInvariant /\ [Next]_vars => MapInvariant'
  BY TypeStep, OwnershipStep, RoomsInUseStep, StoredByOccupantStep
  DEF MapInvariant, Ownership
<1>3. MapInvariant => RoomsInUse /\ StoredByOccupant
  BY DEF MapInvariant
<1>4. QED
  BY <1>1, <1>2, <1>3, PTL DEF Spec

-----------------------------------------------------------------------------
(***************************************************************************)
(* The invariant.  What is queued and what was written are taken as sets;   *)
(* that no write is there twice is a conjunct of its own.                   *)
(***************************************************************************)
Queued(c) == SeqToSet(queue[c])
Written(d) == SeqToSet(wire[d])

\* Nobody addresses or mentions a connection that has not joined.
NewcomersUnknown ==
  \A d \in Conns : stage[d] = "new" =>
    /\ wire[d] = <<>>
    /\ \A c \in Conns : /\ \A w \in Queued(c) : w.to # d /\ w.line.about # d
                        /\ \A l \in Written(c) : l.about # d

\* What handler c may have to write while it announces its registration: its
\* WAITING alone, or PEER lines between itself and another, or a replay.
Announcement(c, w) ==
  \/ w = To(c, Waiting) /\ Queued(c) = {w}
  \/ \E p \in Conns \ {c} : w = To(c, Peer(p)) \/ w = To(p, Peer(c))
  \/ \E s \in Signals : w = To(c, s) /\ s.about # c

\* ... while it relays: the last signal it read, to another connection.
Relay(c, w) ==
  \E p \in Conns \ {c} :
    /\ w = To(p, Signal(c, lines[c]))
    /\ Queued(c) = {w}
    /\ lines[c] \in 1..MaxLines
    /\ Signal(c, lines[c]) \in SeqToSet(history[join[c].room][join[c].role])

WritesFitStage ==
  \A c \in Conns : \A w \in Queued(c) :
    /\ stage[c] = "announcing" => Announcement(c, w)
    /\ stage[c] = "relaying" => Relay(c, w)
    /\ stage[c] \in {"correcting", "rejecting"} => w = To(c, Failure)

\* No signal carries a number its sender has not reached.
SignalsWereRead ==
  \A c \in Conns :
    /\ \A w \in Queued(c) : w.line.kind = "SIG" =>
         w.line \in Signals /\ w.line.n <= lines[w.line.about]
    /\ \A l \in Written(c) : l.kind = "SIG" =>
         l \in Signals /\ l.n <= lines[l.about]

\* Apart from ERROR, no line goes to a connection twice: neither within a
\* queue, nor from two queues, nor once more after it was written.
NothingTwice ==
  /\ \A c \in Conns : \A i, j \in 1..Len(queue[c]) : queue[c][i] = queue[c][j] => i = j
  /\ \A c, d \in Conns : c # d => Queued(c) \cap Queued(d) = {}
  /\ \A c \in Conns : \A w \in Queued(c) : w.line # Failure => w.line \notin Written(w.to)
  /\ \A d \in Conns : \A i, j \in 1..Len(wire[d]) :
       wire[d][i] = wire[d][j] /\ wire[d][i] # Failure => i = j

\* d found nobody when it came: it was owed, or was given, a WAITING.
CameFirst(d) == Waiting \in Written(d) \/ To(d, Waiting) \in Queued(d)

\* Both hold a slot of the same room.
Facing(c, d) ==
  /\ stage[c] \in Registered /\ stage[d] \in Registered
  /\ join[c].room = join[d].room /\ join[c].role = Opposite(join[d].role)

\* d has been told, or will be told, of the c it shares a room with, unless c
\* is on its way out, or d is and was to be told by its own handler.
PeersAreTold ==
  \A c, d \in Conns : Facing(c, d) =>
    \/ Peer(c) \in Written(d)
    \/ To(d, Peer(c)) \in Queued(c) \cup Queued(d)
    \/ stage[c] = "leaving"
    \/ stage[d] = "leaving" /\ ~CameFirst(d)

\* Every signal on a wire follows the PEER line about its sender, and precedes
\* only later signals of that sender.
InOrder(seq) ==
  \A i \in 1..Len(seq) : seq[i].kind = "SIG" =>
    /\ \E k \in 1..(i - 1) : seq[k] = Peer(seq[i].about)
    /\ \A k \in (i + 1)..Len(seq) :
         seq[k].about = seq[i].about => seq[k].kind = "SIG" /\ seq[i].n < seq[k].n

\* WAITING is the last line of a registration that announces it, a relay to a
\* first comer follows the PEER line about the relaying client, and its wire is
\* in order.
FirstComers ==
  /\ \A d \in Conns : Waiting \in Written(d) => stage[d] \notin {"new", "announcing"}
  /\ \A c, d \in Conns : \A w \in Queued(c) :
       stage[c] = "relaying" /\ w.to = d /\ CameFirst(d) => Peer(c) \in Written(d)
  /\ \A d \in Conns : CameFirst(d) => InOrder(wire[d])

Delivery ==
  /\ NewcomersUnknown /\ WritesFitStage /\ SignalsWereRead /\ NothingTwice
  /\ PeersAreTold /\ FirstComers

-----------------------------------------------------------------------------
(***************************************************************************)
(* Lemmas about the members of a sequence.                                  *)
(***************************************************************************)

\* The members of the sequences that are not built from others.
LEMMA MembersOfShort ==
  /\ SeqToSet(<<>>) = {}
  /\ \A x : SeqToSet(<<x>>) = {x}
  /\ \A x, y : SeqToSet(<<x, y>>) = {x, y}
BY DEF SeqToSet

\* Appending adds one member.
LEMMA MembersOfAppend ==
  ASSUME NEW S, NEW seq \in Seq(S), NEW e \in S
  PROVE  SeqToSet(Append(seq, e)) = SeqToSet(seq) \cup {e}
<1> DEFINE grown == Append(seq, e)
<1>1. /\ Len(seq) \in Nat /\ Len(grown) = Len(seq) + 1
      /\ \A i \in 1..Len(seq) : grown[i] = seq[i]
      /\ grown[Len(seq) + 1] = e
  BY AppendProperties, LenProperties
<1> HIDE DEF grown
<1>2. 1..Len(grown) = 1..Len(seq) \cup {Len(seq) + 1}
  BY <1>1
<1>3. QED
  BY <1>1, <1>2 DEF SeqToSet, grown

\* The members of a concatenation.
LEMMA MembersOfConcat ==
  ASSUME NEW S, NEW s \in Seq(S), NEW t \in Seq(S)
  PROVE  SeqToSet(s \o t) = SeqToSet(s) \cup SeqToSet(t)
<1> DEFINE st == s \o t
<1>1. /\ Len(s) \in Nat /\ Len(t) \in Nat /\ Len(st) = Len(s) + Len(t)
      /\ \A i \in 1..Len(s) + Len(t) : st[i] = IF i <= Len(s) THEN s[i] ELSE t[i - Len(s)]
  BY ConcatProperties, LenProperties
<1> HIDE DEF st
<1>2. ASSUME NEW i \in 1..Len(st) PROVE st[i] \in SeqToSet(s) \cup SeqToSet(t)
  <2>1. CASE i <= Len(s)
    BY <1>1, <2>1 DEF SeqToSet
  <2>2. CASE ~(i <= Len(s))
    <3>1. i - Len(s) \in 1..Len(t)
      BY <1>1, <2>2
    <3>2. QED
      BY <1>1, <2>2, <3>1 DEF SeqToSet
  <2>3. QED
    BY <2>1, <2>2
<1>3. ASSUME NEW i \in 1..Len(s) PROVE s[i] \in SeqToSet(st)
  BY <1>1 DEF SeqToSet
<1>4. ASSUME NEW i \in 1..Len(t) PROVE t[i] \in SeqToSet(st)
  <2>1. Len(s) + i \in 1..Len(st) /\ ~(Len(s) + i <= Len(s)) /\ (Len(s) + i) - Len(s) = i
    BY <1>1
  <2>2. QED
    BY <1>1, <2>1 DEF SeqToSet
<1>5. QED
  BY <1>2, <1>3, <1>4 DEF SeqToSet, st

\* Taking the head off a sequence without repetitions takes it off its members.
LEMMA MembersOfTail ==
  ASSUME NEW S, NEW seq \in Seq(S), seq # <<>>,
         \A i, j \in 1..Len(seq) : seq[i] = seq[j] => i = j
  PROVE  /\ Head(seq) \in SeqToSet(seq)
         /\ SeqToSet(Tail(seq)) = SeqToSet(seq) \ {Head(seq)}
         /\ \A i, j \in 1..Len(Tail(seq)) : Tail(seq)[i] = Tail(seq)[j] => i = j
<1> DEFINE rest == Tail(seq)
<1>1. /\ Len(seq) \in Nat \ {0} /\ Len(rest) = Len(seq) - 1
      /\ \A i \in 1..Len(rest) : rest[i] = seq[i + 1]
      /\ Head(seq) = seq[1]
  BY EmptySeq, HeadTailProperties
<1> HIDE DEF rest
<1>2. \A i \in 1..Len(rest) : i + 1 \in 1..Len(seq) /\ i + 1 # 1
  BY <1>1
<1>3. \A i \in 1..Len(seq) : i = 1 \/ (i - 1 \in 1..Len(rest) /\ (i - 1) + 1 = i)
  BY <1>1
<1>4. 1 \in 1..Len(seq)
  BY <1>1
<1>5. SeqToSet(rest) = SeqToSet(seq) \ {Head(seq)}
  <2>1. ASSUME NEW i \in 1..Len(rest) PROVE rest[i] \in SeqToSet(seq) \ {Head(seq)}
    BY <1>1, <1>2, <1>4 DEF SeqToSet
  <2>2. ASSUME NEW i \in 1..Len(seq), seq[i] # Head(seq) PROVE seq[i] \in SeqToSet(rest)
    BY <1>1, <1>3, <2>2, ZenonT(60) DEF SeqToSet
  <2>3. QED
    BY <2>1, <2>2 DEF SeqToSet
<1>6. ASSUME NEW i \in 1..Len(rest), NEW j \in 1..Len(rest), rest[i] = rest[j]
      PROVE  i = j
  <2>1. i + 1 = j + 1
    BY <1>1, <1>2, <1>6
  <2>2. QED
    BY <1>1, <2>1
<1>7. QED
  BY <1>1, <1>4, <1>5, <1>6 DEF SeqToSet, rest

\* The members of a replay are the stored signals, addressed.
LEMMA MembersOfReplay ==
  ASSUME NEW c \in Conns, NEW stored \in Seq(Signals)
  PROVE  SeqToSet(Replay(c, stored)) = {To(c, s) : s \in SeqToSet(stored)}
<1>1. /\ Len(Replay(c, stored)) = Len(stored)
      /\ \A i \in 1..Len(stored) : Replay(c, stored)[i] = To(c, stored[i])
  BY ReplayType
<1>2. QED
  BY <1>1 DEF SeqToSet

\* A sequence is empty exactly if it has no members.
LEMMA MembersOfEmpty ==
  ASSUME NEW S, NEW seq \in Seq(S)
  PROVE  /\ seq = <<>> <=> SeqToSet(seq) = {}
         /\ SeqToSet(seq) \subseteq S
<1>1. seq # <<>> => 1 \in 1..Len(seq)
  BY EmptySeq
<1>2. seq # <<>> => SeqToSet(seq) # {}
  BY <1>1 DEF SeqToSet
<1>3. SeqToSet(seq) \subseteq S
  BY ElementOfSeq DEF SeqToSet
<1>4. QED
  BY <1>2, <1>3, MembersOfShort

-----------------------------------------------------------------------------
(***************************************************************************)
(* Lemmas about lines, queues and wires.                                    *)
(***************************************************************************)

\* The four kinds of line differ, and an addressed line is its two parts.
LEMMA LineKinds ==
  /\ \A c \in Conns : \A l : To(c, l).to = c /\ To(c, l).line = l
  /\ \A c, d \in Conns : \A l, m : To(c, l) = To(d, m) <=> c = d /\ l = m
  /\ \A c, d \in Conns : Peer(c) = Peer(d) <=> c = d
  /\ \A c \in Conns : /\ Peer(c).about = c /\ Peer(c).kind # "SIG"
                      /\ Peer(c) # Waiting /\ Peer(c) # Failure /\ Peer(c) \notin Signals
  /\ \A c, i : /\ Signal(c, i).about = c /\ Signal(c, i).n = i
               /\ Signal(c, i).kind = "SIG"
  /\ \A s \in Signals : /\ s.kind = "SIG" /\ s.about \in Conns /\ s.n \in Nat
                        /\ s = Signal(s.about, s.n)
  /\ Waiting.about = NoConn /\ Waiting.kind # "SIG" /\ Waiting \notin Signals
  /\ Failure.about = NoConn /\ Failure.kind # "SIG" /\ Failure \notin Signals
  /\ Waiting # Failure
<1>1. \A s \in Signals : s.n \in Nat /\ s.about \in Conns
  BY DEF Signals
<1>2. QED
  BY <1>1 DEF To, Peer, Waiting, Failure, Signal, Signals

\* The ranges of the sets the invariant speaks of; a queue has members exactly
\* in the writing stages.
LEMMA MemberTypes ==
  ASSUME TypeOK
  PROVE  \A c \in Conns : /\ Queued(c) \subseteq Writes
                          /\ \A w \in Queued(c) : w.to \in Conns /\ w.line \in Lines
                          /\ Written(c) \subseteq Lines
                          /\ wire[c] = <<>> => Written(c) = {}
                          /\ Queued(c) # {} <=> stage[c] \in Writing
<1> TAKE c \in Conns
<1>1. /\ queue[c] \in Seq(Writes) /\ wire[c] \in Seq(Lines)
      /\ queue[c] # <<>> <=> stage[c] \in Writing
  BY DEF TypeOK
<1>2. Queued(c) \subseteq Writes /\ Written(c) \subseteq Lines
  BY <1>1, MembersOfEmpty DEF Queued, Written
<1>3. /\ wire[c] = <<>> => Written(c) = {}
      /\ Queued(c) # {} <=> stage[c] \in Writing
  BY <1>1, MembersOfEmpty DEF Queued, Written
<1>4. QED
  BY <1>2, <1>3 DEF Writes

\* Queues that do not change keep their members, wires likewise.
LEMMA SameMembers ==
  ASSUME NEW c
  PROVE  /\ queue'[c] = queue[c] => Queued(c)' = Queued(c)
         /\ wire'[c] = wire[c] => Written(c)' = Written(c)
BY DEF Queued, Written

\* Where neither lines nor queues change, and handlers only end.
LEMMA QuietStep ==
  ASSUME TypeOK, Delivery, UNCHANGED <<join, lines, queue, wire>>,
         \A d \in Conns : \/ stage'[d] = stage[d]
                          \/ stage[d] \notin Writing /\ stage'[d] = "done"
                          \/ stage[d] = "reading" /\ stage'[d] = "leaving",
         \A d \in Conns : stage[d] = "relaying" =>
           history'[join[d].room][join[d].role] = history[join[d].room][join[d].role]
  PROVE  Delivery'
<1> USE DEF Delivery, Writing
<1>1. \A d \in Conns : Queued(d)' = Queued(d) /\ Written(d)' = Written(d)
  BY SameMembers
<1>2. \A d \in Conns : Queued(d) # {} => stage'[d] = stage[d]
  BY MemberTypes
<1>3. NewcomersUnknown'
  BY <1>1 DEF NewcomersUnknown
<1>4. WritesFitStage'
  <2> SUFFICES ASSUME NEW c \in Conns, NEW w \in Queued(c)
               PROVE  /\ stage[c] = "announcing" => Announcement(c, w)'
                      /\ stage[c] = "relaying" => Relay(c, w)'
                      /\ stage[c] \in {"correcting", "rejecting"} => w = To(c, Failure)
    BY <1>1, <1>2 DEF WritesFitStage
  <2>1. Announcement(c, w) => Announcement(c, w)'
    BY <1>1 DEF Announcement
  <2>2. stage[c] = "relaying" /\ Relay(c, w) => Relay(c, w)'
    BY <1>1 DEF Relay
  <2>3. QED
    BY <2>1, <2>2 DEF WritesFitStage
<1>5. SignalsWereRead' /\ NothingTwice'
  <2>1. SignalsWereRead'
    BY <1>1 DEF SignalsWereRead
  <2>2. NothingTwice'
    BY <1>1, MemberTypes DEF NothingTwice
  <2>3. QED
    BY <2>1, <2>2
<1>6. \A d \in Conns : CameFirst(d)' <=> CameFirst(d)
  BY <1>1 DEF CameFirst
<1>7. PeersAreTold'
  BY <1>1, <1>6 DEF PeersAreTold, Facing, Registered
<1>8. FirstComers'
  BY <1>1, <1>6 DEF FirstComers
<1>9. QED
  BY <1>3, <1>4, <1>5, <1>7, <1>8

\* An ERROR is queued for the handler's own client.
LEMMA AnswerStep ==
  ASSUME TypeOK, Delivery, NEW c \in Conns, UNCHANGED <<wire, history>>,
         stage[c] \in {"new", "reading"},
         stage' = [stage EXCEPT ![c] = IF @ = "new" THEN "rejecting" ELSE "correcting"],
         queue' = [queue EXCEPT ![c] = <<To(c, Failure)>>],
         \A d \in Conns \ {c} : join'[d] = join[d] /\ lines'[d] = lines[d],
         lines'[c] \in Nat, lines[c] <= lines'[c],
         stage[c] = "reading" => join'[c] = join[c]
  PROVE  Delivery'
<1> USE DEF Delivery
<1>0. /\ stage \in [Conns -> Stages] /\ queue \in [Conns -> Seq(Writes)]
      /\ \A d \in Conns : lines[d] \in Nat
  BY DEF TypeOK
<1>1. /\ \A d \in Conns : Written(d)' = Written(d)
      /\ \A d \in Conns \ {c} : Queued(d)' = Queued(d)
      /\ Queued(c) = {}
      /\ Queued(c)' = {To(c, Failure)}
  <2>1. \A d \in Conns \ {c} : queue'[d] = queue[d]
    BY <1>0
  <2>2. Queued(c)' = SeqToSet(<<To(c, Failure)>>)
    BY <1>0 DEF Queued
  <2>3. QED
    BY <2>1, <2>2, SameMembers, MemberTypes, MembersOfShort DEF Writing
<1>2. \A d \in Conns \ {c} : stage'[d] = stage[d]
  BY <1>0
<1>3. \A d \in Conns : CameFirst(d)' => CameFirst(d)
  BY <1>1, LineKinds DEF CameFirst
<1>4. NewcomersUnknown'
  BY <1>0, <1>1, <1>2, LineKinds DEF NewcomersUnknown
<1>5. WritesFitStage'
  <2> SUFFICES ASSUME NEW d \in Conns, NEW w \in Queued(d)'
               PROVE  /\ stage'[d] = "announcing" => Announcement(d, w)'
                      /\ stage'[d] = "relaying" => Relay(d, w)'
                      /\ stage'[d] \in {"correcting", "rejecting"} => w = To(d, Failure)
    BY DEF WritesFitStage
  <2>1. CASE d = c
    BY <1>0, <1>1, <2>1
  <2>2. CASE d # c
    <3>1. /\ Announcement(d, w) => Announcement(d, w)'
          /\ Relay(d, w) => Relay(d, w)'
      BY <1>1, <2>2 DEF Announcement, Relay
    <3>2. QED
      BY <1>1, <1>2, <2>2, <3>1 DEF WritesFitStage
  <2>3. QED
    BY <2>1, <2>2
<1>6. SignalsWereRead'
  <2>1. \A s \in Signals : s.n <= lines[s.about] => s.n <= lines'[s.about]
    BY <1>0, LineKinds
  <2>2. QED
    BY <1>1, <2>1, LineKinds DEF SignalsWereRead
<1>7. NothingTwice'
  <2>1. \A i, j \in 1..Len(queue'[c]) : queue'[c][i] = queue'[c][j] => i = j
    BY <1>0
  <2>2. \A d \in Conns \ {c} : \A w \in Queued(d) : w # To(c, Failure)
    <3> TAKE d \in Conns \ {c}
    <3> TAKE w \in Queued(d)
    <3>1. stage[d] \in Writing
      BY MemberTypes
    <3>2. QED
      BY <3>1, LineKinds DEF Writing, WritesFitStage, Announcement, Relay
  <2>3. \A d \in Conns \ {c} : queue'[d] = queue[d]
    BY <1>0
  <2>4. \A d, e \in Conns : d # e => Queued(d)' \cap Queued(e)' = {}
    BY <1>1, <2>2 DEF NothingTwice
  <2>5. \A d \in Conns : \A w \in Queued(d)' : w.line # Failure => w.line \notin Written(w.to)'
    <3> SUFFICES ASSUME NEW d \in Conns, NEW w \in Queued(d)', w.line # Failure
                 PROVE  w.line \notin Written(w.to)'
      OBVIOUS
    <3>1. d # c /\ w \in Queued(d)
      BY <1>1, LineKinds
    <3>2. w.to \in Conns
      BY <3>1, MemberTypes
    <3>3. QED
      BY <1>1, <3>1, <3>2 DEF NothingTwice
  <2>6. QED
    BY <2>1, <2>3, <2>4, <2>5 DEF NothingTwice
<1>8. PeersAreTold'
  <2>1. \A d, e \in Conns : Facing(d, e)' => Facing(d, e)
    BY <1>0, <1>2 DEF Facing, Registered
  <2>2. \A d \in Conns : stage[d] = "leaving" => stage'[d] = "leaving"
    BY <1>0
  <2>3. \A d, e \in Conns : To(d, Peer(e)) \in Queued(d) \cup Queued(e)
                              => To(d, Peer(e)) \in Queued(d)' \cup Queued(e)'
    BY <1>1
  <2>4. QED
    BY <1>1, <1>3, <2>1, <2>2, <2>3 DEF PeersAreTold
<1>9. FirstComers'
  <2>1. \A d \in Conns : Waiting \in Written(d)' => stage'[d] \notin {"new", "announcing"}
    BY <1>0, <1>1, <1>2 DEF FirstComers
  <2>2. \A d, e \in Conns : \A w \in Queued(d)' :
          stage'[d] = "relaying" /\ w.to = e /\ CameFirst(e)' => Peer(d) \in Written(e)'
    BY <1>0, <1>1, <1>2, <1>3 DEF FirstComers
  <2>3. QED
    BY <1>3, <2>1, <2>2 DEF FirstComers
<1>10. QED
  BY <1>4, <1>5, <1>6, <1>7, <1>8, <1>9

-----------------------------------------------------------------------------
(***************************************************************************)
(* Who may have queued what.                                                *)
(***************************************************************************)

\* Only an announcing handler has a WAITING to write, and nothing else then.
LEMMA WaitingIsOwn ==
  ASSUME TypeOK, WritesFitStage, NEW c \in Conns, NEW w \in Queued(c), w.line = Waiting
  PROVE  w = To(c, Waiting) /\ stage[c] = "announcing" /\ Queued(c) = {w}
<1>1. stage[c] \in Writing
  BY MemberTypes
<1>2. QED
  BY <1>1, LineKinds DEF Writing, WritesFitStage, Announcement, Relay

\* Only one of the two connections it is about announces a PEER line.
LEMMA PeerIsAnnounced ==
  ASSUME TypeOK, WritesFitStage, NEW c \in Conns, NEW d \in Conns, NEW x \in Conns,
         To(d, Peer(x)) \in Queued(c)
  PROVE  stage[c] = "announcing" /\ c \in {d, x}
<1>1. stage[c] \in Writing
  BY MemberTypes
<1>2. QED
  BY <1>1, LineKinds DEF Writing, WritesFitStage, Announcement, Relay

\* A first comer that is still announcing has its WAITING left to write.
LEMMA FirstComerWaits ==
  ASSUME TypeOK, WritesFitStage, FirstComers, NEW c \in Conns,
         stage[c] = "announcing", CameFirst(c)
  PROVE  Queued(c) = {To(c, Waiting)}
<1>1. To(c, Waiting) \in Queued(c)
  BY DEF FirstComers, CameFirst
<1>2. QED
  BY <1>1, WaitingIsOwn, LineKinds

\* A slot's holder, seen from its handler.
LEMMA HolderOfSlot ==
  ASSUME Ownership, NEW c \in Conns, stage[c] \in Registered
  PROVE  /\ join[c] \in Joins /\ join[c].room \in Rooms /\ join[c].role \in Roles
         /\ join[c] = [room |-> join[c].room, role |-> join[c].role]
         /\ slot[join[c].room][join[c].role] = c
<1>1. /\ join[c] \in Joins /\ join[c].room \in Rooms /\ join[c].role \in Roles
      /\ join[c] = [room |-> join[c].room, role |-> join[c].role]
  BY DEF Ownership, AskedToJoin, Joins
<1>2. QED
  BY <1>1 DEF Ownership, SlotOwnership

\* A slot's holder, seen from the slot.
LEMMA HandlerOfSlot ==
  ASSUME Ownership, NEW r \in Rooms, NEW role \in Roles, slot[r][role] # NoConn
  PROVE  /\ slot[r][role] \in Conns
         /\ stage[slot[r][role]] \in Registered
         /\ join[slot[r][role]] = [room |-> r, role |-> role]
<1>1. slot[r][role] \in Conns
  BY DEF Ownership, TypeOK
<1>2. QED
  BY <1>1 DEF Ownership, SlotOwnership

\* The stored signals of a role: its occupant's, none of them twice.
LEMMA StoredSignals ==
  ASSUME MapInvariant, NEW r \in Rooms, NEW role \in Roles
  PROVE  /\ history[r][role] \in Seq(Signals)
         /\ \A s \in SeqToSet(history[r][role]) :
              s \in Signals /\ s.about = slot[r][role] /\ s.n <= lines[s.about]
         /\ \A i, k \in 1..Len(history[r][role]) :
              history[r][role][i] = history[r][role][k] => i = k
<1> DEFINE stored == history[r][role]
<1>1. stored \in Seq(Signals) /\ StoredBy(stored, slot[r][role], lines)
  BY StoredByCells DEF MapInvariant, Ownership, TypeOK
<1>2. \A i \in 1..Len(stored) : stored[i] \in Signals /\ stored[i].n \in Nat
  BY <1>1, ElementOfSeq, LineKinds
<1>3. \A s \in SeqToSet(stored) :
        s \in Signals /\ s.about = slot[r][role] /\ s.n <= lines[s.about]
  BY <1>1, <1>2 DEF StoredBy, SeqToSet
<1>4. ASSUME NEW i \in 1..Len(stored), NEW k \in 1..Len(stored), stored[i] = stored[k]
      PROVE  i = k
  <2> HIDE DEF stored
  <2>1. i \in Nat /\ k \in Nat
    BY <1>1, LenProperties
  <2>2. ~(stored[i].n < stored[k].n) /\ ~(stored[k].n < stored[i].n)
    BY <1>2, <1>4
  <2>3. ~(i < k) /\ ~(k < i)
    BY <1>1, <2>2 DEF StoredBy
  <2>4. QED
    BY <2>1, <2>3
<1>5. QED
  BY <1>1, <1>3, <1>4

\* What a registration queues, and that it queues nothing twice.
LEMMA RegistrationQueue ==
  ASSUME MapInvariant, NEW c \in Conns, NEW j \in Joins, NEW peer,
         peer = slot[j.room][Opposite(j.role)], peer # c
  PROVE  /\ peer = NoConn => SeqToSet(RegistrationWrites(c, j)) = {To(c, Waiting)}
         /\ peer # NoConn =>
              SeqToSet(RegistrationWrites(c, j)) =
                {To(c, Peer(peer)), To(peer, Peer(c))}
                  \cup {To(c, s) : s \in SeqToSet(history[j.room][Opposite(j.role)])}
         /\ \A i, k \in 1..Len(RegistrationWrites(c, j)) :
              RegistrationWrites(c, j)[i] = RegistrationWrites(c, j)[k] => i = k
<1> DEFINE stored == history[j.room][Opposite(j.role)]
<1>1. /\ j.room \in Rooms /\ Opposite(j.role) \in Roles
      /\ peer \in Conns \cup {NoConn}
  BY OppositeRole DEF Joins, MapInvariant, Ownership, TypeOK
<1>2. /\ stored \in Seq(Signals)
      /\ \A i \in 1..Len(stored) : stored[i] \in Signals
      /\ \A i, k \in 1..Len(stored) : stored[i] = stored[k] => i = k
  BY <1>1, StoredSignals, ElementOfSeq
<1>3. CASE peer = NoConn
  <2>1. RegistrationWrites(c, j) = <<To(c, Waiting)>>
    BY <1>3 DEF RegistrationWrites
  <2>2. QED
    BY <1>3, <2>1, MembersOfShort
<1>4. CASE peer # NoConn
  <2> DEFINE head == <<To(c, Peer(peer)), To(peer, Peer(c))>>
             tail == Replay(c, stored)
             all == head \o tail
  <2>1. /\ RegistrationWrites(c, j) = all /\ peer \in Conns
    BY <1>1, <1>4 DEF RegistrationWrites
  <2>2. head \in Seq(Writes) /\ Len(head) = 2
        /\ head[1] = To(c, Peer(peer)) /\ head[2] = To(peer, Peer(c))
    BY <2>1, LineTypes
  <2>3. /\ tail \in Seq(Writes) /\ Len(tail) = Len(stored) /\ Len(stored) \in Nat
        /\ \A i \in 1..Len(stored) : tail[i] = To(c, stored[i])
    BY <1>2, ReplayType, LenProperties
  <2>4. SeqToSet(head) = {To(c, Peer(peer)), To(peer, Peer(c))}
    BY MembersOfShort
  <2>5. SeqToSet(tail) = {To(c, s) : s \in SeqToSet(stored)}
    BY <1>2, MembersOfReplay
  <2>6. SeqToSet(all) = SeqToSet(head) \cup SeqToSet(tail)
    <3> HIDE DEF head, tail
    <3> QED BY <2>2, <2>3, MembersOfConcat
  <2>7. /\ Len(all) = Len(stored) + 2
        /\ \A i \in 1..Len(all) : all[i] = IF i <= 2 THEN head[i] ELSE tail[i - 2]
    <3> HIDE DEF head, tail
    <3>1. /\ Len(all) = Len(head) + Len(tail)
          /\ \A i \in 1..Len(head) + Len(tail) :
               all[i] = IF i <= Len(head) THEN head[i] ELSE tail[i - Len(head)]
      <4>1. \A a, b \in Seq(Writes) :
              /\ Len(a \o b) = Len(a) + Len(b)
              /\ \A i \in 1..Len(a) + Len(b) :
                   (a \o b)[i] = IF i <= Len(a) THEN a[i] ELSE b[i - Len(a)]
        BY ConcatProperties
      <4>2. QED
        BY <2>2, <2>3, <4>1
    <3> HIDE DEF all
    <3>2. Len(all) = Len(stored) + 2
      BY <2>2, <2>3, <3>1
    <3>3. QED
      BY <2>2, <2>3, <3>1, <3>2
  <2>8. ASSUME NEW i \in 1..Len(all), NEW k \in 1..Len(all), all[i] = all[k]
        PROVE  i = k
    <3> HIDE DEF all, head, tail
    <3>0. \A a, b : To(c, a) = To(c, b) => a = b
      BY DEF To
    <3>1. /\ i \in {1, 2} \/ (i - 2 \in 1..Len(stored) /\ ~(i <= 2))
          /\ k \in {1, 2} \/ (k - 2 \in 1..Len(stored) /\ ~(k <= 2))
      BY <2>3, <2>7
    <3>2. To(c, Peer(peer)) # To(peer, Peer(c))
      BY <2>1, LineKinds
    <3>3. \A n \in 1..Len(stored) :
            To(c, stored[n]) # To(c, Peer(peer)) /\ To(c, stored[n]) # To(peer, Peer(c))
      BY <1>2, <2>1, LineKinds
    <3>4. CASE i \in {1, 2} /\ k \in {1, 2}
      BY <2>2, <2>7, <2>8, <3>2, <3>4
    <3>5. CASE i \in {1, 2} /\ ~(k <= 2) /\ k - 2 \in 1..Len(stored)
      <4>1. all[k] = To(c, stored[k - 2])
        BY <2>3, <2>7, <3>5
      <4>2. QED
        BY <2>2, <2>7, <2>8, <3>3, <3>5, <4>1
    <3>6. CASE k \in {1, 2} /\ ~(i <= 2) /\ i - 2 \in 1..Len(stored)
      <4>1. all[i] = To(c, stored[i - 2])
        BY <2>3, <2>7, <3>6
      <4>2. all[k] \in {To(c, Peer(peer)), To(peer, Peer(c))}
        BY <2>2, <2>7, <3>6
      <4>3. QED
        BY <2>8, <3>3, <3>6, <4>1, <4>2
    <3>7. CASE /\ ~(i <= 2) /\ i - 2 \in 1..Len(stored)
               /\ ~(k <= 2) /\ k - 2 \in 1..Len(stored)
      <4>1. all[i] = To(c, stored[i - 2]) /\ all[k] = To(c, stored[k - 2])
        BY <2>3, <2>7, <3>7
      <4>2. stored[i - 2] = stored[k - 2]
        BY <2>8, <3>0, <4>1, Zenon
      <4>3. i - 2 = k - 2
        BY <1>2, <3>7, <4>2
      <4>4. QED
        BY <2>3, <2>7, <4>3
    <3>8. QED
      BY <3>1, <3>4, <3>5, <3>6, <3>7
  <2>9. QED
    BY <1>4, <2>1, <2>4, <2>5, <2>6, <2>8
<1>5. QED
  BY <1>3, <1>4

-----------------------------------------------------------------------------
(***************************************************************************)
(* The steps that queue, write and drop lines.                              *)
(***************************************************************************)

\* A registration: the new connection was unknown, so nothing it is told or
\* that is told about it can be there already.
LEMMA RegisterStep ==
  ASSUME MapInvariant, Delivery, NEW c \in Conns, NEW j \in Joins, Register(c, j)
  PROVE  Delivery'
<1> DEFINE peer == slot[j.room][Opposite(j.role)]
           stored == SeqToSet(history[j.room][Opposite(j.role)])
<1>0. /\ TypeOK /\ Ownership
      /\ stage \in [Conns -> Stages] /\ queue \in [Conns -> Seq(Writes)]
      /\ join \in [Conns -> Joins \cup {NoJoin}]
      /\ NewcomersUnknown /\ WritesFitStage /\ SignalsWereRead /\ NothingTwice
      /\ PeersAreTold /\ FirstComers
      /\ j.room \in Rooms /\ j.role \in Roles /\ Opposite(j.role) \in Roles
  BY OppositeRole DEF MapInvariant, Ownership, TypeOK, Delivery, Joins
<1>1. /\ stage[c] = "new" /\ stage' = [stage EXCEPT ![c] = "announcing"]
      /\ join' = [join EXCEPT ![c] = j]
      /\ queue' = [queue EXCEPT ![c] = RegistrationWrites(c, j)]
      /\ UNCHANGED <<lines, wire, history>>
  BY DEF Register
<1>2. /\ peer # NoConn => /\ peer \in Conns /\ peer # c
                          /\ stage[peer] \in Registered /\ stage[peer] # "new"
                          /\ join[peer] = [room |-> j.room, role |-> Opposite(j.role)]
      /\ peer # c
  BY <1>0, <1>1, HandlerOfSlot, GuestsAssumption, ZenonT(60) DEF Registered
<1>3. \A s \in stored : s \in Signals /\ s.about = peer /\ s.n <= lines[s.about]
  BY <1>0, StoredSignals
<1>4. /\ peer = NoConn => Queued(c)' = {To(c, Waiting)}
      /\ peer # NoConn => Queued(c)' = {To(c, Peer(peer)), To(peer, Peer(c))}
                                         \cup {To(c, s) : s \in stored}
      /\ \A i, k \in 1..Len(queue'[c]) : queue'[c][i] = queue'[c][k] => i = k
  <2>1. queue'[c] = RegistrationWrites(c, j)
    BY <1>0, <1>1
  <2>2. QED
    BY <1>2, <2>1, RegistrationQueue DEF Queued
<1>5. /\ \A d \in Conns : Written(d)' = Written(d) /\ wire'[d] = wire[d]
      /\ \A d \in Conns \ {c} : /\ queue'[d] = queue[d] /\ Queued(d)' = Queued(d)
                                /\ stage'[d] = stage[d] /\ join'[d] = join[d]
  BY <1>0, <1>1, SameMembers
<1>6. /\ wire[c] = <<>> /\ Written(c) = {}
      /\ \A d \in Conns : /\ \A w \in Queued(d) : w.to # c /\ w.line.about # c
                          /\ \A l \in Written(d) : l.about # c
  BY <1>0, <1>1, MembersOfShort DEF NewcomersUnknown, Written
<1>7. \A w \in Queued(c)' :
        \/ peer = NoConn /\ w = To(c, Waiting) /\ Queued(c)' = {w}
        \/ peer # NoConn /\ (w = To(c, Peer(peer)) \/ w = To(peer, Peer(c)))
        \/ peer # NoConn /\ \E s \in stored : w = To(c, s)
  BY <1>4
<1> HIDE DEF peer, stored
<1>8. NewcomersUnknown'
  <2> SUFFICES ASSUME NEW d \in Conns, stage'[d] = "new"
               PROVE  /\ wire'[d] = <<>>
                      /\ \A e \in Conns :
                           /\ \A w \in Queued(e)' : w.to # d /\ w.line.about # d
                           /\ \A l \in Written(e)' : l.about # d
    BY DEF NewcomersUnknown
  <2>1. d # c /\ stage[d] = "new"
    BY <1>0, <1>1
  <2>2. peer # d
    BY <1>2, <2>1, GuestsAssumption
  <2>3. \A w \in Queued(c)' : w.to # d /\ w.line.about # d
    BY <1>2, <1>3, <1>7, <2>1, <2>2, LineKinds, GuestsAssumption
  <2>4. /\ wire[d] = <<>>
        /\ \A e \in Conns : /\ \A w \in Queued(e) : w.to # d /\ w.line.about # d
                            /\ \A l \in Written(e) : l.about # d
    BY <1>0, <2>1 DEF NewcomersUnknown
  <2>5. QED
    BY <1>5, <2>3, <2>4
<1>9. WritesFitStage'
  <2> SUFFICES ASSUME NEW d \in Conns, NEW w \in Queued(d)'
               PROVE  /\ stage'[d] = "announcing" => Announcement(d, w)'
                      /\ stage'[d] = "relaying" => Relay(d, w)'
                      /\ stage'[d] \in {"correcting", "rejecting"} => w = To(d, Failure)
    BY DEF WritesFitStage
  <2>1. CASE d = c
    <3>1. stage'[d] = "announcing"
      BY <1>0, <1>1, <2>1
    <3>2. Announcement(c, w)'
      BY <1>2, <1>3, <1>7, <2>1 DEF Announcement
    <3>3. QED
      BY <2>1, <3>1, <3>2
  <2>2. CASE d # c
    <3>1. /\ Announcement(d, w) => Announcement(d, w)'
          /\ Relay(d, w) => Relay(d, w)'
      BY <1>1, <1>5, <2>2 DEF Announcement, Relay
    <3>2. QED
      BY <1>0, <1>5, <2>2, <3>1 DEF WritesFitStage
  <2>3. QED
    BY <2>1, <2>2
<1>10. SignalsWereRead'
  <2>1. \A w \in Queued(c)' : w.line.kind = "SIG" =>
          w.line \in Signals /\ w.line.n <= lines[w.line.about]
    BY <1>2, <1>3, <1>7, LineKinds
  <2>2. QED
    BY <1>0, <1>1, <1>5, <2>1 DEF SignalsWereRead
<1>11. NothingTwice'
  <2>1. \A d \in Conns \ {c} : Queued(d)' \cap Queued(c)' = {}
    <3>1. \A w \in Queued(c)' : w.to = c \/ w.line.about = c
      BY <1>2, <1>7, LineKinds
    <3>2. QED
      BY <1>5, <1>6, <3>1
  <2>2. \A w \in Queued(c)' : w.line # Failure => w.line \notin Written(w.to)'
    <3> SUFFICES ASSUME NEW w \in Queued(c)' PROVE w.line \notin Written(w.to)'
      OBVIOUS
    <3>1. w.to = c \/ (w.to \in Conns /\ w.line.about = c)
      BY <1>2, <1>7, LineKinds
    <3>2. QED
      BY <1>5, <1>6, <3>1
  <2>3. \A d \in Conns \ {c} : \A w \in Queued(d)' :
          w.line # Failure => w.line \notin Written(w.to)'
    BY <1>0, <1>5, MemberTypes DEF NothingTwice
  <2>4. \A d, e \in Conns : d # e => Queued(d)' \cap Queued(e)' = {}
    BY <1>0, <1>5, <2>1 DEF NothingTwice
  <2>5. \A d \in Conns : \A i, k \in 1..Len(queue'[d]) :
          queue'[d][i] = queue'[d][k] => i = k
    BY <1>0, <1>4, <1>5 DEF NothingTwice
  <2>6. \A d \in Conns : \A i, k \in 1..Len(wire'[d]) :
          wire'[d][i] = wire'[d][k] /\ wire'[d][i] # Failure => i = k
    <3>1. wire' = wire
      BY <1>1
    <3>2. QED
      BY <1>0, <3>1, Zenon DEF NothingTwice
  <2>7. QED
    BY <2>2, <2>3, <2>4, <2>5, <2>6 DEF NothingTwice
<1>12. \A d \in Conns \ {c} : CameFirst(d)' <=> CameFirst(d)
  BY <1>5 DEF CameFirst
<1>13. PeersAreTold'
  <2> SUFFICES ASSUME NEW x \in Conns, NEW y \in Conns, Facing(x, y)'
               PROVE  \/ Peer(x) \in Written(y)'
                      \/ To(y, Peer(x)) \in Queued(x)' \cup Queued(y)'
                      \/ stage'[x] = "leaving"
                      \/ stage'[y] = "leaving" /\ ~CameFirst(y)'
    BY DEF PeersAreTold
  <2>1. /\ stage'[x] \in Registered /\ stage'[y] \in Registered
        /\ join'[x].room = join'[y].room /\ join'[x].role = Opposite(join'[y].role)
    BY DEF Facing
  <2>2. CASE x = c
    <3>1. y # c
      BY <1>0, <1>1, <2>1, <2>2, OppositeRole
    <3>2. stage[y] \in Registered /\ join[y].room = j.room
            /\ j.role = Opposite(join[y].role)
      BY <1>0, <1>1, <1>5, <2>1, <2>2, <3>1
    <3>3. slot[join[y].room][join[y].role] = y /\ join[y].role \in Roles
      BY <1>0, <3>2, HolderOfSlot
    <3>4. peer = y
      BY <3>2, <3>3, OppositeRole DEF peer
    <3>5. To(y, Peer(c)) \in Queued(c)'
      BY <1>4, <3>4, GuestsAssumption
    <3>6. QED
      BY <2>2, <3>5
  <2>3. CASE y = c /\ x # c
    <3>1. stage[x] \in Registered /\ join[x].room = j.room
            /\ join[x].role = Opposite(j.role)
      BY <1>0, <1>1, <1>5, <2>1, <2>3
    <3>2. slot[join[x].room][join[x].role] = x
      BY <1>0, <3>1, HolderOfSlot
    <3>3. peer = x
      BY <3>1, <3>2 DEF peer
    <3>4. To(c, Peer(x)) \in Queued(c)'
      BY <1>4, <3>3, GuestsAssumption
    <3>5. QED
      BY <2>3, <3>4
  <2>4. CASE x # c /\ y # c
    <3>1. Facing(x, y)
      BY <1>5, <2>1, <2>4 DEF Facing
    <3>2. QED
      BY <1>0, <1>5, <1>12, <2>4, <3>1 DEF PeersAreTold
  <2>5. QED
    BY <2>2, <2>3, <2>4
<1>14. FirstComers'
  <2>1. \A d \in Conns : Waiting \in Written(d)' => stage'[d] \notin {"new", "announcing"}
    BY <1>0, <1>5, <1>6 DEF FirstComers
  <2>2. \A d, e \in Conns : \A w \in Queued(d)' :
          stage'[d] = "relaying" /\ w.to = e /\ CameFirst(e)' => Peer(d) \in Written(e)'
    <3> SUFFICES ASSUME NEW d \in Conns, NEW e \in Conns, NEW w \in Queued(d)',
                        stage'[d] = "relaying", w.to = e, CameFirst(e)'
                 PROVE  Peer(d) \in Written(e)'
      OBVIOUS
    <3>1. d # c
      BY <1>0, <1>1
    <3>2. e # c /\ w \in Queued(d) /\ stage[d] = "relaying"
      BY <1>5, <1>6, <3>1
    <3>3. QED
      BY <1>0, <1>5, <1>12, <3>2 DEF FirstComers
  <2>3. InOrder(wire[c])
    BY <1>6 DEF InOrder
  <2>4. \A d \in Conns : CameFirst(d)' => InOrder(wire'[d])
    BY <1>0, <1>5, <1>12, <2>3 DEF FirstComers
  <2>5. QED
    BY <2>1, <2>2, <2>4 DEF FirstComers, InOrder
<1>15. QED
  BY <1>8, <1>9, <1>10, <1>11, <1>13, <1>14 DEF Delivery

\* Nobody else's relay reads a history that c changes.
LEMMA OthersHistory ==
  ASSUME Ownership, NEW c \in Conns, stage[c] \in Registered,
         NEW d \in Conns \ {c}, stage[d] \in Registered
  PROVE  join[d].room # join[c].room \/ join[d].role # join[c].role
BY HolderOfSlot

\* The participant opposite c, and the signal its next valid line carries.
Across(c) == slot[join[c].room][Opposite(join[c].role)]
Upcoming(c) == Signal(c, lines[c] + 1)

\* What reading a signal does: it is stored, and queued for whoever is opposite.
LEMMA SignalEffect ==
  ASSUME MapInvariant, NEW c \in Conns, ReadSignal(c)
  PROVE  /\ stage[c] = "reading" /\ stage[c] \in Registered
         /\ join[c] \in Joins /\ join[c].room \in Rooms /\ join[c].role \in Roles
         /\ Opposite(join[c].role) \in Roles /\ slot[join[c].room][join[c].role] = c
         /\ lines[c] + 1 \in 1..MaxLines /\ Upcoming(c) \in Signals
         /\ lines'[c] = lines[c] + 1
         /\ \A d \in Conns : lines[d] \in Nat /\ lines'[d] \in Nat /\ lines[d] <= lines'[d]
         /\ \A d \in Conns \ {c} : lines'[d] = lines[d]
         /\ Across(c) \in Conns \cup {NoConn}
         /\ Across(c) # NoConn =>
              /\ Across(c) # c /\ stage[Across(c)] \in Registered
              /\ join[Across(c)] = [room |-> join[c].room, role |-> Opposite(join[c].role)]
         /\ Queued(c) = {}
         /\ Across(c) = NoConn => Queued(c)' = {} /\ stage'[c] = "reading"
         /\ Across(c) # NoConn => /\ Queued(c)' = {To(Across(c), Upcoming(c))}
                                  /\ stage'[c] = "relaying"
         /\ \A i, k \in 1..Len(queue'[c]) : queue'[c][i] = queue'[c][k] => i = k
         /\ \A d \in Conns : Written(d)' = Written(d)
         /\ \A d \in Conns \ {c} : /\ queue'[d] = queue[d] /\ Queued(d)' = Queued(d)
                                   /\ stage'[d] = stage[d]
         /\ \A r \in Rooms, role \in Roles : r # join[c].room \/ role # join[c].role =>
              history'[r][role] = history[r][role]
         /\ history[join[c].room][join[c].role] \in Seq(Signals)
         /\ history'[join[c].room][join[c].role] =
              Append(history[join[c].room][join[c].role], Upcoming(c))
         /\ UNCHANGED <<join, wire>>
<1> DEFINE j == join[c]
           peer == Across(c)
           s == Upcoming(c)
<1>0. /\ TypeOK /\ Ownership /\ RoomsInUse
      /\ stage \in [Conns -> Stages] /\ queue \in [Conns -> Seq(Writes)]
      /\ lines \in [Conns -> 0..MaxLines]
      /\ history \in [Rooms -> [Roles -> Seq(Signals)]]
      /\ slot \in [Rooms -> [Roles -> Conns \cup {NoConn}]]
  BY DEF MapInvariant, Ownership, TypeOK
<1>1. stage[c] = "reading" /\ stage[c] \in Registered
  BY DEF ReadSignal, Registered
<1>2. /\ j \in Joins /\ j.room \in Rooms /\ j.role \in Roles
      /\ Opposite(j.role) \in Roles /\ slot[j.room][j.role] = c
      /\ j.room \in open
  BY <1>0, <1>1, HolderOfSlot, OppositeRole, GuestsAssumption DEF RoomsInUse
<1>3. /\ lines' = [lines EXCEPT ![c] = @ + 1] /\ lines[c] < MaxLines
      /\ history' = [history EXCEPT ![j.room][j.role] = Append(@, s)]
      /\ queue' = [queue EXCEPT ![c] = RelayWrites(j, s)]
      /\ stage' = [stage EXCEPT ![c] = IF RelayWrites(j, s) = <<>> THEN "reading"
                                       ELSE "relaying"]
      /\ UNCHANGED <<join, wire>>
  BY <1>2 DEF ReadSignal, Upcoming
<1>4. /\ lines[c] + 1 \in 1..MaxLines /\ s \in Signals /\ lines'[c] = lines[c] + 1
      /\ \A d \in Conns : lines[d] \in Nat /\ lines'[d] \in Nat /\ lines[d] <= lines'[d]
      /\ \A d \in Conns \ {c} : lines'[d] = lines[d]
  BY <1>0, <1>3, LineTypes, MaxLinesAssumption DEF Upcoming
<1>5. /\ peer \in Conns \cup {NoConn}
      /\ peer # NoConn => peer # c /\ stage[peer] \in Registered
                            /\ join[peer] = [room |-> j.room, role |-> Opposite(j.role)]
  <2>1. peer \in Conns \cup {NoConn}
    BY <1>0, <1>2 DEF Across
  <2>2. peer # NoConn => stage[peer] \in Registered
                            /\ join[peer] = [room |-> j.room, role |-> Opposite(j.role)]
    BY <1>0, <1>2, HandlerOfSlot DEF Across
  <2>3. peer # NoConn => peer # c
    BY <1>2, <2>2, OppositeRole
  <2>4. QED
    BY <2>1, <2>2, <2>3
<1>6. /\ Queued(c) = {}
      /\ peer = NoConn => Queued(c)' = {} /\ stage'[c] = "reading"
      /\ peer # NoConn => Queued(c)' = {To(peer, s)} /\ stage'[c] = "relaying"
      /\ \A i, k \in 1..Len(queue'[c]) : queue'[c][i] = queue'[c][k] => i = k
  <2>1. Queued(c) = {}
    BY <1>0, <1>1, MemberTypes DEF Writing
  <2>2. queue'[c] = RelayWrites(j, s)
    BY <1>0, <1>3
  <2>3. /\ peer = NoConn => RelayWrites(j, s) = <<>>
        /\ peer # NoConn => RelayWrites(j, s) = <<To(peer, s)>>
    BY DEF RelayWrites, Across
  <2> HIDE DEF peer, j, s
  <2>4. \A i, k \in 1..Len(queue'[c]) : queue'[c][i] = queue'[c][k] => i = k
    BY <2>2, <2>3
  <2>5. stage'[c] = IF RelayWrites(j, s) = <<>> THEN "reading" ELSE "relaying"
    BY <1>0, <1>3
  <2>6. Queued(c)' = SeqToSet(RelayWrites(j, s))
    BY <2>2 DEF Queued
  <2>7. <<To(peer, s)>> # <<>>
    OBVIOUS
  <2>8. QED
    BY <2>1, <2>3, <2>4, <2>5, <2>6, <2>7, MembersOfShort
<1>7. /\ \A d \in Conns : Written(d)' = Written(d)
      /\ \A d \in Conns \ {c} : /\ queue'[d] = queue[d] /\ Queued(d)' = Queued(d)
                                /\ stage'[d] = stage[d]
  BY <1>0, <1>3, SameMembers
<1>8. /\ \A r \in Rooms, role \in Roles : r # j.room \/ role # j.role =>
           history'[r][role] = history[r][role]
      /\ history[j.room][j.role] \in Seq(Signals)
      /\ history'[j.room][j.role] = Append(history[j.room][j.role], s)
  <2>1. /\ history[j.room][j.role] \in Seq(Signals)
        /\ Append(history[j.room][j.role], s) \in Seq(Signals)
    BY <1>0, <1>2, <1>4, AppendProperties
  <2>2. \A r \in Rooms, role \in Roles :
          history'[r][role] = IF r = j.room /\ role = j.role
                              THEN Append(history[j.room][j.role], s)
                              ELSE history[r][role]
    <3> HIDE DEF j, s
    <3> QED BY <1>0, <1>2, <1>3, <2>1, CellUpdate, SMTT(30)
  <2>3. QED
    BY <1>2, <2>1, <2>2
<1>9. QED
  BY <1>1, <1>2, <1>3, <1>4, <1>5, <1>6, <1>7, <1>8

\* A signal that is read is new: its number is higher than any in transit.
LEMMA SignalStep ==
  ASSUME MapInvariant, Delivery, NEW c \in Conns, ReadSignal(c)
  PROVE  Delivery'
<1> DEFINE j == join[c]
           peer == Across(c)
           s == Upcoming(c)
<1>0. /\ TypeOK /\ Ownership
      /\ NewcomersUnknown /\ WritesFitStage /\ SignalsWereRead /\ NothingTwice
      /\ PeersAreTold /\ FirstComers
  BY DEF MapInvariant, Ownership, Delivery
<1>1. stage[c] = "reading" /\ stage[c] \in Registered
  BY SignalEffect
<1>2. /\ j \in Joins /\ j.room \in Rooms /\ j.role \in Roles
      /\ Opposite(j.role) \in Roles /\ slot[j.room][j.role] = c
  BY SignalEffect
<1>3. UNCHANGED <<join, wire>>
  BY SignalEffect
<1>4. /\ lines[c] + 1 \in 1..MaxLines /\ s \in Signals /\ lines'[c] = lines[c] + 1
      /\ \A d \in Conns : lines[d] \in Nat /\ lines'[d] \in Nat /\ lines[d] <= lines'[d]
      /\ \A d \in Conns \ {c} : lines'[d] = lines[d]
      /\ s = Signal(c, lines[c] + 1)
  BY SignalEffect DEF Upcoming
<1>5. /\ peer \in Conns \cup {NoConn}
      /\ peer # NoConn => peer # c /\ stage[peer] \in Registered
                            /\ join[peer] = [room |-> j.room, role |-> Opposite(j.role)]
  BY SignalEffect
<1>6. /\ Queued(c) = {}
      /\ peer = NoConn => Queued(c)' = {} /\ stage'[c] = "reading"
      /\ peer # NoConn => Queued(c)' = {To(peer, s)} /\ stage'[c] = "relaying"
      /\ \A i, k \in 1..Len(queue'[c]) : queue'[c][i] = queue'[c][k] => i = k
  BY SignalEffect
<1>7. /\ \A d \in Conns : Written(d)' = Written(d)
      /\ \A d \in Conns \ {c} : /\ queue'[d] = queue[d] /\ Queued(d)' = Queued(d)
                                /\ stage'[d] = stage[d]
  BY SignalEffect
<1>8. /\ \A r \in Rooms, role \in Roles : r # j.room \/ role # j.role =>
           history'[r][role] = history[r][role]
      /\ s \in SeqToSet(history'[j.room][j.role])
  <2> HIDE DEF s
  <2>1. /\ history[j.room][j.role] \in Seq(Signals)
        /\ history'[j.room][j.role] = Append(history[j.room][j.role], s)
    BY SignalEffect DEF s
  <2>2. SeqToSet(Append(history[j.room][j.role], s)) = SeqToSet(history[j.room][j.role]) \cup {s}
    <3>1. s \in Signals
      BY <1>4
    <3>2. QED
      BY <2>1, <3>1, MembersOfAppend
  <2>3. \A r \in Rooms, role \in Roles : r # j.room \/ role # j.role =>
          history'[r][role] = history[r][role]
    BY SignalEffect
  <2>4. QED
    BY <2>1, <2>2, <2>3
<1> HIDE DEF peer, s
<1>9. \A d \in Conns : /\ \A w \in Queued(d) : w.line # s
                       /\ s \notin Written(d)
  <2>1. s.kind = "SIG" /\ s.about = c /\ s.n = lines[c] + 1 /\ ~(s.n <= lines[c])
    BY <1>4, LineKinds
  <2>2. QED
    BY <1>0, <2>1 DEF SignalsWereRead
<1>10. s.kind = "SIG" /\ s.about = c /\ s.n = lines'[c] /\ s = Signal(c, lines'[c])
  BY <1>4, LineKinds
<1>11. NewcomersUnknown'
  <2> SUFFICES ASSUME NEW d \in Conns, stage'[d] = "new"
               PROVE  /\ wire'[d] = <<>>
                      /\ \A e \in Conns :
                           /\ \A w \in Queued(e)' : w.to # d /\ w.line.about # d
                           /\ \A l \in Written(e)' : l.about # d
    BY DEF NewcomersUnknown
  <2>1. d # c /\ stage[d] = "new"
    BY <1>6, <1>7
  <2>2. peer # d
    BY <1>5, <2>1, GuestsAssumption DEF Registered
  <2>3. \A w \in Queued(c)' : w.to # d /\ w.line.about # d
    BY <1>5, <1>6, <1>10, <2>1, <2>2, LineKinds
  <2>4. /\ wire[d] = <<>>
        /\ \A e \in Conns : /\ \A w \in Queued(e) : w.to # d /\ w.line.about # d
                            /\ \A l \in Written(e) : l.about # d
    BY <1>0, <2>1 DEF NewcomersUnknown
  <2>5. QED
    BY <1>3, <1>7, <2>3, <2>4
<1>12. WritesFitStage'
  <2> SUFFICES ASSUME NEW d \in Conns, NEW w \in Queued(d)'
               PROVE  /\ stage'[d] = "announcing" => Announcement(d, w)'
                      /\ stage'[d] = "relaying" => Relay(d, w)'
                      /\ stage'[d] \in {"correcting", "rejecting"} => w = To(d, Failure)
    BY DEF WritesFitStage
  <2>1. CASE d = c
    <3>1. peer # NoConn /\ w = To(peer, s) /\ Queued(c)' = {w} /\ stage'[c] = "relaying"
      BY <1>6, <2>1
    <3>2. Relay(c, w)'
      BY <1>3, <1>4, <1>5, <1>8, <1>10, <3>1 DEF Relay
    <3>3. QED
      BY <2>1, <3>1, <3>2
  <2>2. CASE d # c
    <3>1. Announcement(d, w) => Announcement(d, w)'
      BY <1>7, <2>2 DEF Announcement
    <3>2. ASSUME stage[d] = "relaying", Relay(d, w) PROVE Relay(d, w)'
      <4>1. stage[d] \in Registered
        BY <3>2 DEF Registered
      <4>2. /\ join[d].room \in Rooms /\ join[d].role \in Roles
            /\ join[d].room # j.room \/ join[d].role # j.role
        BY <1>0, <1>1, <2>2, <4>1, HolderOfSlot, OthersHistory
      <4>3. history'[join[d].room][join[d].role] = history[join[d].room][join[d].role]
        BY <1>8, <4>2
      <4>4. QED
        BY <1>3, <1>4, <1>7, <2>2, <3>2, <4>3 DEF Relay
    <3>3. QED
      BY <1>0, <1>7, <2>2, <3>1, <3>2 DEF WritesFitStage
  <2>3. QED
    BY <2>1, <2>2
<1>13. SignalsWereRead'
  <2>1. \A l \in Signals : l.n <= lines[l.about] => l.n <= lines'[l.about]
    BY <1>4, LineKinds
  <2>2. \A w \in Queued(c)' : w.line \in Signals /\ w.line.n <= lines'[w.line.about]
    <3>1. \A w \in Queued(c)' : w.line = s
      BY <1>5, <1>6, LineKinds
    <3>2. s \in Signals /\ s.n <= lines'[s.about]
      BY <1>4, <1>10
    <3>3. QED
      BY <3>1, <3>2
  <2>3. QED
    BY <1>0, <1>7, <2>1, <2>2 DEF SignalsWereRead
<1>14. NothingTwice'
  <2>1. \A d \in Conns \ {c} : Queued(d)' \cap Queued(c)' = {}
    BY <1>5, <1>6, <1>7, <1>9, LineKinds
  <2>2. \A w \in Queued(c)' : w.line # Failure => w.line \notin Written(w.to)'
    BY <1>5, <1>6, <1>7, <1>9, LineKinds
  <2>3. \A d \in Conns \ {c} : \A w \in Queued(d)' :
          w.line # Failure => w.line \notin Written(w.to)'
    BY <1>0, <1>7, MemberTypes DEF NothingTwice
  <2>4. \A d, e \in Conns : d # e => Queued(d)' \cap Queued(e)' = {}
    BY <1>0, <1>7, <2>1 DEF NothingTwice
  <2>5. \A d \in Conns : \A i, k \in 1..Len(queue'[d]) :
          queue'[d][i] = queue'[d][k] => i = k
    BY <1>0, <1>6, <1>7 DEF NothingTwice
  <2>6. \A d \in Conns : \A i, k \in 1..Len(wire'[d]) :
          wire'[d][i] = wire'[d][k] /\ wire'[d][i] # Failure => i = k
    <3>1. wire' = wire
      BY <1>3
    <3>2. QED
      BY <1>0, <3>1, Zenon DEF NothingTwice
  <2>7. QED
    BY <2>2, <2>3, <2>4, <2>5, <2>6 DEF NothingTwice
<1>15. \A d \in Conns : CameFirst(d)' <=> CameFirst(d)
  <2>1. To(c, Waiting) \notin Queued(c)'
    BY <1>4, <1>5, <1>6, LineKinds
  <2>2. QED
    BY <1>6, <1>7, <2>1 DEF CameFirst
<1>16. PeersAreTold'
  <2>1. \A x, y \in Conns : Facing(x, y)' => Facing(x, y)
    BY <1>1, <1>3, <1>7 DEF Facing
  <2>2. \A d \in Conns : stage[d] = "leaving" => stage'[d] = "leaving"
    BY <1>1, <1>7
  <2>3. \A d \in Conns : Queued(d) \subseteq Queued(d)'
    BY <1>6, <1>7
  <2>4. QED
    BY <1>0, <1>7, <1>15, <2>1, <2>2, <2>3 DEF PeersAreTold
<1>17. FirstComers'
  <2>1. \A d \in Conns : Waiting \in Written(d)' => stage'[d] \notin {"new", "announcing"}
    BY <1>0, <1>6, <1>7, <1>5 DEF FirstComers
  <2>2. \A d, e \in Conns : \A w \in Queued(d)' :
          stage'[d] = "relaying" /\ w.to = e /\ CameFirst(e)' => Peer(d) \in Written(e)'
    <3> SUFFICES ASSUME NEW d \in Conns, NEW e \in Conns, NEW w \in Queued(d)',
                        stage'[d] = "relaying", w.to = e, CameFirst(e)
                 PROVE  Peer(d) \in Written(e)
      BY <1>7, <1>15
    <3>1. CASE d = c
      <4>1. peer = e /\ peer # NoConn
        BY <1>5, <1>6, <3>1, LineKinds
      <4>2. Facing(c, e)
        BY <1>1, <1>2, <1>5, <4>1, OppositeRole DEF Facing
      <4>3. ~(stage[c] = "leaving") /\ To(e, Peer(c)) \notin Queued(c)
        BY <1>1, <1>6
      <4>4. To(e, Peer(c)) \notin Queued(e)
        <5> SUFFICES ASSUME To(e, Peer(c)) \in Queued(e) PROVE FALSE
          OBVIOUS
        <5>1. Queued(e) = {To(e, Waiting)}
          BY <1>0, PeerIsAnnounced, FirstComerWaits
        <5>2. QED
          BY <5>1, LineKinds
      <4>5. QED
        BY <1>0, <3>1, <4>2, <4>3, <4>4 DEF PeersAreTold
    <3>2. CASE d # c
      BY <1>0, <1>7, <3>2 DEF FirstComers
    <3>3. QED
      BY <3>1, <3>2
  <2>3. \A d \in Conns : CameFirst(d)' => InOrder(wire'[d])
    BY <1>0, <1>3, <1>15 DEF FirstComers
  <2>4. QED
    BY <2>1, <2>2, <2>3 DEF FirstComers, InOrder
<1>18. QED
  BY <1>11, <1>12, <1>13, <1>14, <1>16, <1>17 DEF Delivery

\* A handler whose write fails drops the rest and is on its way out.
LEMMA FailStep ==
  ASSUME TypeOK, Delivery, NEW c \in Conns, FailWrite(c)
  PROVE  Delivery'
<1> USE DEF Delivery
<1>0. /\ stage \in [Conns -> Stages] /\ queue \in [Conns -> Seq(Writes)]
  BY DEF TypeOK
<1>1. /\ stage[c] \in Writing
      /\ queue' = [queue EXCEPT ![c] = <<>>]
      /\ stage' = [stage EXCEPT ![c] = AfterFailedWrite(@)]
      /\ UNCHANGED <<join, lines, wire, history>>
  BY DEF FailWrite, rooms
<1>2. /\ stage'[c] = IF stage[c] = "rejecting" THEN "done" ELSE "leaving"
      /\ \A d \in Conns \ {c} : stage'[d] = stage[d] /\ queue'[d] = queue[d]
      /\ queue'[c] = <<>>
  BY <1>0, <1>1 DEF AfterFailedWrite
<1>3. /\ \A d \in Conns : Written(d)' = Written(d)
      /\ \A d \in Conns \ {c} : Queued(d)' = Queued(d)
      /\ Queued(c)' = {}
  BY <1>1, <1>2, SameMembers, MembersOfShort DEF Queued
<1>4. \A d \in Conns : CameFirst(d)' => CameFirst(d)
  BY <1>3 DEF CameFirst
<1>5. NewcomersUnknown'
  BY <1>1, <1>2, <1>3 DEF NewcomersUnknown
<1>6. WritesFitStage'
  <2> SUFFICES ASSUME NEW d \in Conns, d # c, NEW w \in Queued(d)
               PROVE  /\ Announcement(d, w) => Announcement(d, w)'
                      /\ Relay(d, w) => Relay(d, w)'
    BY <1>2, <1>3 DEF WritesFitStage
  <2>1. QED
    BY <1>1, <1>3 DEF Announcement, Relay
<1>7. SignalsWereRead'
  BY <1>1, <1>3 DEF SignalsWereRead
<1>8. NothingTwice'
  <2>1. \A d, e \in Conns : d # e => Queued(d)' \cap Queued(e)' = {}
    BY <1>3 DEF NothingTwice
  <2>2. \A d \in Conns : \A w \in Queued(d)' : w.line # Failure => w.line \notin Written(w.to)'
    BY <1>3, MemberTypes DEF NothingTwice
  <2>3. \A d \in Conns : \A i, k \in 1..Len(queue'[d]) : queue'[d][i] = queue'[d][k] => i = k
    BY <1>2 DEF NothingTwice
  <2>4. \A d \in Conns : \A i, k \in 1..Len(wire'[d]) :
          wire'[d][i] = wire'[d][k] /\ wire'[d][i] # Failure => i = k
    <3>1. wire' = wire
      BY <1>1
    <3>2. QED
      BY <3>1, Zenon DEF NothingTwice
  <2>5. QED
    BY <2>1, <2>2, <2>3, <2>4 DEF NothingTwice
<1>9. PeersAreTold'
  <2> SUFFICES ASSUME NEW x \in Conns, NEW y \in Conns, Facing(x, y)'
               PROVE  \/ Peer(x) \in Written(y)'
                      \/ To(y, Peer(x)) \in Queued(x)' \cup Queued(y)'
                      \/ stage'[x] = "leaving"
                      \/ stage'[y] = "leaving" /\ ~CameFirst(y)'
    BY DEF PeersAreTold
  <2>1. Facing(x, y)
    BY <1>1, <1>2 DEF Facing, Registered, Writing
  <2>2. \/ Peer(x) \in Written(y)
        \/ To(y, Peer(x)) \in Queued(x) \cup Queued(y)
        \/ stage[x] = "leaving"
        \/ stage[y] = "leaving" /\ ~CameFirst(y)
    BY <2>1 DEF PeersAreTold
  <2>3. CASE x = c
    BY <1>2, <2>3 DEF Facing, Registered
  <2>4. CASE y = c /\ x # c
    <3>1. stage'[c] = "leaving"
      BY <1>2, <2>4 DEF Facing, Registered
    <3>2. ASSUME To(c, Peer(x)) \in Queued(c) PROVE ~CameFirst(c)'
      <4>1. stage[c] = "announcing"
        BY <3>2, PeerIsAnnounced
      <4>2. QED
        BY <1>3, <4>1 DEF FirstComers, CameFirst
    <3>3. QED
      BY <1>1, <1>2, <1>3, <2>2, <2>4, <3>1, <3>2 DEF Writing
  <2>5. CASE x # c /\ y # c
    BY <1>2, <1>3, <1>4, <2>2, <2>5
  <2>6. QED
    BY <2>3, <2>4, <2>5
<1>10. FirstComers'
  <2>1. \A d \in Conns : Waiting \in Written(d)' => stage'[d] \notin {"new", "announcing"}
    BY <1>2, <1>3 DEF FirstComers
  <2>2. \A d, e \in Conns : \A w \in Queued(d)' :
          stage'[d] = "relaying" /\ w.to = e /\ CameFirst(e)' => Peer(d) \in Written(e)'
    BY <1>2, <1>3, <1>4 DEF FirstComers
  <2>3. \A d \in Conns : CameFirst(d)' => InOrder(wire'[d])
    BY <1>1, <1>4 DEF FirstComers
  <2>4. QED
    BY <2>1, <2>2, <2>3 DEF FirstComers, InOrder
<1>11. QED
  BY <1>5, <1>6, <1>7, <1>8, <1>9, <1>10

\* A wire in order stays so when a line is appended that is no signal and about
\* nobody who has sent one, or a signal after its sender's PEER line and with a
\* higher number than that sender's signals so far.
LEMMA InOrderAppend ==
  ASSUME NEW seq \in Seq(Lines), NEW l \in Lines, InOrder(seq),
         \A i \in 1..Len(seq) : seq[i].kind = "SIG" /\ seq[i].about = l.about =>
           l.kind = "SIG" /\ seq[i].n < l.n,
         l.kind = "SIG" => Peer(l.about) \in SeqToSet(seq)
  PROVE  InOrder(Append(seq, l))
<1> DEFINE grown == Append(seq, l)
<1>1. /\ Len(seq) \in Nat /\ Len(grown) = Len(seq) + 1
      /\ \A i \in 1..Len(seq) : grown[i] = seq[i]
      /\ grown[Len(seq) + 1] = l
  BY AppendProperties, LenProperties
<1> HIDE DEF grown
<1> SUFFICES ASSUME NEW i \in 1..Len(grown), grown[i].kind = "SIG"
             PROVE  /\ \E k \in 1..(i - 1) : grown[k] = Peer(grown[i].about)
                    /\ \A k \in (i + 1)..Len(grown) :
                         grown[k].about = grown[i].about =>
                           grown[k].kind = "SIG" /\ grown[i].n < grown[k].n
  BY DEF InOrder, grown
<1>2. CASE i = Len(seq) + 1
  <2>1. PICK k \in 1..Len(seq) : seq[k] = Peer(l.about)
    BY <1>1, <1>2 DEF SeqToSet
  <2>2. k \in 1..(i - 1) /\ grown[k] = Peer(grown[i].about)
    BY <1>1, <1>2, <2>1
  <2>3. (i + 1)..Len(grown) = {}
    BY <1>1, <1>2
  <2>4. QED
    BY <2>2, <2>3
<1>3. CASE i \in 1..Len(seq)
  <2>1. /\ grown[i] = seq[i]
        /\ \E k \in 1..(i - 1) : seq[k] = Peer(seq[i].about)
        /\ \A k \in (i + 1)..Len(seq) :
             seq[k].about = seq[i].about => seq[k].kind = "SIG" /\ seq[i].n < seq[k].n
    BY <1>1, <1>3 DEF InOrder
  <2>2. \E k \in 1..(i - 1) : grown[k] = Peer(grown[i].about)
    <3>1. PICK k \in 1..(i - 1) : seq[k] = Peer(seq[i].about)
      BY <2>1
    <3>2. k \in 1..Len(seq)
      BY <1>1, <1>3
    <3>3. QED
      BY <1>1, <2>1, <3>1, <3>2
  <2>3. ASSUME NEW k \in (i + 1)..Len(grown), grown[k].about = grown[i].about
        PROVE  grown[k].kind = "SIG" /\ grown[i].n < grown[k].n
    <3>1. CASE k = Len(seq) + 1
      BY <1>1, <1>3, <2>1, <2>3, <3>1
    <3>2. CASE k # Len(seq) + 1
      <4>1. k \in (i + 1)..Len(seq) /\ k \in 1..Len(seq)
        BY <1>1, <1>3, <3>2
      <4>2. QED
        BY <1>1, <2>1, <2>3, <4>1
    <3>3. QED
      BY <3>1, <3>2
  <2>4. QED
    BY <2>2, <2>3
<1>4. QED
  BY <1>1, <1>2, <1>3

\* A line that is written was queued once and is queued no more.
LEMMA WriteEffect ==
  ASSUME TypeOK, NothingTwice, NEW c \in Conns, WriteLine(c),
         NEW w, w = Head(queue[c])
  PROVE  /\ w \in Queued(c) /\ w \in Writes /\ w = To(w.to, w.line)
         /\ w.to \in Conns /\ w.line \in Lines
         /\ Queued(c)' = Queued(c) \ {w}
         /\ \A d \in Conns \ {c} : Queued(d)' = Queued(d) /\ queue'[d] = queue[d]
         /\ \A i, k \in 1..Len(queue'[c]) : queue'[c][i] = queue'[c][k] => i = k
         /\ wire'[w.to] = Append(wire[w.to], w.line)
         /\ Written(w.to)' = Written(w.to) \cup {w.line}
         /\ \A d \in Conns \ {w.to} : Written(d)' = Written(d) /\ wire'[d] = wire[d]
         /\ stage[c] \in Writing
         /\ stage'[c] = IF Queued(c)' # {} THEN stage[c]
                        ELSE IF stage[c] = "rejecting" THEN "done" ELSE "reading"
         /\ \A d \in Conns \ {c} : stage'[d] = stage[d]
         /\ UNCHANGED <<join, lines, history>>
<1>0. /\ stage \in [Conns -> Stages] /\ queue \in [Conns -> Seq(Writes)]
      /\ wire \in [Conns -> Seq(Lines)]
  BY DEF TypeOK
<1>1. /\ stage[c] \in Writing
      /\ wire' = [wire EXCEPT ![w.to] = Append(@, w.line)]
      /\ queue' = [queue EXCEPT ![c] = Tail(@)]
      /\ stage' = [stage EXCEPT ![c] = IF Tail(queue[c]) = <<>> THEN AfterLastWrite(@)
                                       ELSE @]
      /\ UNCHANGED <<join, lines, history>>
  BY DEF WriteLine, rooms
<1>2. queue[c] \in Seq(Writes) /\ queue[c] # <<>>
  BY <1>0, <1>1 DEF TypeOK
<1>3. /\ w \in Queued(c)
      /\ SeqToSet(Tail(queue[c])) = Queued(c) \ {w}
      /\ \A i, k \in 1..Len(Tail(queue[c])) : Tail(queue[c])[i] = Tail(queue[c])[k] => i = k
  BY <1>2, MembersOfTail DEF Queued, NothingTwice
<1>4. w \in Writes /\ w = To(w.to, w.line) /\ w.to \in Conns /\ w.line \in Lines
  <2>1. w \in Writes
    BY <1>2, HeadTailProperties
  <2>2. QED
    BY <2>1 DEF Writes, To
<1>5. /\ queue'[c] = Tail(queue[c])
      /\ \A d \in Conns \ {c} : queue'[d] = queue[d] /\ stage'[d] = stage[d]
  BY <1>0, <1>1
<1>6. Queued(c)' = Queued(c) \ {w}
  BY <1>3, <1>5 DEF Queued
<1>7. stage'[c] = IF Queued(c)' # {} THEN stage[c]
                  ELSE IF stage[c] = "rejecting" THEN "done" ELSE "reading"
  <2>1. Tail(queue[c]) \in Seq(Writes)
    BY <1>2, HeadTailProperties
  <2>2. Tail(queue[c]) = <<>> <=> Queued(c)' = {}
    BY <1>3, <1>6, <2>1, MembersOfEmpty
  <2>3. QED
    BY <1>0, <1>1, <2>2 DEF AfterLastWrite
<1>8. /\ wire'[w.to] = Append(wire[w.to], w.line)
      /\ \A d \in Conns \ {w.to} : wire'[d] = wire[d]
  BY <1>0, <1>1, <1>4
<1>9. Written(w.to)' = Written(w.to) \cup {w.line}
  <2>1. SeqToSet(Append(wire[w.to], w.line)) = SeqToSet(wire[w.to]) \cup {w.line}
    BY <1>0, <1>4, MembersOfAppend
  <2>2. QED
    BY <1>8, <2>1 DEF Written
<1>10. /\ \A d \in Conns \ {c} : Queued(d)' = Queued(d)
       /\ \A d \in Conns \ {w.to} : Written(d)' = Written(d)
  BY <1>5, <1>8, SameMembers
<1>11. \A i, k \in 1..Len(queue'[c]) : queue'[c][i] = queue'[c][k] => i = k
  BY <1>3, <1>5
<1>12. QED
  BY <1>1, <1>3, <1>4, <1>5, <1>6, <1>7, <1>8, <1>9, <1>10, <1>11

\* A written line: it moves from the one queue it is in to a wire it is not on.
LEMMA WriteStep ==
  ASSUME TypeOK, Delivery, NEW c \in Conns, WriteLine(c)
  PROVE  Delivery'
<1> USE DEF Delivery
<1>0. PICK w : w = Head(queue[c])
  OBVIOUS
<1>1. /\ w \in Queued(c) /\ w \in Writes /\ w = To(w.to, w.line)
      /\ w.to \in Conns /\ w.line \in Lines
      /\ Queued(c)' = Queued(c) \ {w}
      /\ \A d \in Conns \ {c} : Queued(d)' = Queued(d) /\ queue'[d] = queue[d]
      /\ \A i, k \in 1..Len(queue'[c]) : queue'[c][i] = queue'[c][k] => i = k
      /\ wire'[w.to] = Append(wire[w.to], w.line)
      /\ Written(w.to)' = Written(w.to) \cup {w.line}
      /\ \A d \in Conns \ {w.to} : Written(d)' = Written(d) /\ wire'[d] = wire[d]
      /\ stage[c] \in Writing
      /\ stage'[c] = IF Queued(c)' # {} THEN stage[c]
                     ELSE IF stage[c] = "rejecting" THEN "done" ELSE "reading"
      /\ \A d \in Conns \ {c} : stage'[d] = stage[d]
      /\ UNCHANGED <<join, lines, history>>
  BY <1>0, WriteEffect, ZenonT(60)
<1>2. \A d \in Conns : Queued(d)' \subseteq Queued(d) /\ Written(d) \subseteq Written(d)'
  BY <1>1
<1>3. /\ stage[c] = "announcing" => Announcement(c, w)
      /\ stage[c] = "relaying" => Relay(c, w)
      /\ stage[c] \in {"correcting", "rejecting"} => w = To(c, Failure)
  BY <1>1 DEF WritesFitStage
<1>4. NewcomersUnknown'
  <2> SUFFICES ASSUME NEW d \in Conns, stage'[d] = "new"
               PROVE  /\ wire'[d] = <<>>
                      /\ \A e \in Conns :
                           /\ \A v \in Queued(e)' : v.to # d /\ v.line.about # d
                           /\ \A l \in Written(e)' : l.about # d
    BY DEF NewcomersUnknown
  <2>1. stage[d] = "new"
    BY <1>1 DEF Writing
  <2>2. /\ wire[d] = <<>>
        /\ \A e \in Conns : /\ \A v \in Queued(e) : v.to # d /\ v.line.about # d
                            /\ \A l \in Written(e) : l.about # d
    BY <2>1 DEF NewcomersUnknown
  <2>3. w.to # d /\ w.line.about # d
    BY <1>1, <2>2
  <2>4. QED
    BY <1>1, <1>2, <2>2, <2>3
<1>5. WritesFitStage'
  <2> SUFFICES ASSUME NEW d \in Conns, NEW v \in Queued(d)'
               PROVE  /\ stage'[d] = "announcing" => Announcement(d, v)'
                      /\ stage'[d] = "relaying" => Relay(d, v)'
                      /\ stage'[d] \in {"correcting", "rejecting"} => v = To(d, Failure)
    BY DEF WritesFitStage
  <2>1. v \in Queued(d) /\ stage'[d] = stage[d]
    BY <1>1, <1>2
  <2>2. /\ stage[d] = "announcing" => Announcement(d, v)
        /\ stage[d] = "relaying" => Relay(d, v)
        /\ stage[d] \in {"correcting", "rejecting"} => v = To(d, Failure)
    BY <2>1 DEF WritesFitStage
  <2>3. CASE d = c
    <3>1. v # w /\ Queued(d) # {v}
      BY <1>1, <2>3
    <3>2. Announcement(d, v) => Announcement(d, v)'
      BY <3>1 DEF Announcement
    <3>3. ~Relay(d, v)
      BY <3>1 DEF Relay
    <3>4. QED
      BY <2>1, <2>2, <3>2, <3>3
  <2>4. CASE d # c
    <3>1. /\ Announcement(d, v) => Announcement(d, v)'
          /\ Relay(d, v) => Relay(d, v)'
      BY <1>1, <2>4 DEF Announcement, Relay
    <3>2. QED
      BY <2>1, <2>2, <3>1
  <2>5. QED
    BY <2>3, <2>4
<1>6. SignalsWereRead'
  <2>1. w.line.kind = "SIG" => w.line \in Signals /\ w.line.n <= lines[w.line.about]
    BY <1>1 DEF SignalsWereRead
  <2>2. QED
    BY <1>1, <1>2, <2>1 DEF SignalsWereRead
<1>7. w.line # Failure => w.line \notin Written(w.to)
  BY <1>1 DEF NothingTwice
<1>8. NothingTwice'
  <2>1. \A d, e \in Conns : d # e => Queued(d)' \cap Queued(e)' = {}
    BY <1>2 DEF NothingTwice
  <2>2. \A d \in Conns : \A v \in Queued(d)' : v.line # Failure => v.line \notin Written(v.to)'
    <3> SUFFICES ASSUME NEW d \in Conns, NEW v \in Queued(d)', v.line # Failure
                 PROVE  v.line \notin Written(v.to)'
      OBVIOUS
    <3>1. v \in Queued(d) /\ v \in Writes /\ v.to \in Conns /\ v.line \notin Written(v.to)
      BY <1>2, MemberTypes DEF NothingTwice
    <3>2. v # w
      BY <1>1, <3>1 DEF NothingTwice
    <3>3. v.to = w.to => v.line # w.line
      <4>1. v = To(v.to, v.line)
        BY <3>1 DEF Writes, To
      <4>2. QED
        BY <1>1, <3>2, <4>1
    <3>4. QED
      BY <1>1, <3>1, <3>3
  <2>3. \A d \in Conns : \A i, k \in 1..Len(queue'[d]) : queue'[d][i] = queue'[d][k] => i = k
    BY <1>1 DEF NothingTwice
  <2>4. \A d \in Conns : \A i, k \in 1..Len(wire'[d]) :
          wire'[d][i] = wire'[d][k] /\ wire'[d][i] # Failure => i = k
    <3> SUFFICES ASSUME NEW d \in Conns, NEW i \in 1..Len(wire'[d]), NEW k \in 1..Len(wire'[d]),
                        wire'[d][i] = wire'[d][k], wire'[d][i] # Failure
                 PROVE  i = k
      OBVIOUS
    <3>1. CASE d # w.to
      BY <1>1, <3>1 DEF NothingTwice
    <3>2. CASE d = w.to
      <4> DEFINE old == wire[d]
                 new == wire'[d]
      <4>1. /\ old \in Seq(Lines) /\ new = Append(old, w.line)
        BY <1>1, <3>2 DEF TypeOK
      <4>2. /\ Len(old) \in Nat /\ Len(new) = Len(old) + 1
            /\ \A m \in 1..Len(old) : new[m] = old[m]
            /\ new[Len(old) + 1] = w.line
        BY <1>1, <4>1, AppendProperties, LenProperties
      <4>3. \A m \in 1..Len(old) : old[m] \in Written(d)
        BY DEF Written, SeqToSet
      <4>4. \A m, n \in 1..Len(old) : old[m] = old[n] /\ old[m] # Failure => m = n
        BY DEF NothingTwice
      <4>5. i \in 1..Len(new) /\ k \in 1..Len(new) /\ new[i] = new[k] /\ new[i] # Failure
        OBVIOUS
      <4> HIDE DEF old, new
      <4>6. CASE i \in 1..Len(old) /\ k \in 1..Len(old)
        BY <4>2, <4>4, <4>5, <4>6
      <4>7. CASE i = Len(old) + 1 /\ k \in 1..Len(old)
        BY <1>7, <3>2, <4>2, <4>3, <4>5, <4>7
      <4>8. CASE i \in 1..Len(old) /\ k = Len(old) + 1
        BY <1>7, <3>2, <4>2, <4>3, <4>5, <4>8
      <4>9. i \in 1..Len(old) \/ i = Len(old) + 1
        BY <4>2, <4>5
      <4>10. k \in 1..Len(old) \/ k = Len(old) + 1
        BY <4>2, <4>5
      <4>11. QED
        BY <4>6, <4>7, <4>8, <4>9, <4>10
    <3>3. QED
      BY <3>1, <3>2
  <2>5. QED
    BY <2>1, <2>2, <2>3, <2>4 DEF NothingTwice
<1>9. \A d \in Conns : CameFirst(d)' <=> CameFirst(d)
  <2> TAKE d \in Conns
  <2>1. w.line = Waiting => w = To(c, Waiting) /\ w.to = c
    BY <1>1, WaitingIsOwn, LineKinds
  <2>2. CASE w = To(d, Waiting)
    <3>1. d = c /\ w.to = c /\ w.line = Waiting
      BY <1>1, <2>1, <2>2, LineKinds
    <3>2. QED
      BY <1>1, <2>2, <3>1 DEF CameFirst
  <2>3. CASE w # To(d, Waiting)
    <3>1. To(d, Waiting) \in Queued(d)' <=> To(d, Waiting) \in Queued(d)
      BY <1>1, <2>3
    <3>2. Waiting \in Written(d)' <=> Waiting \in Written(d)
      BY <1>1, <2>1, <2>3
    <3>3. QED
      BY <3>1, <3>2 DEF CameFirst
  <2>4. QED
    BY <2>2, <2>3
<1>10. PeersAreTold'
  <2> SUFFICES ASSUME NEW x \in Conns, NEW y \in Conns, Facing(x, y)'
               PROVE  \/ Peer(x) \in Written(y)'
                      \/ To(y, Peer(x)) \in Queued(x)' \cup Queued(y)'
                      \/ stage'[x] = "leaving"
                      \/ stage'[y] = "leaving" /\ ~CameFirst(y)'
    BY DEF PeersAreTold
  <2>1. Facing(x, y)
    BY <1>1 DEF Facing, Registered, Writing
  <2>2. \A d \in Conns : stage[d] = "leaving" => stage'[d] = "leaving"
    BY <1>1 DEF Writing
  <2>3. CASE w = To(y, Peer(x))
    <3>1. w.to = y /\ w.line = Peer(x)
      BY <2>3, LineKinds
    <3>2. QED
      BY <1>1, <3>1
  <2>4. CASE w # To(y, Peer(x))
    <3>1. \A d \in Conns : To(y, Peer(x)) \in Queued(d) => To(y, Peer(x)) \in Queued(d)'
      BY <1>1, <2>4
    <3>2. QED
      BY <1>2, <1>9, <2>1, <2>2, <3>1 DEF PeersAreTold
  <2>5. QED
    BY <2>3, <2>4
<1>11. FirstComers'
  <2>1. \A d \in Conns : Waiting \in Written(d)' => stage'[d] \notin {"new", "announcing"}
    <3> SUFFICES ASSUME NEW d \in Conns, Waiting \in Written(d)'
                 PROVE  stage'[d] \notin {"new", "announcing"}
      OBVIOUS
    <3>1. CASE Waiting \in Written(d)
      BY <1>1, <3>1 DEF FirstComers
    <3>2. CASE Waiting \notin Written(d)
      <4>1. w.line = Waiting /\ w.to = d
        BY <1>1, <3>2
      <4>2. d = c /\ stage[c] = "announcing" /\ Queued(c) = {w}
        BY <1>1, <4>1, WaitingIsOwn, LineKinds
      <4>3. QED
        BY <1>1, <4>2
    <3>3. QED
      BY <3>1, <3>2
  <2>2. \A d, e \in Conns : \A v \in Queued(d)' :
          stage'[d] = "relaying" /\ v.to = e /\ CameFirst(e)' => Peer(d) \in Written(e)'
    <3>1. \A d \in Conns : stage'[d] = "relaying" => stage[d] = "relaying"
      BY <1>1
    <3>2. QED
      BY <1>2, <1>9, <3>1 DEF FirstComers
  <2>3. ASSUME NEW d \in Conns, CameFirst(d) PROVE InOrder(wire'[d])
    <3>0. InOrder(wire[d])
      BY <2>3 DEF FirstComers
    <3>1. CASE d # w.to
      BY <1>1, <3>0, <3>1
    <3>2. CASE d = w.to
      <4>1. \A l \in Written(d) : l.kind = "SIG" =>
              /\ l \in Signals /\ l.about \in Conns /\ l.n <= lines[l.about]
              /\ Peer(l.about) \in Written(d)
        <5>1. \A l \in Written(d) : l.kind = "SIG" => Peer(l.about) \in Written(d)
          <6> SUFFICES ASSUME NEW i \in 1..Len(wire[d]), wire[d][i].kind = "SIG"
                       PROVE  Peer(wire[d][i].about) \in SeqToSet(wire[d])
            BY DEF Written, SeqToSet
          <6>1. PICK k \in 1..(i - 1) : wire[d][k] = Peer(wire[d][i].about)
            BY <3>0 DEF InOrder
          <6>2. Len(wire[d]) \in Nat
            BY LenProperties DEF TypeOK
          <6>3. k \in 1..Len(wire[d])
            BY <6>2
          <6>4. QED
            BY <6>1, <6>3 DEF SeqToSet
        <5>2. QED
          BY <5>1, LineKinds DEF SignalsWereRead
      <4>2. /\ \A l \in Written(d) : l.kind = "SIG" /\ l.about = w.line.about =>
                 w.line.kind = "SIG" /\ l.n < w.line.n
            /\ w.line.kind = "SIG" => Peer(w.line.about) \in Written(d)
        <5>1. CASE stage[c] = "announcing"
          <6>1. CASE d = c
            <7>1. w = To(c, Waiting)
              BY <1>1, <2>3, <5>1, <6>1, FirstComerWaits
            <7>2. QED
              BY <4>1, <7>1, LineKinds, GuestsAssumption
          <6>2. CASE d # c
            <7>1. w.line = Peer(c)
              BY <1>3, <3>2, <5>1, <6>2, LineKinds DEF Announcement
            <7>2. Peer(c) \notin Written(d)
              BY <1>7, <3>2, <7>1, LineKinds
            <7>3. QED
              BY <4>1, <7>1, <7>2, LineKinds
          <6>3. QED
            BY <6>1, <6>2
        <5>2. CASE stage[c] = "relaying"
          <6>1. w.line = Signal(c, lines[c]) /\ lines[c] \in Nat
            BY <1>3, <5>2, LineKinds, MaxLinesAssumption DEF Relay
          <6>2. Peer(c) \in Written(d)
            BY <1>1, <2>3, <3>2, <5>2 DEF FirstComers
          <6>3. w.line.kind = "SIG" /\ w.line.about = c /\ w.line.n = lines[c]
                  /\ w.line \notin Written(d)
            BY <1>7, <3>2, <6>1, LineKinds
          <6>4. ASSUME NEW l \in Written(d), l.kind = "SIG", l.about = c
                PROVE  l.n < lines[c]
            <7>1. l.n <= lines[c] /\ l.n \in Nat /\ l = Signal(c, l.n)
              BY <4>1, <6>4, LineKinds
            <7>2. l.n # lines[c]
              BY <6>1, <6>3, <7>1
            <7>3. QED
              BY <6>1, <7>1, <7>2
          <6>5. QED
            BY <6>2, <6>3, <6>4
        <5>3. CASE stage[c] \in {"correcting", "rejecting"}
          <6>1. w.line = Failure
            BY <1>3, <5>3, LineKinds
          <6>2. QED
            BY <4>1, <6>1, LineKinds, GuestsAssumption
        <5>4. QED
          BY <1>1, <5>1, <5>2, <5>3 DEF Writing
      <4>3. /\ wire[d] \in Seq(Lines)
            /\ \A i \in 1..Len(wire[d]) : wire[d][i] \in Written(d)
            /\ SeqToSet(wire[d]) = Written(d)
        BY DEF TypeOK, Written, SeqToSet
      <4>4. InOrder(Append(wire[d], w.line))
        BY <1>1, <3>0, <4>2, <4>3, InOrderAppend
      <4>5. QED
        BY <1>1, <3>2, <4>4
    <3>3. QED
      BY <3>1, <3>2
  <2>4. QED
    BY <1>9, <2>1, <2>2, <2>3 DEF FirstComers, InOrder
<1>12. QED
  BY <1>4, <1>5, <1>6, <1>8, <1>10, <1>11

-----------------------------------------------------------------------------
(***************************************************************************)
(* The invariant holds in every reachable state.                            *)
(***************************************************************************)
DeliveryInvariant == MapInvariant /\ Delivery

LEMMA InitDelivery == Init => DeliveryInvariant
<1> SUFFICES ASSUME Init PROVE DeliveryInvariant
  OBVIOUS
<1>1. MapInvariant
  BY InitOwnership, StoredByCells, StoredByEmpty
  DEF MapInvariant, Init, RoomsInUse, EmptyRoom, NoHistory
<1>2. \A c \in Conns : /\ stage[c] = "new" /\ queue[c] = <<>> /\ wire[c] = <<>>
                       /\ Queued(c) = {} /\ Written(c) = {}
  BY MembersOfShort DEF Init, Queued, Written
<1>3. NewcomersUnknown /\ WritesFitStage /\ SignalsWereRead
  BY <1>2 DEF NewcomersUnknown, WritesFitStage, SignalsWereRead
<1>4. NothingTwice
  BY <1>2 DEF NothingTwice
<1>5. PeersAreTold
  BY <1>2 DEF PeersAreTold, Facing, Registered
<1>6. FirstComers
  BY <1>2 DEF FirstComers, InOrder
<1>7. QED
  BY <1>1, <1>3, <1>4, <1>5, <1>6 DEF DeliveryInvariant, Delivery

LEMMA MapStep == MapInvariant /\ [Next]_vars => MapInvariant'
BY TypeStep, OwnershipStep, RoomsInUseStep, StoredByOccupantStep
DEF MapInvariant, Ownership

LEMMA DeliveryStep == DeliveryInvariant /\ [Next]_vars => DeliveryInvariant'
<1> SUFFICES ASSUME MapInvariant, Delivery, [Next]_vars PROVE Delivery'
  BY MapStep DEF DeliveryInvariant
<1> USE DEF rooms, clients
<1>0. /\ TypeOK /\ Ownership /\ stage \in [Conns -> Stages]
      /\ join \in [Conns -> Joins \cup {NoJoin}] /\ lines \in [Conns -> 0..MaxLines]
      /\ history \in [Rooms -> [Roles -> Seq(Signals)]]
  BY DEF MapInvariant, Ownership, TypeOK
<1>1. ASSUME NEW c \in Conns, BadJoin(c) PROVE Delivery'
  <2>1. /\ stage[c] = "new" /\ UNCHANGED <<join, lines, wire, history>>
        /\ stage' = [stage EXCEPT ![c] = IF @ = "new" THEN "rejecting" ELSE "correcting"]
        /\ queue' = [queue EXCEPT ![c] = <<To(c, Failure)>>]
    BY <1>1 DEF BadJoin
  <2>2. lines[c] \in Nat /\ lines[c] <= lines'[c]
    BY <1>0, <2>1, MaxLinesAssumption
  <2>3. QED
    BY <1>0, <2>1, <2>2, AnswerStep
<1>2. ASSUME NEW c \in Conns, NEW j \in Joins, Reject(c, j) PROVE Delivery'
  <2>1. /\ stage[c] = "new" /\ UNCHANGED <<lines, wire, history>>
        /\ stage' = [stage EXCEPT ![c] = IF @ = "new" THEN "rejecting" ELSE "correcting"]
        /\ queue' = [queue EXCEPT ![c] = <<To(c, Failure)>>]
        /\ \A d \in Conns \ {c} : join'[d] = join[d] /\ lines'[d] = lines[d]
    BY <1>0, <1>2 DEF Reject
  <2>2. lines[c] \in Nat /\ lines'[c] \in Nat /\ lines[c] <= lines'[c]
    BY <1>0, <2>1, MaxLinesAssumption
  <2>3. QED
    BY <1>0, <2>1, <2>2, AnswerStep
<1>3. ASSUME NEW c \in Conns, ReadInvalid(c) PROVE Delivery'
  <2>1. /\ stage[c] = "reading" /\ UNCHANGED <<join, wire, history>>
        /\ stage' = [stage EXCEPT ![c] = IF @ = "new" THEN "rejecting" ELSE "correcting"]
        /\ queue' = [queue EXCEPT ![c] = <<To(c, Failure)>>]
        /\ \A d \in Conns \ {c} : join'[d] = join[d] /\ lines'[d] = lines[d]
        /\ lines'[c] = lines[c] + 1
    BY <1>0, <1>3 DEF ReadInvalid
  <2>2. lines[c] \in Nat /\ lines'[c] \in Nat /\ lines[c] <= lines'[c]
    BY <1>0, <2>1, MaxLinesAssumption
  <2>3. QED
    BY <1>0, <2>1, <2>2, AnswerStep
<1>4. ASSUME NEW c \in Conns, NEW j \in Joins, Register(c, j) PROVE Delivery'
  BY <1>4, RegisterStep
<1>5. ASSUME NEW c \in Conns, ReadSignal(c) PROVE Delivery'
  BY <1>5, SignalStep
<1>6. ASSUME NEW c \in Conns, WriteLine(c) PROVE Delivery'
  BY <1>0, <1>6, WriteStep
<1>7. ASSUME NEW c \in Conns, FailWrite(c) PROVE Delivery'
  BY <1>0, <1>7, FailStep
<1>8. ASSUME NEW c \in Conns, ReadFails(c) \/ ReadEnd(c) PROVE Delivery'
  <2>1. UNCHANGED <<join, lines, queue, wire, history>>
    BY <1>8 DEF ReadFails, ReadEnd
  <2>2. \A d \in Conns : \/ stage'[d] = stage[d]
                         \/ stage[d] \notin Writing /\ stage'[d] = "done"
                         \/ stage[d] = "reading" /\ stage'[d] = "leaving"
    BY <1>0, <1>8 DEF ReadFails, ReadEnd, Writing
  <2>3. QED
    BY <1>0, <2>1, <2>2, QuietStep
<1>9. ASSUME NEW c \in Conns, Unregister(c) PROVE Delivery'
  <2> DEFINE j == join[c]
  <2>1. /\ stage[c] = "leaving" /\ stage[c] \in Registered
        /\ stage' = [stage EXCEPT ![c] = "done"]
        /\ history' = [history EXCEPT ![j.room] = HistoryWithout(j)]
        /\ UNCHANGED <<join, lines, queue, wire>>
    BY <1>9 DEF Unregister, Registered
  <2>2. \A d \in Conns : \/ stage'[d] = stage[d]
                         \/ stage[d] \notin Writing /\ stage'[d] = "done"
    BY <1>0, <2>1 DEF Writing
  <2>3. ASSUME NEW d \in Conns, stage[d] = "relaying"
        PROVE  history'[join[d].room][join[d].role] = history[join[d].room][join[d].role]
    <3>1. /\ d # c /\ stage[d] \in Registered
          /\ join[d].room \in Rooms /\ join[d].role \in Roles
          /\ slot[join[d].room][join[d].role] = d
          /\ j.room \in Rooms /\ j.role \in Roles
          /\ join[d].room # j.room \/ join[d].role # j.role
      BY <1>0, <2>1, <2>3, HolderOfSlot, OthersHistory DEF Registered
    <3>2. CASE join[d].room # j.room
      BY <1>0, <2>1, <3>1, <3>2
    <3>3. CASE join[d].room = j.room
      <4>1. join[d].role = Opposite(j.role) /\ join[d].role # j.role
        BY <3>1, <3>3, OppositeRole
      <4>2. ~Empties(j)
        BY <3>1, <3>3, <4>1, GuestsAssumption DEF Empties
      <4>3. HistoryWithout(j) = [history[j.room] EXCEPT ![j.role] = <<>>]
        BY <4>2 DEF HistoryWithout
      <4>4. QED
        BY <1>0, <2>1, <3>1, <3>3, <4>1, <4>3
    <3>4. QED
      BY <3>2, <3>3
  <2>4. QED
    BY <1>0, <2>1, <2>2, <2>3, QuietStep
<1>10. ASSUME NEW c \in Conns, Disconnect(c) \/ Stall(c) \/ Resume(c) PROVE Delivery'
  <2>1. UNCHANGED <<stage, join, lines, queue, wire, history>>
    BY <1>10 DEF Disconnect, Stall, Resume
  <2>2. QED
    BY <1>0, <2>1, QuietStep
<1>11. CASE UNCHANGED vars
  <2>1. UNCHANGED <<stage, join, lines, queue, wire, history>>
    BY <1>11 DEF vars
  <2>2. QED
    BY <1>0, <2>1, QuietStep
<1>12. QED
  BY <1>1, <1>2, <1>3, <1>4, <1>5, <1>6, <1>7, <1>8, <1>9, <1>10, <1>11, NextCases

LEMMA DeliveryAlways == Spec => []DeliveryInvariant
<1>1. QED
  BY InitDelivery, DeliveryStep, PTL DEF Spec

-----------------------------------------------------------------------------
(***************************************************************************)
(* What the invariant says of the lines a client receives.                  *)
(***************************************************************************)

\* A line other than ERROR that is queued for a connection, or on its wire, is
\* there exactly once.
LEMMA OneCopy ==
  ASSUME TypeOK, NothingTwice, NEW d \in Conns, NEW line, line # Failure,
         \/ line \in Written(d)
         \/ \E c \in Conns : To(d, line) \in Queued(c)
  PROVE  Once(Copies(d, line))
<1> DEFINE onWire == {<<d, i>> : i \in Positions(wire[d], line)}
           queued == UNION {{<<"queued", c, i>> : i \in Positions(queue[c], To(d, line))} :
                            c \in Conns}
<1>1. \A i, k \in Positions(wire[d], line) : i = k
  BY DEF NothingTwice, Positions
<1>2. \A c, e \in Conns : \A i \in Positions(queue[c], To(d, line)) :
        \A k \in Positions(queue[e], To(d, line)) : c = e /\ i = k
  <2> SUFFICES ASSUME NEW c \in Conns, NEW e \in Conns,
                      NEW i \in 1..Len(queue[c]), queue[c][i] = To(d, line),
                      NEW k \in 1..Len(queue[e]), queue[e][k] = To(d, line)
               PROVE  c = e /\ i = k
    BY DEF Positions
  <2>1. To(d, line) \in Queued(c) /\ To(d, line) \in Queued(e)
    BY DEF Queued, SeqToSet
  <2>2. c = e
    BY <2>1 DEF NothingTwice
  <2>3. QED
    BY <2>2 DEF NothingTwice
<1>3. ASSUME NEW c \in Conns, NEW i \in Positions(queue[c], To(d, line))
      PROVE  Positions(wire[d], line) = {}
  <2>1. To(d, line) \in Queued(c)
    BY DEF Positions, Queued, SeqToSet
  <2>2. line \notin Written(d)
    BY <2>1, LineKinds DEF NothingTwice
  <2>3. QED
    BY <2>2 DEF Positions, Written, SeqToSet
<1>4. Copies(d, line) = onWire \cup queued
  BY DEF Copies
<1>5. onWire \cup queued # {}
  <2>1. CASE line \in Written(d)
    <3>1. PICK i \in Positions(wire[d], line) : TRUE
      BY <2>1 DEF Written, SeqToSet, Positions
    <3>2. <<d, i>> \in onWire
      OBVIOUS
    <3>3. QED
      BY <3>2
  <2>2. ASSUME NEW c \in Conns, To(d, line) \in Queued(c) PROVE queued # {}
    <3>1. PICK i \in Positions(queue[c], To(d, line)) : TRUE
      BY <2>2 DEF Queued, SeqToSet, Positions
    <3>2. <<"queued", c, i>> \in queued
      OBVIOUS
    <3>3. QED
      BY <3>2
  <2>3. QED
    BY <2>1, <2>2
<1>6. ASSUME NEW x \in onWire \cup queued, NEW y \in onWire \cup queued PROVE x = y
  <2>1. CASE x \in onWire /\ y \in onWire
    BY <1>1, <2>1
  <2>2. CASE x \in queued /\ y \in queued
    <3>1. PICK c \in Conns : \E i \in Positions(queue[c], To(d, line)) : x = <<"queued", c, i>>
      BY <2>2
    <3>2. PICK e \in Conns : \E i \in Positions(queue[e], To(d, line)) : y = <<"queued", e, i>>
      BY <2>2
    <3>3. QED
      BY <1>2, <3>1, <3>2
  <2>3. queued # {} => onWire = {}
    BY <1>3
  <2>4. QED
    BY <2>1, <2>2, <2>3
<1>7. PICK x : x \in onWire \cup queued
  BY <1>5
<1> HIDE DEF onWire, queued
<1>8. onWire \cup queued = {x}
  BY <1>6, <1>7
<1>9. QED
  BY <1>4, <1>8 DEF Once

\* Each of two clients in a room is told of the other exactly once, whichever
\* of the two handlers does the telling and whatever else interleaves.
THEOREM PairsAnnounced == Spec => []PairIsAnnounced
<1>1. DeliveryInvariant => PairIsAnnounced
  <2> SUFFICES ASSUME DeliveryInvariant, NEW c \in Conns, NEW d \in Conns, Paired(c, d)
               PROVE  Once(Copies(c, Peer(d)))
    BY DEF PairIsAnnounced
  <2>1. TypeOK /\ Ownership /\ NothingTwice /\ PeersAreTold
    BY DEF DeliveryInvariant, MapInvariant, Ownership, Delivery
  <2>2. /\ stage[c] \in Registered /\ stage[d] \in Registered
        /\ stage[c] # "leaving" /\ stage[d] # "leaving"
        /\ join[d].room = join[c].room /\ join[c].role = Opposite(join[d].role)
    BY DEF Paired
  <2>3. Facing(d, c)
    BY <2>1, <2>2, HolderOfSlot, OppositeRole DEF Facing
  <2>4. Peer(d) \in Written(c) \/ To(c, Peer(d)) \in Queued(d) \cup Queued(c)
    BY <2>1, <2>2, <2>3 DEF PeersAreTold
  <2>5. Peer(d) # Failure
    BY LineKinds
  <2>6. QED
    BY <2>1, <2>4, <2>5, OneCopy
<1>2. QED
  BY <1>1, DeliveryAlways, PTL

\* Nothing that is stored of c is missing at a first comer d: neither below a
\* signal of c that d was given, nor below one that c relays to d; and while the
\* two share a room, what d was not given yet is queued by c.
Unbroken ==
  \A c, d \in Conns : CameFirst(d) =>
    /\ \A l \in Written(d), s \in StoredOf(c) :
         l.kind = "SIG" /\ l.about = c /\ s.n < l.n => s \in Written(d)
    /\ \A w \in Queued(c), s \in StoredOf(c) :
         stage[c] = "relaying" /\ w.to = d => s \in Written(d) \/ s = w.line
    /\ Facing(c, d) /\ stage[c] # "leaving" =>
         \A s \in StoredOf(c) : s \in Written(d) \/ To(d, s) \in Queued(c)

\* What is stored of c are signals it has sent while it holds a slot.
LEMMA StoredOfOccupant ==
  ASSUME MapInvariant, NEW c \in Conns, NEW s \in StoredOf(c)
  PROVE  /\ s \in Signals /\ s.about = c /\ s.n \in Nat /\ s.n <= lines[c]
         /\ stage[c] \in Registered
<1>1. PICK r \in Rooms, role \in Roles : s \in SeqToSet(history[r][role])
  BY DEF StoredOf
<1>2. s \in Signals /\ s.about = c /\ s.n <= lines[c] /\ slot[r][role] = c
  BY <1>1, StoredSignals DEF StoredOf
<1>3. stage[c] \in Registered
  BY <1>2, HandlerOfSlot, GuestsAssumption DEF MapInvariant
<1>4. QED
  BY <1>2, <1>3, LineKinds

\* A step that writes nothing, stores nothing and begins no relay.
LEMMA UnbrokenKept ==
  ASSUME Unbroken,
         \A d \in Conns : Written(d)' = Written(d),
         \A d \in Conns : CameFirst(d)' => CameFirst(d),
         \A c \in Conns : StoredOf(c)' \subseteq StoredOf(c),
         \A c \in Conns : stage'[c] = "relaying" =>
           stage[c] = "relaying" /\ Queued(c)' = Queued(c),
         \A c, d \in Conns : Facing(c, d)' /\ stage'[c] # "leaving" =>
           Facing(c, d) /\ stage[c] # "leaving" /\ Queued(c) \subseteq Queued(c)'
  PROVE  Unbroken'
BY DEF Unbroken

\* The same for a handler that answers its client and touches no room.
LEMMA AnswerUnbroken ==
  ASSUME TypeOK, Unbroken, NEW c \in Conns, UNCHANGED <<wire, history>>,
         stage[c] \in {"new", "reading"}, stage'[c] \in {"rejecting", "correcting"},
         queue'[c] = <<To(c, Failure)>>,
         stage'[c] = "correcting" => stage[c] = "reading" /\ join'[c] = join[c],
         \A d \in Conns \ {c} :
           stage'[d] = stage[d] /\ join'[d] = join[d] /\ queue'[d] = queue[d]
  PROVE  Unbroken'
<1>1. /\ \A d \in Conns : Written(d)' = Written(d)
      /\ \A d \in Conns \ {c} : Queued(d)' = Queued(d)
      /\ Queued(c) = {}
      /\ Queued(c)' = {To(c, Failure)}
  BY SameMembers, MemberTypes, MembersOfShort DEF Writing, Queued
<1>2. \A d \in Conns : CameFirst(d)' => CameFirst(d)
  BY <1>1, LineKinds DEF CameFirst
<1>3. \A d \in Conns : StoredOf(d)' = StoredOf(d)
  BY DEF StoredOf
<1>4. \A d \in Conns : stage'[d] = "relaying" => d # c
  OBVIOUS
<1>5. \A d \in Conns : stage'[d] \in Registered =>
        stage[d] \in Registered /\ join'[d] = join[d]
  BY DEF Registered
<1>6. \A d, e \in Conns : Facing(d, e)' => Facing(d, e)
  BY <1>5 DEF Facing
<1>7. \A d, e \in Conns : Facing(d, e)' /\ stage'[d] # "leaving" =>
        Facing(d, e) /\ stage[d] # "leaving" /\ Queued(d) \subseteq Queued(d)'
  BY <1>1, <1>6
<1>8. QED
  BY <1>1, <1>2, <1>3, <1>4, <1>7, UnbrokenKept

\* A newcomer finds nothing stored of it, and is a first comer only if it
\* finds nobody.
LEMMA RegisterUnbroken ==
  ASSUME MapInvariant, Delivery, Unbroken, NEW c \in Conns, NEW j \in Joins,
         Register(c, j)
  PROVE  Unbroken'
<1> DEFINE peer == slot[j.room][Opposite(j.role)]
<1>0. /\ TypeOK /\ Ownership /\ NewcomersUnknown
      /\ stage \in [Conns -> Stages] /\ queue \in [Conns -> Seq(Writes)]
      /\ join \in [Conns -> Joins \cup {NoJoin}]
      /\ j.room \in Rooms /\ j.role \in Roles /\ Opposite(j.role) \in Roles
      /\ Opposite(Opposite(j.role)) = j.role /\ Opposite(j.role) # j.role
  BY OppositeRole DEF MapInvariant, Ownership, TypeOK, Delivery, Joins
<1>1. /\ stage[c] = "new" /\ stage'[c] = "announcing" /\ join'[c] = j
      /\ queue'[c] = RegistrationWrites(c, j)
      /\ UNCHANGED <<wire, history>>
      /\ \A d \in Conns \ {c} :
           stage'[d] = stage[d] /\ join'[d] = join[d] /\ queue'[d] = queue[d]
  BY <1>0 DEF Register
<1>2. /\ \A d \in Conns : Written(d)' = Written(d) /\ StoredOf(d)' = StoredOf(d)
      /\ \A d \in Conns \ {c} : Queued(d)' = Queued(d)
  BY <1>1, SameMembers DEF StoredOf
<1>3. /\ Written(c) = {} /\ StoredOf(c) = {}
      /\ \A d \in Conns : \A w \in Queued(d) : w.to # c
  <2>1. Written(c) = {}
    BY <1>0, <1>1, MembersOfShort DEF NewcomersUnknown, Written
  <2>2. StoredOf(c) = {}
    BY <1>1, StoredOfOccupant DEF Registered
  <2>3. QED
    BY <1>0, <1>1, <2>1, <2>2 DEF NewcomersUnknown
<1>4. \A d \in Conns \ {c} : Facing(d, c)' => ~CameFirst(c)'
  <2> SUFFICES ASSUME NEW d \in Conns \ {c}, Facing(d, c)' PROVE ~CameFirst(c)'
    OBVIOUS
  <2>1. /\ stage[d] \in Registered
        /\ join[d].room = j.room /\ join[d].role = Opposite(j.role)
    BY <1>1 DEF Facing
  <2>2. peer = d
    BY <1>0, <2>1, HolderOfSlot
  <2>3. peer # NoConn /\ peer # c
    BY <2>2, GuestsAssumption
  <2>4. Queued(c)' = {To(c, Peer(peer)), To(peer, Peer(c))}
                       \cup {To(c, s) : s \in SeqToSet(history[j.room][Opposite(j.role)])}
    <3>1. Queued(c)' = SeqToSet(RegistrationWrites(c, j))
      BY <1>1 DEF Queued
    <3>2. QED
      BY <2>3, <3>1, RegistrationQueue
  <2>5. \A s \in SeqToSet(history[j.room][Opposite(j.role)]) : s \in Signals
    BY <1>0, StoredSignals
  <2>6. To(c, Waiting) \notin Queued(c)'
    <3> HIDE DEF peer
    <3> QED BY <2>2, <2>3, <2>4, <2>5, LineKinds
  <2>7. QED
    BY <1>2, <1>3, <2>6 DEF CameFirst
<1>5. ~Facing(c, c)'
  BY <1>0, <1>1 DEF Facing
<1>6. \A d \in Conns \ {c} : CameFirst(d)' <=> CameFirst(d)
  BY <1>2 DEF CameFirst
<1>7. \A d, e \in Conns \ {c} : Facing(d, e)' <=> Facing(d, e)
  BY <1>1 DEF Facing
<1>8. SUFFICES ASSUME NEW x \in Conns, NEW d \in Conns, CameFirst(d)'
               PROVE  /\ \A l \in Written(d), s \in StoredOf(x) :
                           l.kind = "SIG" /\ l.about = x /\ s.n < l.n => s \in Written(d)
                      /\ \A w \in Queued(x)', s \in StoredOf(x) :
                           stage'[x] = "relaying" /\ w.to = d => s \in Written(d) \/ s = w.line
                      /\ Facing(x, d)' /\ stage'[x] # "leaving" =>
                           \A s \in StoredOf(x) : s \in Written(d) \/ To(d, s) \in Queued(x)'
  BY <1>2 DEF Unbroken
<1>9. CASE x = c
  BY <1>3, <1>9
<1>10. CASE x # c /\ d = c
  BY <1>1, <1>2, <1>3, <1>4, <1>8, <1>10
<1>11. CASE x # c /\ d # c
  BY <1>1, <1>2, <1>6, <1>7, <1>8, <1>11 DEF Unbroken
<1>12. QED
  BY <1>9, <1>10, <1>11

\* A signal is stored and queued for the participant opposite, who lacks
\* nothing older.
LEMMA SignalUnbroken ==
  ASSUME MapInvariant, Delivery, Unbroken, NEW c \in Conns, ReadSignal(c)
  PROVE  Unbroken'
<1> DEFINE peer == Across(c)
           s == Upcoming(c)
<1>1. /\ stage[c] = "reading" /\ stage[c] \in Registered
      /\ join[c].room \in Rooms /\ join[c].role \in Roles
      /\ Queued(c) = {}
      /\ peer = NoConn => Queued(c)' = {} /\ stage'[c] = "reading"
      /\ peer # NoConn => Queued(c)' = {To(peer, s)} /\ stage'[c] = "relaying"
      /\ \A d \in Conns : Written(d)' = Written(d)
      /\ \A d \in Conns \ {c} : Queued(d)' = Queued(d) /\ stage'[d] = stage[d]
      /\ UNCHANGED join
  <2>1. /\ stage[c] = "reading" /\ stage[c] \in Registered
        /\ join[c].room \in Rooms /\ join[c].role \in Roles
    BY SignalEffect
  <2>2. /\ Queued(c) = {}
        /\ peer = NoConn => Queued(c)' = {} /\ stage'[c] = "reading"
        /\ peer # NoConn => Queued(c)' = {To(peer, s)} /\ stage'[c] = "relaying"
    BY SignalEffect
  <2>3. /\ \A d \in Conns : Written(d)' = Written(d)
        /\ \A d \in Conns \ {c} : /\ queue'[d] = queue[d] /\ Queued(d)' = Queued(d)
                                  /\ stage'[d] = stage[d]
    BY SignalEffect
  <2>4. UNCHANGED join
    BY SignalEffect
  <2>5. QED
    BY <2>1, <2>2, <2>3, <2>4
<1>2. /\ s \in Signals /\ s.about = c /\ s.n = lines[c] + 1 /\ lines[c] \in Nat
      /\ s.kind = "SIG"
  <2>1. Upcoming(c) \in Signals /\ lines[c] \in Nat
    BY SignalEffect
  <2>2. QED
    BY <2>1, LineKinds DEF Upcoming
<1>3. /\ peer \in Conns \cup {NoConn}
      /\ peer # NoConn => peer # c /\ Facing(c, peer)
  <2>1. /\ peer \in Conns \cup {NoConn}
        /\ peer # NoConn =>
             /\ peer # c /\ stage[peer] \in Registered
             /\ join[peer] = [room |-> join[c].room, role |-> Opposite(join[c].role)]
    BY SignalEffect
  <2>2. QED
    BY <1>1, <2>1, OppositeRole DEF Facing
<1>4. ASSUME NEW d \in Conns, Facing(c, d) PROVE d = peer /\ peer # NoConn
  <2>1. /\ stage[d] \in Registered /\ join[d].room = join[c].room
        /\ join[c].role = Opposite(join[d].role)
    BY <1>4 DEF Facing
  <2>2. slot[join[d].room][join[d].role] = d /\ join[d].role \in Roles
    BY <2>1, HolderOfSlot DEF MapInvariant
  <2>3. Opposite(join[c].role) = join[d].role
    BY <2>1, <2>2, OppositeRole
  <2>4. QED
    BY <2>1, <2>2, <2>3, GuestsAssumption DEF Across
<1>5. /\ StoredOf(c)' \subseteq StoredOf(c) \cup {s}
      /\ \A d \in Conns \ {c} : StoredOf(d)' \subseteq StoredOf(d)
  <2>1. /\ \A r \in Rooms, role \in Roles : r # join[c].room \/ role # join[c].role =>
             history'[r][role] = history[r][role]
        /\ history[join[c].room][join[c].role] \in Seq(Signals)
        /\ history'[join[c].room][join[c].role] =
             Append(history[join[c].room][join[c].role], s)
    BY SignalEffect
  <2>2. s \in Signals
    BY <1>2
  <2> HIDE DEF s
  <2>3. SeqToSet(history'[join[c].room][join[c].role]) =
          SeqToSet(history[join[c].room][join[c].role]) \cup {s}
    BY <2>1, <2>2, MembersOfAppend
  <2>4. \A r \in Rooms, role \in Roles :
          SeqToSet(history'[r][role]) \subseteq SeqToSet(history[r][role]) \cup {s}
    BY <2>1, <2>3
  <2>5. ASSUME NEW d \in Conns PROVE StoredOf(d)' \subseteq StoredOf(d) \cup {s}
    BY <2>4 DEF StoredOf
  <2>6. \A d \in Conns \ {c} : s \notin StoredOf(d)'
    BY <1>2 DEF StoredOf
  <2>7. QED
    BY <2>5, <2>6
<1>6. \A d \in Conns : \A l \in Written(d) :
        l.kind = "SIG" /\ l.about = c => l.n \in Nat /\ ~(s.n < l.n)
  <2>1. \A d \in Conns : \A l \in Written(d) :
          l.kind = "SIG" => l \in Signals /\ l.n <= lines[l.about]
    BY DEF Delivery, SignalsWereRead
  <2>2. QED
    BY <1>2, <2>1, LineKinds
<1> HIDE DEF peer, s
<1>7. \A d \in Conns : CameFirst(d)' <=> CameFirst(d)
  <2>1. To(c, Waiting) \notin Queued(c)'
    BY <1>1, <1>2, <1>3, LineKinds
  <2>2. QED
    BY <1>1, <2>1 DEF CameFirst
<1>8. \A d, e \in Conns : Facing(d, e)' => Facing(d, e)
  BY <1>1 DEF Facing
<1>9. SUFFICES ASSUME NEW x \in Conns, NEW d \in Conns, CameFirst(d)
               PROVE  /\ \A l \in Written(d), t \in StoredOf(x)' :
                           l.kind = "SIG" /\ l.about = x /\ t.n < l.n => t \in Written(d)
                      /\ \A w \in Queued(x)', t \in StoredOf(x)' :
                           stage'[x] = "relaying" /\ w.to = d => t \in Written(d) \/ t = w.line
                      /\ Facing(x, d)' /\ stage'[x] # "leaving" =>
                           \A t \in StoredOf(x)' : t \in Written(d) \/ To(d, t) \in Queued(x)'
  BY <1>1, <1>7 DEF Unbroken
<1>10. CASE x # c
  BY <1>1, <1>5, <1>8, <1>9, <1>10 DEF Unbroken
<1>11. CASE x = c
  <2>1. Facing(c, d) => \A t \in StoredOf(c) : t \in Written(d)
    BY <1>1, <1>9 DEF Unbroken
  <2>2. \A l \in Written(d), t \in StoredOf(c) :
          l.kind = "SIG" /\ l.about = c /\ t.n < l.n => t \in Written(d)
    BY <1>9 DEF Unbroken
  <2>3. \A l \in Written(d), t \in StoredOf(c)' :
          l.kind = "SIG" /\ l.about = c /\ t.n < l.n => t \in Written(d)
    BY <1>5, <1>6, <2>2
  <2>4. \A w \in Queued(c)' : peer # NoConn /\ w.to = peer /\ w.line = s
    BY <1>1, <1>3, LineKinds
  <2>5. \A w \in Queued(c)', t \in StoredOf(c)' :
          w.to = d => t \in Written(d) \/ t = w.line
    BY <1>3, <1>5, <2>1, <2>4
  <2>6. Facing(c, d)' => \A t \in StoredOf(c)' : t \in Written(d) \/ To(d, t) \in Queued(c)'
    BY <1>1, <1>4, <1>5, <1>8, <2>1
  <2>7. QED
    BY <1>11, <2>3, <2>5, <2>6
<1>12. QED
  BY <1>10, <1>11

\* A signal that is written for a first comer is a relay: its replay is empty.
LEMMA SignalIsRelayed ==
  ASSUME TypeOK, Delivery, NEW c \in Conns, NEW w \in Queued(c),
         w.line.kind = "SIG", CameFirst(w.to)
  PROVE  stage[c] = "relaying" /\ w.line.about = c
<1>1. stage[c] \in Writing
  BY MemberTypes
<1>2. /\ stage[c] = "announcing" => Announcement(c, w)
      /\ stage[c] = "relaying" => Relay(c, w)
      /\ stage[c] \in {"correcting", "rejecting"} => w = To(c, Failure)
  BY DEF Delivery, WritesFitStage
<1>3. ASSUME stage[c] = "announcing" PROVE FALSE
  <2>1. w.to = c
    BY <1>2, <1>3, LineKinds DEF Announcement
  <2>2. Queued(c) = {To(c, Waiting)}
    BY <1>3, <2>1, FirstComerWaits DEF Delivery
  <2>3. QED
    BY <2>2, LineKinds
<1>4. stage[c] = "relaying"
  BY <1>1, <1>2, <1>3, LineKinds DEF Writing
<1>5. QED
  BY <1>2, <1>4, LineKinds DEF Relay

\* The line moves from a queue to a wire, and is the newest there.
LEMMA WriteUnbroken ==
  ASSUME TypeOK, Delivery, Unbroken, NEW c \in Conns, WriteLine(c)
  PROVE  Unbroken'
<1>0. PICK w : w = Head(queue[c])
  OBVIOUS
<1>1. /\ w \in Queued(c) /\ w \in Writes /\ w = To(w.to, w.line)
      /\ w.to \in Conns /\ w.line \in Lines
      /\ Queued(c)' = Queued(c) \ {w}
      /\ \A d \in Conns \ {c} : Queued(d)' = Queued(d) /\ queue'[d] = queue[d]
      /\ Written(w.to)' = Written(w.to) \cup {w.line}
      /\ \A d \in Conns \ {w.to} : Written(d)' = Written(d) /\ wire'[d] = wire[d]
      /\ stage[c] \in Writing
      /\ stage'[c] = IF Queued(c)' # {} THEN stage[c]
                     ELSE IF stage[c] = "rejecting" THEN "done" ELSE "reading"
      /\ \A d \in Conns \ {c} : stage'[d] = stage[d]
      /\ UNCHANGED <<join, lines, history>>
  BY <1>0, WriteEffect, ZenonT(60) DEF Delivery
<1>2. /\ \A d \in Conns : Queued(d)' \subseteq Queued(d) /\ Written(d) \subseteq Written(d)'
      /\ \A d \in Conns : \A l \in Written(d)' :
           l \in Written(d) \/ (d = w.to /\ l = w.line)
      /\ \A d, e \in Conns : \A l : To(d, l) \in Queued(e) =>
           To(d, l) \in Queued(e)' \/ l \in Written(d)'
  BY <1>1, LineKinds
<1>3. \A d \in Conns : StoredOf(d)' = StoredOf(d)
  BY <1>1 DEF StoredOf
<1>4. \A d \in Conns : CameFirst(d)' => CameFirst(d)
  <2>1. \A d \in Conns : Waiting \in Written(d)' => CameFirst(d)
    <3> SUFFICES ASSUME NEW d \in Conns, w.to = d, w.line = Waiting PROVE CameFirst(d)
      BY <1>2 DEF CameFirst
    <3>1. c = d
      BY <1>1, WaitingIsOwn, LineKinds DEF Delivery
    <3>2. QED
      BY <1>1, <3>1 DEF CameFirst
  <2>2. QED
    BY <1>2, <2>1 DEF CameFirst
<1>5. \A d \in Conns : stage'[d] \in {"relaying", "leaving"} => stage'[d] = stage[d]
  BY <1>1
<1>6. \A d, e \in Conns : Facing(d, e)' => Facing(d, e)
  <2>1. \A d \in Conns : stage'[d] \in Registered => stage[d] \in Registered
    BY <1>1 DEF Writing, Registered
  <2>2. QED
    BY <1>1, <2>1 DEF Facing
<1>7. \A d \in Conns : stage[d] = "leaving" => stage'[d] = "leaving"
  BY <1>1 DEF Writing
<1>8. SUFFICES ASSUME NEW x \in Conns, NEW d \in Conns, CameFirst(d)
               PROVE  /\ \A l \in Written(d)', s \in StoredOf(x) :
                           l.kind = "SIG" /\ l.about = x /\ s.n < l.n => s \in Written(d)'
                      /\ \A v \in Queued(x)', s \in StoredOf(x) :
                           stage'[x] = "relaying" /\ v.to = d => s \in Written(d)' \/ s = v.line
                      /\ Facing(x, d)' /\ stage'[x] # "leaving" =>
                           \A s \in StoredOf(x) : s \in Written(d)' \/ To(d, s) \in Queued(x)'
  BY <1>3, <1>4 DEF Unbroken
<1>9. ASSUME NEW l \in Written(d)', NEW s \in StoredOf(x),
             l.kind = "SIG", l.about = x, s.n < l.n
      PROVE  s \in Written(d)'
  <2>1. CASE l \in Written(d)
    BY <1>2, <1>8, <1>9, <2>1 DEF Unbroken
  <2>2. CASE d = w.to /\ l = w.line
    <3>1. stage[c] = "relaying" /\ x = c
      BY <1>1, <1>8, <1>9, <2>2, SignalIsRelayed
    <3>2. l \in Signals
      BY <1>1, <1>9, <2>2 DEF Delivery, SignalsWereRead
    <3>3. s # l
      BY <1>9, <3>2, LineKinds
    <3>4. QED
      BY <1>1, <1>2, <1>8, <2>2, <3>1, <3>3 DEF Unbroken
  <2>3. QED
    BY <1>2, <2>1, <2>2
<1>10. \A v \in Queued(x)', s \in StoredOf(x) :
         stage'[x] = "relaying" /\ v.to = d => s \in Written(d)' \/ s = v.line
  BY <1>2, <1>5, <1>8 DEF Unbroken
<1>11. ASSUME Facing(x, d)', stage'[x] # "leaving", NEW s \in StoredOf(x)
       PROVE  s \in Written(d)' \/ To(d, s) \in Queued(x)'
  <2>1. Facing(x, d) /\ stage[x] # "leaving"
    BY <1>6, <1>7, <1>11
  <2>2. s \in Written(d) \/ To(d, s) \in Queued(x)
    BY <1>8, <2>1 DEF Unbroken
  <2>3. QED
    BY <1>2, <2>2
<1>12. QED
  BY <1>9, <1>10, <1>11

\* What a departing participant said is forgotten, nothing is added.
LEMMA UnregisterForgets ==
  ASSUME Ownership, NEW c \in Conns, Unregister(c)
  PROVE  \A d \in Conns : StoredOf(d)' \subseteq StoredOf(d)
<1>1. /\ history \in [Rooms -> [Roles -> Seq(Signals)]]
      /\ history' = [history EXCEPT ![join[c].room] = HistoryWithout(join[c])]
  BY DEF Ownership, TypeOK, Unregister
<1>2. join[c].room \in Rooms
  BY HolderOfSlot DEF Unregister, Registered
<1>3. \A role \in Roles : \/ HistoryWithout(join[c])[role] = <<>>
                          \/ HistoryWithout(join[c])[role] = history[join[c].room][role]
  BY <1>1, <1>2 DEF HistoryWithout, NoHistory
<1>4. \A r \in Rooms, role \in Roles : history'[r][role] \in {<<>>, history[r][role]}
  BY <1>1, <1>2, <1>3
<1>5. \A r \in Rooms, role \in Roles :
        SeqToSet(history'[r][role]) \subseteq SeqToSet(history[r][role])
  BY <1>4, MembersOfShort
<1>6. QED
  BY <1>5 DEF StoredOf

LEMMA UnbrokenStep == DeliveryInvariant /\ Unbroken /\ [Next]_vars => Unbroken'
<1> SUFFICES ASSUME DeliveryInvariant, Unbroken, [Next]_vars PROVE Unbroken'
  OBVIOUS
<1> USE DEF rooms, clients
<1>0. /\ MapInvariant /\ Delivery /\ TypeOK /\ Ownership
      /\ stage \in [Conns -> Stages] /\ queue \in [Conns -> Seq(Writes)]
      /\ join \in [Conns -> Joins \cup {NoJoin}]
  BY DEF DeliveryInvariant, MapInvariant, Ownership, TypeOK
<1>1. ASSUME NEW c \in Conns,
             \/ BadJoin(c)
             \/ ReadInvalid(c)
             \/ \E j \in Joins : Reject(c, j)
      PROVE  Unbroken'
  <2>1. /\ UNCHANGED <<wire, history>>
        /\ stage[c] \in {"new", "reading"} /\ stage'[c] \in {"rejecting", "correcting"}
        /\ queue'[c] = <<To(c, Failure)>>
        /\ stage'[c] = "correcting" => stage[c] = "reading" /\ join'[c] = join[c]
        /\ \A d \in Conns \ {c} :
             stage'[d] = stage[d] /\ join'[d] = join[d] /\ queue'[d] = queue[d]
    BY <1>0, <1>1 DEF BadJoin, ReadInvalid, Reject
  <2>2. QED
    BY <1>0, <2>1, AnswerUnbroken
<1>2. ASSUME NEW c \in Conns, NEW j \in Joins, Register(c, j) PROVE Unbroken'
  BY <1>0, <1>2, RegisterUnbroken
<1>3. ASSUME NEW c \in Conns, ReadSignal(c) PROVE Unbroken'
  BY <1>0, <1>3, SignalUnbroken
<1>4. ASSUME NEW c \in Conns, WriteLine(c) PROVE Unbroken'
  BY <1>0, <1>4, WriteUnbroken
<1>5. ASSUME NEW c \in Conns, FailWrite(c) PROVE Unbroken'
  <2>1. /\ UNCHANGED <<join, wire, history>> /\ stage[c] \in Writing
        /\ queue'[c] = <<>> /\ stage'[c] \in {"done", "leaving"}
        /\ stage'[c] = "leaving" => stage[c] # "rejecting"
        /\ \A d \in Conns \ {c} : stage'[d] = stage[d] /\ queue'[d] = queue[d]
    BY <1>0, <1>5 DEF FailWrite, AfterFailedWrite
  <2>2. /\ \A d \in Conns : Written(d)' = Written(d) /\ StoredOf(d)' = StoredOf(d)
        /\ \A d \in Conns \ {c} : Queued(d)' = Queued(d)
        /\ Queued(c)' = {}
    BY <2>1, SameMembers, MembersOfShort DEF Queued, StoredOf
  <2>3. \A d \in Conns : CameFirst(d)' => CameFirst(d)
    BY <2>2 DEF CameFirst
  <2>4. \A d \in Conns : stage'[d] \in Registered => stage[d] \in Registered
    BY <2>1 DEF Registered, Writing
  <2>5. \A d, e \in Conns : Facing(d, e)' => Facing(d, e) /\ stage'[d] \in Registered
    BY <2>1, <2>4 DEF Facing
  <2>6. stage'[c] \in Registered => stage'[c] = "leaving"
    BY <2>1 DEF Registered
  <2>7. \A d, e \in Conns : Facing(d, e)' /\ stage'[d] # "leaving" =>
          Facing(d, e) /\ stage[d] # "leaving" /\ Queued(d) \subseteq Queued(d)'
    BY <2>1, <2>2, <2>5, <2>6
  <2>8. \A d \in Conns : stage'[d] = "relaying" =>
          stage[d] = "relaying" /\ Queued(d)' = Queued(d)
    BY <2>1, <2>2
  <2>9. QED
    BY <2>2, <2>3, <2>7, <2>8, UnbrokenKept
<1>6. ASSUME UNCHANGED <<join, queue, wire>>,
             \A d \in Conns : StoredOf(d)' \subseteq StoredOf(d),
             \A d \in Conns : stage'[d] = stage[d] \/ stage'[d] \in {"done", "leaving"},
             \A d \in Conns : stage'[d] = "leaving" => stage[d] \in Registered
      PROVE  Unbroken'
  <2>1. \A d \in Conns : Queued(d)' = Queued(d) /\ Written(d)' = Written(d)
    BY <1>6, SameMembers
  <2>2. \A d \in Conns : CameFirst(d)' => CameFirst(d)
    BY <2>1 DEF CameFirst
  <2>3. \A d \in Conns : stage'[d] \in Registered => stage[d] \in Registered
    BY <1>6 DEF Registered
  <2>4. \A d, e \in Conns : Facing(d, e)' => Facing(d, e) /\ stage'[d] \in Registered
    BY <1>6, <2>3 DEF Facing
  <2>5. \A d \in Conns : stage'[d] \in Registered /\ stage'[d] # "leaving" =>
          stage'[d] = stage[d]
    BY <1>6 DEF Registered
  <2>6. \A d, e \in Conns : Facing(d, e)' /\ stage'[d] # "leaving" =>
          Facing(d, e) /\ stage[d] # "leaving" /\ Queued(d) \subseteq Queued(d)'
    BY <2>1, <2>4, <2>5
  <2>7. \A d \in Conns : stage'[d] = "relaying" =>
          stage[d] = "relaying" /\ Queued(d)' = Queued(d)
    BY <1>6, <2>1
  <2>8. QED
    BY <1>6, <2>1, <2>2, <2>6, <2>7, UnbrokenKept
<1>7. ASSUME NEW c \in Conns, ReadFails(c) \/ ReadEnd(c) PROVE Unbroken'
  <2>1. UNCHANGED <<join, queue, wire, history>>
    BY <1>7 DEF ReadFails, ReadEnd
  <2>2. \A d \in Conns : StoredOf(d)' \subseteq StoredOf(d)
    BY <2>1 DEF StoredOf
  <2>3. \A d \in Conns : /\ stage'[d] = stage[d] \/ stage'[d] \in {"done", "leaving"}
                         /\ stage'[d] = "leaving" => stage[d] \in Registered
    BY <1>0, <1>7 DEF ReadFails, ReadEnd, Registered
  <2>4. QED
    BY <1>6, <2>1, <2>2, <2>3
<1>8. ASSUME NEW c \in Conns, Unregister(c) PROVE Unbroken'
  <2>1. UNCHANGED <<join, queue, wire>>
    BY <1>8 DEF Unregister
  <2>2. \A d \in Conns : StoredOf(d)' \subseteq StoredOf(d)
    BY <1>0, <1>8, UnregisterForgets
  <2>3. \A d \in Conns : /\ stage'[d] = stage[d] \/ stage'[d] \in {"done", "leaving"}
                         /\ stage'[d] = "leaving" => stage[d] \in Registered
    BY <1>0, <1>8 DEF Unregister, Registered
  <2>4. QED
    BY <1>6, <2>1, <2>2, <2>3
<1>9. ASSUME \/ UNCHANGED vars
             \/ \E c \in Conns : Disconnect(c) \/ Stall(c) \/ Resume(c)
      PROVE  Unbroken'
  <2>1. UNCHANGED <<stage, join, queue, wire, history>>
    BY <1>9 DEF Disconnect, Stall, Resume, vars
  <2>2. \A d \in Conns : StoredOf(d)' \subseteq StoredOf(d)
    BY <2>1 DEF StoredOf
  <2>3. \A d \in Conns : stage'[d] = stage[d]
    BY <2>1
  <2>4. \A d \in Conns : stage'[d] = "leaving" => stage[d] \in Registered
    BY <2>3 DEF Registered
  <2>5. QED
    BY <1>6, <2>1, <2>2, <2>3, <2>4
<1>10. QED
  BY <1>1, <1>2, <1>3, <1>4, <1>5, <1>7, <1>8, <1>9, NextCases

LEMMA UnbrokenAlways == Spec => [](DeliveryInvariant /\ Unbroken)
<1>1. Init => Unbroken
  <2> SUFFICES ASSUME Init PROVE Unbroken
    OBVIOUS
  <2>1. \A d \in Conns : queue[d] = <<>> /\ wire[d] = <<>>
    BY DEF Init
  <2>2. \A d \in Conns : Queued(d) = {} /\ Written(d) = {}
    BY <2>1, MembersOfShort DEF Queued, Written
  <2>3. QED
    BY <2>2 DEF Unbroken, CameFirst
<1>2. QED
  BY <1>1, UnbrokenStep, InitDelivery, DeliveryStep, PTL DEF Spec

\* Whoever came first to a room reads, from each later peer, its PEER line
\* before its signals, and those in the order they were sent, without skipping
\* one that the server has stored.
THEOREM FirstComersServedInOrder == Spec => []FirstComerInOrder
<1>1. DeliveryInvariant /\ Unbroken => FirstComerInOrder
  <2> SUFFICES ASSUME DeliveryInvariant, Unbroken,
                      NEW d \in Conns, Copies(d, Waiting) # {},
                      NEW i \in 1..Len(wire[d]), wire[d][i].kind = "SIG"
               PROVE  FollowsInOrder(d, i)
    BY Zenon DEF FirstComerInOrder
  <2>1. /\ MapInvariant /\ TypeOK /\ WritesFitStage /\ FirstComers /\ SignalsWereRead
        /\ wire[d] \in Seq(Lines)
    BY DEF DeliveryInvariant, MapInvariant, Ownership, Delivery, TypeOK
  <2>2. Waiting \in Written(d) \/ \E c \in Conns : To(d, Waiting) \in Queued(c)
    BY DEF Copies, Positions, Written, Queued, SeqToSet
  <2>3. CameFirst(d)
    <3>1. CASE Waiting \in Written(d)
      BY <3>1 DEF CameFirst
    <3>2. ASSUME NEW c \in Conns, To(d, Waiting) \in Queued(c) PROVE CameFirst(d)
      <4>1. c = d
        BY <2>1, <3>2, WaitingIsOwn, LineKinds
      <4>2. QED
        BY <3>2, <4>1 DEF CameFirst
    <3>3. QED
      BY <2>2, <3>1, <3>2
  <2>4. InOrder(wire[d])
    BY <2>1, <2>3 DEF FirstComers
  <2>5. /\ \E k \in 1..(i - 1) : wire[d][k] = Peer(wire[d][i].about)
        /\ \A k \in (i + 1)..Len(wire[d]) : wire[d][k].about = wire[d][i].about =>
             wire[d][k].kind = "SIG" /\ wire[d][i].n < wire[d][k].n
    BY <2>4 DEF InOrder
  <2>6. wire[d][i] \in Written(d) /\ wire[d][i] \in Signals /\ wire[d][i].about \in Conns
        /\ wire[d][i].n \in Nat
    BY <2>1, LineKinds DEF Written, SeqToSet, SignalsWereRead
  <2>7. ASSUME NEW s \in StoredOf(wire[d][i].about), s.n < wire[d][i].n
        PROVE  \E k \in 1..(i - 1) : wire[d][k] = s
    <3>1. s \in Written(d) /\ s.about = wire[d][i].about /\ s.n \in Nat
      BY <2>1, <2>3, <2>6, <2>7, StoredOfOccupant DEF Unbroken
    <3>2. PICK k \in 1..Len(wire[d]) : wire[d][k] = s
      BY <3>1 DEF Written, SeqToSet
    <3>3. Len(wire[d]) \in Nat
      BY <2>1, LenProperties
    <3>4. k # i
      BY <2>6, <2>7, <3>1, <3>2
    <3>5. ~(k \in (i + 1)..Len(wire[d]))
      <4>1. k \in (i + 1)..Len(wire[d]) => wire[d][i].n < wire[d][k].n
        BY <2>5, <3>1, <3>2, Zenon
      <4>2. k \in (i + 1)..Len(wire[d]) => wire[d][i].n < s.n
        BY <3>2, <4>1, Zenon
      <4>3. QED
        BY <2>6, <2>7, <3>1, <4>2
    <3>6. k \in 1..(i - 1)
      BY <3>3, <3>4, <3>5
    <3>7. QED
      BY <3>2, <3>6
  <2>8. QED
    BY <2>5, <2>7 DEF FollowsInOrder
<1>2. QED
  BY <1>1, UnbrokenAlways, PTL

-----------------------------------------------------------------------------
(***************************************************************************)
(* The server implements Rendezvous.                                        *)
(***************************************************************************)

\* The promise's state, as the server's.
Phases == [c \in Conns |-> Phase(c)]
Said == [r \in Rooms |-> [role \in Roles |-> SeqToSet(history[r][role])]]
Due == [c \in Conns |-> Owed(c)]
Got == [c \in Conns |-> SeqToSet(wire[c]) \cap Signals]

\* What a connection is owed is what the queues hold for it.
LEMMA OwedIsQueued ==
  /\ \A d \in Conns : \A s : s \in Owed(d) <=>
       s \in Signals /\ \E c \in Conns : To(d, s) \in Queued(c)
  /\ \A d \in Conns : \A s : s \in Owed(d)' <=>
       s \in Signals /\ \E c \in Conns : To(d, s) \in Queued(c)'
  /\ \A d \in Conns : Got[d] = Written(d) \cap Signals
BY DEF Owed, Queued, Got, Written

\* The phase of a handler, before and after a step.
PhaseOf(s) ==
  CASE s = "new" -> "outside"
    [] s = "leaving" -> "closing"
    [] s \in {"announcing", "reading", "relaying", "correcting"} -> "seated"
    [] OTHER -> "left"

LEMMA PhaseCases ==
  \A c \in Conns : /\ Phase(c) = PhaseOf(stage[c]) /\ Phase(c)' = PhaseOf(stage'[c])
                   /\ Phases[c] = PhaseOf(stage[c])
BY DEF Phase, PhaseOf, Registered, Phases

\* Where no slot, no history and no phase changes, and nothing is queued or
\* written but what is no signal, the promise stutters.
LEMMA Stutters ==
  ASSUME UNCHANGED <<slot, history>>,
         \A d \in Conns : Phase(d)' = Phase(d),
         \A d \in Conns : Owed(d)' = Owed(d),
         \A d \in Conns : (Written(d) \cap Signals)' = Written(d) \cap Signals
  PROVE  UNCHANGED R!vars
<1>1. Phases' = Phases /\ Due' = Due
  BY DEF Phases, Due
<1>2. Got' = Got
  BY DEF Got, Written
<1>3. Said' = Said
  BY DEF Said
<1>4. QED
  BY <1>1, <1>2, <1>3 DEF R!vars, Phases, Due, Got, Said

\* An ERROR in place of an empty queue, or no change of the queues, changes
\* nothing that is owed.
LEMMA AnswerOwesNothing ==
  ASSUME TypeOK, NEW c \in Conns, stage[c] \notin Writing,
         queue' = [queue EXCEPT ![c] = <<To(c, Failure)>>] \/ UNCHANGED queue
  PROVE  \A d \in Conns : Owed(d)' = Owed(d)
<1>1. Queued(c) = {} /\ queue \in [Conns -> Seq(Writes)]
  BY MemberTypes DEF TypeOK
<1>2. \A d \in Conns \ {c} : Queued(d)' = Queued(d)
  BY <1>1, SameMembers
<1>3. \A w \in Queued(c)' : w = To(c, Failure)
  <2>1. queue'[c] = <<To(c, Failure)>> \/ queue'[c] = queue[c]
    BY <1>1
  <2>2. Queued(c)' = SeqToSet(<<To(c, Failure)>>) \/ Queued(c)' = Queued(c)
    BY <2>1 DEF Queued
  <2>3. QED
    BY <1>1, <2>2, MembersOfShort
<1>4. ASSUME NEW d \in Conns PROVE Owed(d)' = Owed(d)
  <2>1. \A s : /\ s \in Owed(d)' <=> s \in Signals /\ \E e \in Conns : To(d, s) \in Queued(e)'
               /\ s \in Owed(d) <=> s \in Signals /\ \E e \in Conns : To(d, s) \in Queued(e)
    BY OwedIsQueued
  <2>2. \A s \in Signals : To(d, s) \notin Queued(c)'
    BY <1>3, LineKinds
  <2>3. \A s : s \in Owed(d)' <=> s \in Owed(d)
    BY <1>1, <1>2, <2>1, <2>2
  <2>4. QED
    BY <2>3
<1>5. QED
  BY <1>4

\* The server starts where the promise starts.
LEMMA InitRefines == Init => R!Init
<1> SUFFICES ASSUME Init PROVE R!Init
  OBVIOUS
<1>1. \A c \in Conns : stage[c] = "new" /\ queue[c] = <<>> /\ wire[c] = <<>>
  BY DEF Init
<1>2. Phases = [c \in Conns |-> "outside"]
  BY <1>1, PhaseCases DEF Phases, PhaseOf
<1>3. Due = [c \in Conns |-> {}]
  BY <1>1, MembersOfShort DEF Due, Owed
<1>4. Got = [c \in Conns |-> {}]
  BY <1>1, MembersOfShort DEF Got
<1>5. Said = [r \in Rooms |-> [role \in Roles |-> {}]]
  BY MembersOfShort DEF Init, NoHistory, Said
<1>6. slot = [r \in Rooms |-> [role \in Roles |-> NoConn]]
  BY DEF Init, EmptyRoom
<1>7. QED
  BY <1>2, <1>3, <1>4, <1>5, <1>6 DEF R!Init, R!Roles, Roles, Phases, Due, Got, Said

\* A connection that never registers is turned away: it is told so, which is no
\* signal.
LEMMA TurnAwayRefines ==
  ASSUME TypeOK, NEW c \in Conns, stage[c] = "new", UNCHANGED <<wire, slot, history>>,
         \/ /\ stage' = [stage EXCEPT ![c] = "rejecting"]
            /\ queue' = [queue EXCEPT ![c] = <<To(c, Failure)>>]
         \/ /\ stage' = [stage EXCEPT ![c] = "done"]
            /\ UNCHANGED queue
  PROVE  R!TurnAway(c)
<1>0. stage \in [Conns -> Stages] /\ queue \in [Conns -> Seq(Writes)]
  BY DEF TypeOK
<1>1. Phases' = [Phases EXCEPT ![c] = "left"]
  <2>1. Phase(c)' = "left" /\ \A d \in Conns \ {c} : Phase(d)' = Phase(d)
    BY <1>0, PhaseCases, SMTT(30) DEF PhaseOf
  <2>2. QED
    BY <2>1 DEF Phases
<1>2. Phases[c] = "outside"
  BY PhaseCases DEF PhaseOf
<1>3. Due' = Due
  <2>1. \A d \in Conns : Owed(d)' = Owed(d)
    BY AnswerOwesNothing DEF Writing
  <2>2. QED
    BY <2>1 DEF Due
<1>4. Got' = Got /\ Said' = Said
  BY DEF Got, Said
<1>5. QED
  BY <1>1, <1>2, <1>3, <1>4 DEF R!TurnAway, Phases, Due, Got, Said

\* A registration takes a seat, and is owed what the opposite guest has said.
LEMMA RegisterRefines ==
  ASSUME DeliveryInvariant, NEW c \in Conns, NEW j \in Joins, Register(c, j)
  PROVE  R!Enter(c, j.room, j.role)
<1> DEFINE peer == slot[j.room][Opposite(j.role)]
           stored == SeqToSet(history[j.room][Opposite(j.role)])
<1>0. /\ MapInvariant /\ Ownership /\ TypeOK /\ NewcomersUnknown /\ StoredByOccupant
      /\ stage \in [Conns -> Stages] /\ queue \in [Conns -> Seq(Writes)]
      /\ j.room \in Rooms /\ j.role \in Roles /\ Opposite(j.role) \in Roles
  BY OppositeRole
  DEF DeliveryInvariant, MapInvariant, Ownership, TypeOK, Delivery, Joins
<1>1. /\ stage[c] = "new" /\ stage' = [stage EXCEPT ![c] = "announcing"]
      /\ slot[j.room][j.role] = NoConn
      /\ slot' = [slot EXCEPT ![j.room][j.role] = c]
      /\ queue' = [queue EXCEPT ![c] = RegistrationWrites(c, j)]
      /\ UNCHANGED <<wire, history>>
  BY DEF Register
<1>2. /\ peer # c
      /\ peer \in Conns \cup {NoConn}
  BY <1>0, <1>1, HandlerOfSlot, GuestsAssumption, ZenonT(60) DEF Registered
<1>3. \A s \in stored : s \in Signals
  BY <1>0, StoredSignals
<1>4. /\ peer = NoConn => Queued(c)' = {To(c, Waiting)}
      /\ peer # NoConn => Queued(c)' = {To(c, Peer(peer)), To(peer, Peer(c))}
                                         \cup {To(c, s) : s \in stored}
  <2>1. queue'[c] = RegistrationWrites(c, j)
    BY <1>0, <1>1
  <2>2. QED
    BY <1>0, <1>2, <2>1, RegistrationQueue DEF Queued
<1>5. peer = NoConn => stored = {}
  BY <1>0, VacantStoresNothing, MembersOfShort
<1>6. /\ \A d \in Conns \ {c} : Queued(d)' = Queued(d)
      /\ \A d \in Conns : \A w \in Queued(d) : w.to # c
      /\ Queued(c) = {}
  BY <1>0, <1>1, SameMembers, MemberTypes DEF NewcomersUnknown, Writing
<1>7. \A s \in Signals : To(c, s) \in Queued(c)' <=> s \in stored
  <2> HIDE DEF peer, stored
  <2>1. CASE peer = NoConn
    BY <1>4, <1>5, <2>1, LineKinds
  <2>2. CASE peer # NoConn
    BY <1>2, <1>4, <2>2, LineKinds
  <2>3. QED
    BY <2>1, <2>2
<1>8. \A s \in Signals : \A d \in Conns \ {c} : To(d, s) \notin Queued(c)'
  <2> HIDE DEF peer, stored
  <2>1. CASE peer = NoConn
    BY <1>4, <2>1, LineKinds
  <2>2. CASE peer # NoConn
    BY <1>2, <1>4, <2>2, LineKinds
  <2>3. QED
    BY <2>1, <2>2
<1> HIDE DEF peer
<1>9. Due' = [Due EXCEPT ![c] = stored]
  <2>1. Owed(c)' = stored
    <3>1. \A s \in Signals : \A d \in Conns \ {c} : To(c, s) \notin Queued(d)'
      BY <1>6, LineKinds
    <3>2. \A s : s \in Owed(c)' <=> s \in Signals /\ \E d \in Conns : To(c, s) \in Queued(d)'
      BY OwedIsQueued
    <3>3. \A s : s \in Owed(c)' <=> s \in stored
      BY <1>3, <1>7, <3>1, <3>2
    <3>4. QED
      BY <3>3
  <2>2. ASSUME NEW d \in Conns \ {c} PROVE Owed(d)' = Owed(d)
    <3>1. \A s : /\ s \in Owed(d)' <=> s \in Signals /\ \E e \in Conns : To(d, s) \in Queued(e)'
                 /\ s \in Owed(d) <=> s \in Signals /\ \E e \in Conns : To(d, s) \in Queued(e)
      BY OwedIsQueued
    <3>2. \A s : s \in Owed(d)' <=> s \in Owed(d)
      BY <1>6, <1>8, <3>1
    <3>3. QED
      BY <3>2
  <2>3. QED
    BY <2>1, <2>2 DEF Due
<1>10. Phases' = [Phases EXCEPT ![c] = "seated"] /\ Phases[c] = "outside"
  <2>1. Phase(c)' = "seated" /\ \A d \in Conns \ {c} : Phase(d)' = Phase(d)
    <3>1. stage'[c] = "announcing" /\ \A d \in Conns \ {c} : stage'[d] = stage[d]
      BY <1>0, <1>1
    <3>2. QED
      BY <3>1, PhaseCases DEF PhaseOf
  <2>2. QED
    BY <1>1, <2>1, PhaseCases DEF Phases, PhaseOf
<1>11. Got' = Got /\ Said' = Said
  BY <1>1 DEF Got, Said
<1>12. stored = Said[j.room][Opposite(j.role)]
  BY <1>0 DEF Said
<1>13. Opposite(j.role) = R!Opposite(j.role)
  BY DEF Opposite, R!Opposite
<1> HIDE DEF stored
<1>14. QED
  BY <1>1, <1>9, <1>10, <1>11, <1>12, <1>13 DEF R!Enter, Phases, Due, Got, Said

\* A signal that is read is said from its sender's seat, for the first time.
LEMMA SignalRefines ==
  ASSUME DeliveryInvariant, NEW c \in Conns, ReadSignal(c)
  PROVE  R!Say(c, join[c].room, join[c].role, Signal(c, lines[c] + 1))
<1> DEFINE j == join[c]
           peer == slot[j.room][Opposite(j.role)]
           s == Signal(c, lines[c] + 1)
<1>0. /\ MapInvariant /\ Ownership /\ TypeOK /\ RoomsInUse /\ SignalsWereRead
      /\ stage \in [Conns -> Stages] /\ queue \in [Conns -> Seq(Writes)]
      /\ lines \in [Conns -> 0..MaxLines]
      /\ history \in [Rooms -> [Roles -> Seq(Signals)]]
  BY DEF DeliveryInvariant, MapInvariant, Ownership, TypeOK, Delivery
<1>1. /\ stage[c] = "reading" /\ stage[c] \in Registered
      /\ lines[c] < MaxLines /\ UNCHANGED <<slot, wire>>
  BY DEF ReadSignal, Registered
<1>2. /\ j \in Joins /\ j.room \in Rooms /\ j.role \in Roles
      /\ Opposite(j.role) \in Roles /\ slot[j.room][j.role] = c
      /\ j.room \in open
  BY <1>0, <1>1, HolderOfSlot, OppositeRole, GuestsAssumption DEF RoomsInUse
<1>3. /\ history' = [history EXCEPT ![j.room][j.role] = Append(@, s)]
      /\ queue' = [queue EXCEPT ![c] = RelayWrites(j, s)]
      /\ stage' = [stage EXCEPT ![c] = IF RelayWrites(j, s) = <<>> THEN "reading"
                                       ELSE "relaying"]
  BY <1>2 DEF ReadSignal
<1>4. s \in Signals /\ s.kind = "SIG" /\ s.about = c /\ ~(s.n <= lines[c])
  <2>1. lines[c] + 1 \in 1..MaxLines
    BY <1>0, <1>1, MaxLinesAssumption
  <2>2. QED
    BY <1>0, <2>1, LineTypes, LineKinds
<1>5. /\ peer # NoConn => peer \in Conns /\ peer # c
      /\ peer \in Conns \cup {NoConn}
  <2>1. peer \in Conns \cup {NoConn}
    BY <1>0, <1>2 DEF TypeOK
  <2>2. peer # NoConn => join[peer] = [room |-> j.room, role |-> Opposite(j.role)]
    BY <1>0, <1>2, HandlerOfSlot
  <2>3. peer # NoConn => peer # c
    BY <1>2, <2>2, OppositeRole
  <2>4. QED
    BY <2>1, <2>3
<1>6. /\ Queued(c) = {}
      /\ \A d \in Conns \ {c} : Queued(d)' = Queued(d)
      /\ Queued(c)' = IF peer = NoConn THEN {} ELSE {To(peer, s)}
  <2>1. Queued(c)' = SeqToSet(RelayWrites(j, s))
    BY <1>0, <1>3 DEF Queued
  <2>2. RelayWrites(j, s) = IF peer = NoConn THEN <<>> ELSE <<To(peer, s)>>
    BY DEF RelayWrites
  <2>3. \A d \in Conns \ {c} : queue'[d] = queue[d]
    BY <1>0, <1>3
  <2> HIDE DEF peer, j, s
  <2>4. QED
    BY <1>0, <1>1, <2>1, <2>2, <2>3, SameMembers, MemberTypes, MembersOfShort DEF Writing
<1>7. R!Fresh(s)
  <2>1. \A r \in Rooms, role \in Roles : s \notin Said[r][role]
    <3> SUFFICES ASSUME NEW r \in Rooms, NEW role \in Roles, s \in SeqToSet(history[r][role])
                 PROVE  FALSE
      BY DEF Said
    <3>1. s.n <= lines[s.about]
      BY <1>0, StoredSignals
    <3>2. QED
      BY <1>4, <3>1
  <2>2. \A d \in Conns : s \notin Due[d] \cup Got[d]
    <3> SUFFICES ASSUME NEW d \in Conns, s \in Owed(d) \/ s \in Written(d) PROVE FALSE
      BY OwedIsQueued DEF Due
    <3>1. CASE s \in Owed(d)
      <4>1. PICK e \in Conns : To(d, s) \in Queued(e)
        BY <3>1, OwedIsQueued
      <4>2. To(d, s).line = s
        BY LineKinds
      <4> HIDE DEF s
      <4>3. QED
        BY <1>0, <1>4, <4>1, <4>2 DEF SignalsWereRead
    <3>2. CASE s \in Written(d)
      BY <1>0, <1>4, <3>2 DEF SignalsWereRead
    <3>3. QED
      BY <3>1, <3>2
  <2>3. R!Roles = Roles
    BY DEF Roles, R!Roles
  <2> HIDE DEF s
  <2>4. QED
    BY <2>1, <2>2, <2>3 DEF R!Fresh, Said, Due, Got
<1>8. Said' = [Said EXCEPT ![j.room][j.role] = @ \cup {s}]
  <2>1. /\ history[j.room][j.role] \in Seq(Signals)
        /\ Append(history[j.room][j.role], s) \in Seq(Signals)
    BY <1>0, <1>2, <1>4, AppendProperties
  <2>2. \A r \in Rooms, role \in Roles :
          history'[r][role] = IF r = j.room /\ role = j.role
                              THEN Append(history[j.room][j.role], s)
                              ELSE history[r][role]
    <3> HIDE DEF j, s
    <3> QED BY <1>0, <1>2, <1>3, <2>1, CellUpdate, SMTT(30)
  <2>3. SeqToSet(Append(history[j.room][j.role], s)) = SeqToSet(history[j.room][j.role]) \cup {s}
    BY <1>4, <2>1, MembersOfAppend
  <2> HIDE DEF j, s
  <2>4. \A r \in Rooms, role \in Roles :
          SeqToSet(history'[r][role]) = IF r = j.room /\ role = j.role
                                        THEN SeqToSet(history[j.room][j.role]) \cup {s}
                                        ELSE SeqToSet(history[r][role])
    BY <2>2, <2>3
  <2>5. QED
    BY <1>2, <2>4, ZenonT(60) DEF Said
<1>9. Due' = [d \in Conns |-> IF d = peer THEN Due[d] \cup {s} ELSE Due[d]]
  <2> SUFFICES ASSUME NEW d \in Conns
               PROVE  Owed(d)' = IF d = peer THEN Owed(d) \cup {s} ELSE Owed(d)
    BY DEF Due
  <2>1. \A x : /\ x \in Owed(d)' <=> x \in Signals /\ \E e \in Conns : To(d, x) \in Queued(e)'
               /\ x \in Owed(d) <=> x \in Signals /\ \E e \in Conns : To(d, x) \in Queued(e)
    BY OwedIsQueued
  <2>2. \A x : To(d, x) \in Queued(c)' <=> d = peer /\ x = s
    <3> HIDE DEF peer, s
    <3> QED BY <1>5, <1>6, LineKinds, GuestsAssumption
  <2> HIDE DEF peer, s
  <2>3. \A x : x \in Owed(d)' <=> (d = peer /\ x = s) \/ x \in Owed(d)
    BY <1>4, <1>6, <2>1, <2>2
  <2>4. QED
    BY <2>3
<1>10. Phases' = Phases /\ Phases[c] = "seated"
  <2>1. stage'[c] \in {"reading", "relaying"} /\ \A d \in Conns \ {c} : stage'[d] = stage[d]
    BY <1>0, <1>3
  <2>2. \A d \in Conns : Phase(d)' = Phase(d)
    BY <1>1, <2>1, PhaseCases DEF PhaseOf
  <2>3. QED
    BY <1>1, <2>2, PhaseCases DEF Phases, PhaseOf
<1>11. Got' = Got /\ slot' = slot
  BY <1>1 DEF Got
<1>12. Opposite(j.role) = R!Opposite(j.role)
  BY DEF Opposite, R!Opposite
<1> HIDE DEF s
<1>13. Due' = [d \in Conns |-> IF d = slot[j.room][R!Opposite(j.role)]
                              THEN Due[d] \cup {s} ELSE Due[d]]
  BY <1>9, <1>12
<1>14. UNCHANGED <<Phases, slot, Got>>
  BY <1>10, <1>11
<1>15. QED
  BY <1>2, <1>7, <1>8, <1>10, <1>13, <1>14, ZenonT(60) DEF R!Say, Phases, Due, Got, Said, s

\* A line that is written is handed over, if it is a signal.
LEMMA WriteRefines ==
  ASSUME DeliveryInvariant, NEW c \in Conns, WriteLine(c)
  PROVE  (\E d \in Conns, s \in Signals : R!Hand(d, s)) \/ UNCHANGED R!vars
<1>0. TypeOK /\ NothingTwice
  BY DEF DeliveryInvariant, MapInvariant, Ownership, Delivery
<1>1. PICK w : w = Head(queue[c])
  OBVIOUS
<1>2. /\ w \in Queued(c) /\ w = To(w.to, w.line) /\ w.to \in Conns
      /\ Queued(c)' = Queued(c) \ {w}
      /\ \A d \in Conns \ {c} : Queued(d)' = Queued(d)
      /\ Written(w.to)' = Written(w.to) \cup {w.line}
      /\ \A d \in Conns \ {w.to} : Written(d)' = Written(d)
      /\ stage[c] \in Writing
      /\ stage'[c] = IF Queued(c)' # {} THEN stage[c]
                     ELSE IF stage[c] = "rejecting" THEN "done" ELSE "reading"
      /\ \A d \in Conns \ {c} : stage'[d] = stage[d]
      /\ UNCHANGED history
  BY <1>0, <1>1, WriteEffect
<1>3. UNCHANGED slot
  BY DEF WriteLine, rooms
<1>4. \A d \in Conns : Phase(d)' = Phase(d)
  BY <1>2, PhaseCases DEF PhaseOf, Writing
<1>5. \A d \in Conns : \A s : /\ s \in Owed(d)' <=> s \in Owed(d) /\ w # To(d, s)
                              /\ w = To(d, s) /\ s \in Signals => s \in Owed(d)
  <2> SUFFICES ASSUME NEW d \in Conns, NEW s
               PROVE  /\ s \in Owed(d)' <=> s \in Owed(d) /\ w # To(d, s)
                      /\ w = To(d, s) /\ s \in Signals => s \in Owed(d)
    OBVIOUS
  <2>1. /\ s \in Owed(d)' <=> s \in Signals /\ \E e \in Conns : To(d, s) \in Queued(e)'
        /\ s \in Owed(d) <=> s \in Signals /\ \E e \in Conns : To(d, s) \in Queued(e)
    BY OwedIsQueued
  <2>2. \A e \in Conns : To(d, s) \in Queued(e)' <=> To(d, s) \in Queued(e) /\ w # To(d, s)
    BY <1>0, <1>2 DEF NothingTwice
  <2>3. QED
    BY <1>2, <2>1, <2>2
<1>6. CASE w.line \in Signals
  <2> DEFINE d == w.to
             s == w.line
  <2>1. w = To(d, s) /\ d \in Conns /\ s \in Signals
    BY <1>2, <1>6
  <2> HIDE DEF d, s
  <2>2. s \in Due[d]
    BY <1>5, <2>1 DEF Due
  <2>3. Due' = [Due EXCEPT ![d] = @ \ {s}]
    <3>1. \A e \in Conns : \A x : w = To(e, x) <=> e = d /\ x = s
      BY <2>1, LineKinds
    <3>2. \A e \in Conns : Owed(e)' = IF e = d THEN Owed(e) \ {s} ELSE Owed(e)
      <4> TAKE e \in Conns
      <4>1. \A x : x \in Owed(e)' <=> x \in Owed(e) /\ ~(e = d /\ x = s)
        BY <1>5, <3>1
      <4>2. QED
        BY <4>1
    <3>3. QED
      BY <2>1, <3>2 DEF Due
  <2>4. Got' = [Got EXCEPT ![d] = @ \cup {s}]
    <3>1. \A e \in Conns : Got'[e] = IF e = d THEN Got[e] \cup {s} ELSE Got[e]
      BY <1>2, <2>1 DEF Got, Written, d, s
    <3>2. QED
      BY <2>1, <3>1 DEF Got
  <2>5. Phases' = Phases /\ Said' = Said
    BY <1>2, <1>4 DEF Phases, Said
  <2>6. R!Hand(d, s)
    BY <1>3, <2>2, <2>3, <2>4, <2>5 DEF R!Hand, Phases, Due, Got, Said
  <2>7. QED
    BY <2>1, <2>6
<1>7. CASE w.line \notin Signals
  <2>1. \A d \in Conns, s \in Signals : w # To(d, s)
    BY <1>7, LineKinds
  <2>2. \A d \in Conns : Owed(d)' = Owed(d)
    <3> TAKE d \in Conns
    <3>1. \A s : s \in Owed(d) => s \in Signals
      BY OwedIsQueued
    <3>2. \A s : s \in Owed(d)' <=> s \in Owed(d)
      BY <1>5, <2>1, <3>1
    <3>3. QED
      BY <3>2
  <2>3. \A d \in Conns : (Written(d) \cap Signals)' = Written(d) \cap Signals
    <3> TAKE d \in Conns
    <3>1. Written(d)' = Written(d) \/ Written(d)' = Written(d) \cup {w.line}
      BY <1>2
    <3>2. Written(d)' \cap Signals = Written(d) \cap Signals
      BY <1>7, <3>1
    <3>3. QED
      BY <3>2 DEF Signals
  <2>4. UNCHANGED R!vars
    BY <1>2, <1>3, <1>4, <2>2, <2>3, Stutters
  <2>5. QED
    BY <2>4
<1>8. QED
  BY <1>6, <1>7

\* A registered handler that ends without having lost a write closes its seat.
LEMMA EndRefines ==
  ASSUME DeliveryInvariant, NEW c \in Conns, ReadEnd(c)
  PROVE  R!Close(c, join[c].room, join[c].role, c, {})
<1>0. /\ Ownership /\ stage \in [Conns -> Stages]
  BY DEF DeliveryInvariant, MapInvariant, Ownership, TypeOK
<1>1. /\ stage[c] = "reading" /\ stage[c] \in Registered
      /\ stage' = [stage EXCEPT ![c] = "leaving"]
      /\ UNCHANGED <<queue, wire, slot, history>>
  BY DEF ReadEnd, Registered, rooms
<1>2. slot[join[c].room][join[c].role] = c
  BY <1>0, <1>1, HolderOfSlot
<1>3. Phases' = [Phases EXCEPT ![c] = "closing"] /\ Phases[c] = "seated"
  <2>1. stage'[c] = "leaving" /\ \A d \in Conns \ {c} : stage'[d] = stage[d]
    BY <1>0, <1>1
  <2>2. Phase(c)' = "closing" /\ \A d \in Conns \ {c} : Phase(d)' = Phase(d)
    BY <2>1, PhaseCases DEF PhaseOf
  <2>3. QED
    BY <1>1, <2>2, PhaseCases DEF Phases, PhaseOf
<1>4. Due' = [Due EXCEPT ![c] = @ \ {}]
  <2>1. \A d \in Conns : Owed(d)' = Owed(d)
    BY <1>1 DEF Owed
  <2>2. QED
    BY <2>1 DEF Due
<1>5. Got' = Got /\ Said' = Said
  BY <1>1 DEF Got, Said
<1>6. QED
  BY <1>1, <1>2, <1>3, <1>4, <1>5 DEF R!Close, Phases, Due, Got, Said

\* A failed write costs its own client what it is owed, or the peer the signal
\* the handler was relaying; a refused client's handler only ends.
LEMMA FailRefines ==
  ASSUME DeliveryInvariant, NEW c \in Conns, FailWrite(c)
  PROVE  \/ \E d \in Conns, r \in Rooms, role \in Roles, lost \in SUBSET Signals :
              R!Close(c, r, role, d, lost)
         \/ UNCHANGED R!vars
<1>0. /\ MapInvariant /\ Ownership /\ TypeOK /\ WritesFitStage /\ NothingTwice
      /\ stage \in [Conns -> Stages] /\ queue \in [Conns -> Seq(Writes)]
  BY DEF DeliveryInvariant, MapInvariant, Ownership, TypeOK, Delivery
<1>1. /\ stage[c] \in Writing
      /\ queue' = [queue EXCEPT ![c] = <<>>]
      /\ stage' = [stage EXCEPT ![c] = AfterFailedWrite(@)]
      /\ UNCHANGED <<wire, slot, history>>
  BY DEF FailWrite, rooms
<1>2. /\ stage'[c] = IF stage[c] = "rejecting" THEN "done" ELSE "leaving"
      /\ \A d \in Conns \ {c} : stage'[d] = stage[d]
  BY <1>0, <1>1 DEF AfterFailedWrite
<1>3. /\ \A d \in Conns \ {c} : Queued(d)' = Queued(d)
      /\ Queued(c)' = {}
  <2>1. queue'[c] = <<>> /\ \A d \in Conns \ {c} : queue'[d] = queue[d]
    BY <1>0, <1>1
  <2>2. QED
    BY <2>1, SameMembers, MembersOfShort DEF Queued
<1>4. \A d \in Conns : \A s : s \in Owed(d)' <=> s \in Owed(d) /\ To(d, s) \notin Queued(c)
  <2> SUFFICES ASSUME NEW d \in Conns, NEW s
               PROVE  s \in Owed(d)' <=> s \in Owed(d) /\ To(d, s) \notin Queued(c)
    OBVIOUS
  <2>1. /\ s \in Owed(d)' <=> s \in Signals /\ \E e \in Conns : To(d, s) \in Queued(e)'
        /\ s \in Owed(d) <=> s \in Signals /\ \E e \in Conns : To(d, s) \in Queued(e)
    BY OwedIsQueued
  <2>2. \A e \in Conns : To(d, s) \in Queued(e)' <=>
          To(d, s) \in Queued(e) /\ To(d, s) \notin Queued(c)
    BY <1>0, <1>3, SMTT(30) DEF NothingTwice
  <2>3. QED
    BY <2>1, <2>2
<1>5. Got' = Got /\ Said' = Said /\ slot' = slot
  BY <1>1 DEF Got, Said
<1>6. CASE stage[c] = "rejecting"
  <2>1. \A d \in Conns : Phase(d)' = Phase(d)
    BY <1>2, <1>6, PhaseCases DEF PhaseOf
  <2>2. \A d \in Conns : Owed(d)' = Owed(d)
    <3> TAKE d \in Conns
    <3>1. \A s \in Signals : To(d, s) \notin Queued(c)
      BY <1>0, <1>6, LineKinds DEF WritesFitStage
    <3>2. \A s : s \in Owed(d) => s \in Signals
      BY OwedIsQueued
    <3>3. \A s : s \in Owed(d)' <=> s \in Owed(d)
      BY <1>4, <3>1, <3>2
    <3>4. QED
      BY <3>3
  <2>3. \A d \in Conns : (Written(d) \cap Signals)' = Written(d) \cap Signals
    BY <1>1 DEF Written, Signals
  <2>4. QED
    BY <1>1, <2>1, <2>2, <2>3, Stutters
<1>7. CASE stage[c] # "rejecting"
  <2> DEFINE r == join[c].room
             role == join[c].role
  <2>1. /\ stage[c] \in {"announcing", "relaying", "correcting"}
        /\ stage[c] \in Registered /\ stage'[c] = "leaving"
    BY <1>1, <1>2, <1>7 DEF Writing, Registered
  <2>2. r \in Rooms /\ role \in Roles /\ slot[r][role] = c
    BY <1>0, <2>1, HolderOfSlot
  <2>3. PICK d \in Conns, lost \in SUBSET Signals :
          /\ d = c \/ lost \subseteq Said[r][role]
          /\ \A e \in Conns, s \in Signals : To(e, s) \in Queued(c) <=> e = d /\ s \in lost
    <3>1. CASE stage[c] = "announcing"
      <4> DEFINE lost == {s \in Signals : To(c, s) \in Queued(c)}
      <4>1. \A e \in Conns, s \in Signals : To(e, s) \in Queued(c) => e = c
        BY <1>0, <3>1, LineKinds DEF WritesFitStage, Announcement
      <4>2. \A e \in Conns, s \in Signals : To(e, s) \in Queued(c) <=> e = c /\ s \in lost
        BY <4>1
      <4>3. lost \in SUBSET Signals
        OBVIOUS
      <4> HIDE DEF lost
      <4>4. QED
        BY <4>2, <4>3
    <3>2. CASE stage[c] = "relaying"
      <4>1. PICK w \in Queued(c) : TRUE
        BY <1>0, <1>1, MemberTypes
      <4>2. PICK p \in Conns : /\ w = To(p, Signal(c, lines[c]))
                               /\ Queued(c) = {w}
                               /\ lines[c] \in 1..MaxLines
                               /\ Signal(c, lines[c]) \in SeqToSet(history[r][role])
        BY <1>0, <3>2, <4>1 DEF WritesFitStage, Relay
      <4>3. Signal(c, lines[c]) \in Signals
        BY <4>2, LineTypes
      <4>4. {Signal(c, lines[c])} \subseteq Said[r][role]
        BY <2>2, <4>2 DEF Said
      <4>5. \A e \in Conns, s \in Signals :
              To(e, s) \in Queued(c) <=> e = p /\ s \in {Signal(c, lines[c])}
        BY <4>2, LineKinds
      <4>6. {Signal(c, lines[c])} \in SUBSET Signals
        BY <4>3
      <4>7. QED
        BY <4>4, <4>5, <4>6
    <3>3. CASE stage[c] = "correcting"
      <4>1. \A e \in Conns, s \in Signals : To(e, s) \notin Queued(c)
        BY <1>0, <3>3, LineKinds DEF WritesFitStage
      <4>2. \A e \in Conns, s \in Signals : To(e, s) \in Queued(c) <=> e = c /\ s \in {}
        BY <4>1
      <4>3. PICK none \in SUBSET Signals : none = {}
        OBVIOUS
      <4>4. QED
        BY <4>2, <4>3
    <3>4. QED
      BY <2>1, <3>1, <3>2, <3>3
  <2>4. Due' = [Due EXCEPT ![d] = @ \ lost]
    <3>1. \A e \in Conns : Owed(e)' = IF e = d THEN Owed(e) \ lost ELSE Owed(e)
      <4> TAKE e \in Conns
      <4>1. \A s : s \in Owed(e) => s \in Signals
        BY OwedIsQueued
      <4>2. \A s : s \in Owed(e)' <=> s \in Owed(e) /\ ~(e = d /\ s \in lost)
        BY <1>4, <2>3, <4>1
      <4>3. QED
        BY <4>2
    <3>2. QED
      BY <3>1 DEF Due
  <2>5. Phases' = [Phases EXCEPT ![c] = "closing"] /\ Phases[c] = "seated"
    <3>1. Phase(c)' = "closing" /\ \A e \in Conns \ {c} : Phase(e)' = Phase(e)
      BY <1>2, <2>1, PhaseCases DEF PhaseOf
    <3>2. Phases' = [Phases EXCEPT ![c] = "closing"]
      BY <3>1 DEF Phases
    <3>3. QED
      BY <2>1, <3>2, PhaseCases DEF PhaseOf
  <2>6. R!Close(c, r, role, d, lost)
    BY <1>5, <2>2, <2>3, <2>4, <2>5 DEF R!Close, Phases, Due, Got, Said
  <2>7. QED
    BY <2>2, <2>6
<1>8. QED
  BY <1>6, <1>7

\* An unregistration gives the seat back, and what was said from it goes.
LEMMA UnregisterRefines ==
  ASSUME DeliveryInvariant, NEW c \in Conns, Unregister(c)
  PROVE  R!Leave(c, join[c].room, join[c].role)
<1> DEFINE j == join[c]
<1>0. /\ MapInvariant /\ Ownership /\ TypeOK /\ StoredByOccupant
      /\ stage \in [Conns -> Stages]
      /\ history \in [Rooms -> [Roles -> Seq(Signals)]]
  BY DEF DeliveryInvariant, MapInvariant, Ownership, TypeOK, Delivery
<1>1. /\ stage[c] = "leaving" /\ stage[c] \in Registered
      /\ stage' = [stage EXCEPT ![c] = "done"]
      /\ slot' = [slot EXCEPT ![j.room][j.role] = NoConn]
      /\ history' = [history EXCEPT ![j.room] = HistoryWithout(j)]
      /\ UNCHANGED <<queue, wire>>
  BY DEF Unregister, Registered
<1>2. j.room \in Rooms /\ j.role \in Roles /\ slot[j.room][j.role] = c
  BY <1>0, <1>1, HolderOfSlot
<1>3. Phases' = [Phases EXCEPT ![c] = "left"] /\ Phases[c] = "closing"
  <2>1. stage'[c] = "done" /\ \A d \in Conns \ {c} : stage'[d] = stage[d]
    BY <1>0, <1>1
  <2>2. Phase(c)' = "left" /\ \A d \in Conns \ {c} : Phase(d)' = Phase(d)
    BY <2>1, PhaseCases DEF PhaseOf
  <2>3. QED
    BY <1>1, <2>2, PhaseCases DEF Phases, PhaseOf
<1>4. Due' = Due /\ Got' = Got
  <2>1. \A d \in Conns : Owed(d)' = Owed(d)
    BY <1>1 DEF Owed
  <2>2. QED
    BY <1>1, <2>1 DEF Due, Got
<1>5. Said' = [Said EXCEPT ![j.room][j.role] = {}]
  <2>1. \A role \in Roles : HistoryWithout(j)[role] = IF role = j.role THEN <<>>
                                                      ELSE history[j.room][role]
    <3> TAKE role \in Roles
    <3>1. CASE Empties(j)
      <4>1. HistoryWithout(j)[role] = <<>>
        BY <3>1 DEF HistoryWithout, NoHistory
      <4>2. role # j.role => history[j.room][role] = <<>>
        BY <1>0, <1>2, <3>1, OppositeRole, VacantStoresNothing DEF Empties
      <4>3. QED
        BY <4>1, <4>2
    <3>2. CASE ~Empties(j)
      BY <1>0, <1>2, <3>2 DEF HistoryWithout
    <3>3. QED
      BY <3>1, <3>2
  <2> HIDE DEF j
  <2>2. \A r \in Rooms, role \in Roles :
          SeqToSet(history'[r][role]) = IF r = j.room /\ role = j.role THEN {}
                                        ELSE SeqToSet(history[r][role])
    BY <1>0, <1>1, <1>2, <2>1, MembersOfShort
  <2> DEFINE without(x) == [r \in Rooms |-> [role \in Roles |->
                              IF r = j.room /\ role = j.role THEN x ELSE Said[r][role]]]
  <2>3. Said' = without({})
    <3>1. \A r \in Rooms, role \in Roles : Said[r][role] = SeqToSet(history[r][role])
      BY DEF Said
    <3>2. QED
      BY <2>2, <3>1 DEF Said
  <2>4. \A x : without(x) = [Said EXCEPT ![j.room][j.role] = x]
    BY <1>2 DEF Said
  <2>5. QED
    BY <2>3, <2>4
<1>6. QED
  BY <1>1, <1>2, <1>3, <1>4, <1>5 DEF R!Leave, Phases, Due, Got, Said

\* Every step of the server is a step of the promise, or none.
LEMMA StepRefines == DeliveryInvariant /\ [Next]_vars => [R!Next]_R!vars
<1> SUFFICES ASSUME DeliveryInvariant, [Next]_vars PROVE R!Next \/ UNCHANGED R!vars
  OBVIOUS
<1>0. /\ TypeOK /\ Ownership /\ lines \in [Conns -> 0..MaxLines]
      /\ R!Roles = Roles
  BY DEF DeliveryInvariant, MapInvariant, Ownership, TypeOK, Roles, R!Roles
<1>1. ASSUME NEW c \in Conns, R!TurnAway(c) PROVE R!Next
  BY <1>1 DEF R!Next
<1>2. ASSUME NEW c \in Conns, NEW r \in Rooms, NEW role \in Roles,
             \/ R!Enter(c, r, role)
             \/ \E s \in Signals : R!Say(c, r, role, s)
             \/ \E d \in Conns, lost \in SUBSET Signals : R!Close(c, r, role, d, lost)
             \/ R!Leave(c, r, role)
      PROVE  R!Next
  BY <1>0, <1>2 DEF R!Next
<1>3. ASSUME NEW c \in Conns, \E s \in Signals : R!Hand(c, s) PROVE R!Next
  BY <1>3 DEF R!Next
<1>4. ASSUME NEW c \in Conns, BadJoin(c) \/ ReadFails(c) PROVE R!Next
  <2>1. R!TurnAway(c)
    BY <1>0, <1>4, TurnAwayRefines DEF BadJoin, ReadFails, rooms
  <2>2. QED
    BY <1>1, <2>1
<1>5. ASSUME NEW c \in Conns, NEW j \in Joins, Reject(c, j) PROVE R!Next
  <2>1. R!TurnAway(c)
    BY <1>0, <1>5, TurnAwayRefines DEF Reject
  <2>2. QED
    BY <1>1, <2>1
<1>6. ASSUME NEW c \in Conns, NEW j \in Joins, Register(c, j) PROVE R!Next
  <2>1. j.room \in Rooms /\ j.role \in Roles
    BY DEF Joins
  <2>2. QED
    BY <1>2, <1>6, <2>1, RegisterRefines
<1>7. ASSUME NEW c \in Conns, ReadSignal(c) PROVE R!Next
  <2>1. /\ stage[c] \in Registered /\ lines[c] < MaxLines
    BY <1>7 DEF ReadSignal, Registered
  <2>2. join[c].room \in Rooms /\ join[c].role \in Roles
    BY <1>0, <2>1, HolderOfSlot
  <2>3. Signal(c, lines[c] + 1) \in Signals
    BY <1>0, <2>1, LineTypes, MaxLinesAssumption
  <2>4. QED
    BY <1>2, <1>7, <2>2, <2>3, SignalRefines
<1>8. ASSUME NEW c \in Conns, ReadInvalid(c) PROVE UNCHANGED R!vars
  <2>1. /\ stage[c] = "reading" /\ UNCHANGED <<wire, slot, history>>
        /\ stage' = [stage EXCEPT ![c] = "correcting"]
        /\ queue' = [queue EXCEPT ![c] = <<To(c, Failure)>>]
    BY <1>8 DEF ReadInvalid, rooms
  <2>2. \A d \in Conns : Owed(d)' = Owed(d)
    BY <1>0, <2>1, AnswerOwesNothing DEF Writing
  <2>3. \A d \in Conns : Phase(d)' = Phase(d)
    <3>1. stage'[c] = "correcting" /\ \A d \in Conns \ {c} : stage'[d] = stage[d]
      BY <1>0, <2>1 DEF TypeOK
    <3>2. QED
      BY <2>1, <3>1, PhaseCases DEF PhaseOf
  <2>4. \A d \in Conns : (Written(d) \cap Signals)' = Written(d) \cap Signals
    BY <2>1 DEF Written, Signals
  <2>5. QED
    BY <2>1, <2>2, <2>3, <2>4, Stutters
<1>9. ASSUME NEW c \in Conns, WriteLine(c) PROVE R!Next \/ UNCHANGED R!vars
  BY <1>3, <1>9, WriteRefines
<1>10. ASSUME NEW c \in Conns, FailWrite(c) PROVE R!Next \/ UNCHANGED R!vars
  BY <1>2, <1>10, FailRefines
<1>11. ASSUME NEW c \in Conns, ReadEnd(c) PROVE R!Next
  <2>1. join[c].room \in Rooms /\ join[c].role \in Roles
    BY <1>0, <1>11, HolderOfSlot DEF ReadEnd, Registered
  <2>2. QED
    BY <1>2, <1>11, <2>1, EndRefines
<1>12. ASSUME NEW c \in Conns, Unregister(c) PROVE R!Next
  <2>1. join[c].room \in Rooms /\ join[c].role \in Roles
    BY <1>0, <1>12, HolderOfSlot DEF Unregister, Registered
  <2>2. QED
    BY <1>2, <1>12, <2>1, UnregisterRefines
<1>13. ASSUME UNCHANGED <<stage, queue, wire, slot, history>> PROVE UNCHANGED R!vars
  <2>1. \A d \in Conns : Owed(d)' = Owed(d) /\ Phase(d)' = Phase(d)
    BY <1>13, PhaseCases DEF Owed
  <2>2. \A d \in Conns : (Written(d) \cap Signals)' = Written(d) \cap Signals
    BY <1>13 DEF Written, Signals
  <2>3. QED
    BY <1>13, <2>1, <2>2, Stutters
<1>14. ASSUME NEW c \in Conns, Disconnect(c) \/ Stall(c) \/ Resume(c)
       PROVE  UNCHANGED R!vars
  <2>1. UNCHANGED <<stage, queue, wire, slot, history>>
    BY <1>14 DEF Disconnect, Stall, Resume, rooms
  <2>2. QED
    BY <1>13, <2>1
<1>15. CASE UNCHANGED vars
  <2>1. UNCHANGED <<stage, queue, wire, slot, history>>
    BY <1>15 DEF vars
  <2>2. QED
    BY <1>13, <2>1
<1>16. QED
  BY <1>4, <1>5, <1>6, <1>7, <1>8, <1>9, <1>10, <1>11, <1>12, <1>14, <1>15, NextCases

\* Whatever the interleaving of the handlers, the server behaves as Rendezvous.
THEOREM ServerImplementsRendezvous == Spec => ImplementsRendezvous
<1>1. QED
  BY InitRefines, StepRefines, DeliveryAlways, PTL DEF Spec, ImplementsRendezvous, R!Spec


-----------------------------------------------------------------------------
(***************************************************************************)
(* What RendezvousProofs shows of the promise holds of the server's own     *)
(* state: the instance below reads its theorems under the refinement        *)
(* mapping of SignalingServer.                                              *)
(***************************************************************************)
RP == INSTANCE RendezvousProofs WITH
        phase    <- [c \in Conns |-> Phase(c)],
        occupant <- slot,
        said     <- [r \in Rooms |-> [role \in Roles |-> SeqToSet(history[r][role])]],
        due      <- [c \in Conns |-> Owed(c)],
        got      <- [c \in Conns |-> SeqToSet(wire[c]) \cap Signals]

\* While both participants of a room are there, everything handle_client stored
\* for the one is on the other's wire or queued for it.
THEOREM NothingIsMissed == Spec => []NothingMissed
<1>1. R!Init => RP!Init
  BY DEF R!Init, RP!Init, R!Roles, RP!Roles
<1>2. R!Next => RP!Next
  BY Zenon DEF R!Next, R!TurnAway, R!Hand, R!Enter, R!Say, R!Close, R!Leave, R!Fresh,
               R!Roles, R!Opposite,
               RP!Next, RP!TurnAway, RP!Hand, RP!Enter, RP!Say, RP!Close, RP!Leave,
               RP!Fresh, RP!Roles, RP!Opposite
<1>3. UNCHANGED R!vars => UNCHANGED RP!vars
  BY DEF R!vars, RP!vars
<1>4. [R!Next]_R!vars => [RP!Next]_RP!vars
  BY <1>2, <1>3
<1>5. R!Spec => RP!Spec
  BY <1>1, <1>4, PTL DEF R!Spec, RP!Spec
<1>6. RP!NothingMissed => NothingMissed
  BY Zenon DEF NothingMissed, R!NothingMissed, R!Roles, R!Opposite,
               RP!NothingMissed, RP!Roles, RP!Opposite
<1>7. RP!Spec => [](RP!OneSeatEach /\ RP!NothingMissed /\ RP!HandedOnce)
  BY GuestsAssumption, RP!PromiseKept
<1>8. QED
  BY ServerImplementsRendezvous, <1>5, <1>6, <1>7, PTL DEF ImplementsRendezvous
=============================================================================
