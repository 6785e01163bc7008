--------------------------- MODULE RendezvousProofs ---------------------------
(***************************************************************************)
(* The promise of the signalling server kept for every set of guests, rooms *)
(* and signals.                                                             *)
(***************************************************************************)
EXTENDS Rendezvous, TLAPS

USE GuestsAssumption

\* The two roles are each other's opposite.
LEMMA OppositeRole ==
  \A role \in Roles : /\ Opposite(role) \in Roles
                      /\ Opposite(role) # role
                      /\ Opposite(Opposite(role)) = role
BY DEF Roles, Opposite

\* Updating one cell of a table keeps the table's type and its other cells.
LEMMA CellUpdate ==
  ASSUME NEW A, NEW B, NEW S, NEW t \in [A -> [B -> S]],
         NEW a \in A, NEW b \in B, NEW x \in S
  PROVE  /\ [t EXCEPT ![a][b] = x] \in [A -> [B -> S]]
         /\ \A a1 \in A, b1 \in B :
              [t EXCEPT ![a][b] = x][a1][b1] = IF a1 = a /\ b1 = b THEN x
                                              ELSE t[a1][b1]
OBVIOUS

\* Next, action by action.
LEMMA NextCases ==
  ASSUME Next
  PROVE  \/ \E c \in Conns : TurnAway(c)
         \/ \E c \in Conns, r \in Rooms, role \in Roles : Enter(c, r, role)
         \/ \E c \in Conns, r \in Rooms, role \in Roles, s \in Signals : Say(c, r, role, s)
         \/ \E c \in Conns, s \in Signals : Hand(c, s)
         \/ \E c, d \in Conns, r \in Rooms, role \in Roles, lost \in SUBSET Signals :
              Close(c, r, role, d, lost)
         \/ \E c \in Conns, r \in Rooms, role \in Roles : Leave(c, r, role)
BY Zenon DEF Next

-----------------------------------------------------------------------------
(***************************************************************************)
(* The inductive invariant: beside the three promises, nobody speaks from a *)
(* vacant seat, nothing is owed outside, and no signal is said twice.       *)
(***************************************************************************)
VacantIsSilent ==
  \A r \in Rooms, role \in Roles : occupant[r][role] = NoConn => said[r][role] = {}

OutsideOwesNothing ==
  \A c \in Conns : phase[c] = "outside" => due[c] = {} /\ got[c] = {}

SaidOnce ==
  \A r1, r2 \in Rooms, role1, role2 \in Roles :
    r1 # r2 \/ role1 # role2 => said[r1][role1] \cap said[r2][role2] = {}

Promise ==
  /\ TypeOK /\ OneSeatEach /\ VacantIsSilent /\ OutsideOwesNothing /\ SaidOnce
  /\ HandedOnce /\ NothingMissed

\* Nobody is there at first.
LEMMA InitPromise == Init => Promise
BY DEF Init, Promise, TypeOK, Phases, OneSeatEach, VacantIsSilent, OutsideOwesNothing,
       SaidOnce, HandedOnce, NothingMissed

\* Every step keeps every variable in its range.
LEMMA TypeStep == TypeOK /\ [Next]_vars => TypeOK'
<1> SUFFICES ASSUME TypeOK, [Next]_vars PROVE TypeOK'
  OBVIOUS
<1> USE DEF TypeOK, Phases
<1>1. ASSUME NEW c \in Conns, TurnAway(c) PROVE TypeOK'
  BY <1>1 DEF TurnAway
<1>2. ASSUME NEW c \in Conns, NEW r \in Rooms, NEW role \in Roles, Enter(c, r, role)
      PROVE  TypeOK'
  BY <1>2, OppositeRole DEF Enter
<1>3. ASSUME NEW c \in Conns, NEW r \in Rooms, NEW role \in Roles, NEW s \in Signals,
             Say(c, r, role, s)
      PROVE  TypeOK'
  <2>1. said' \in [Rooms -> [Roles -> SUBSET Signals]]
    BY <1>3 DEF Say
  <2>2. due' \in [Conns -> SUBSET Signals]
    BY <1>3 DEF Say
  <2>3. QED
    BY <1>3, <2>1, <2>2 DEF Say
<1>4. ASSUME NEW c \in Conns, NEW s \in Signals, Hand(c, s) PROVE TypeOK'
  BY <1>4 DEF Hand
<1>5. ASSUME NEW c \in Conns, NEW d \in Conns, NEW r \in Rooms, NEW role \in Roles,
             NEW lost \in SUBSET Signals, Close(c, r, role, d, lost)
      PROVE  TypeOK'
  BY <1>5 DEF Close
<1>6. ASSUME NEW c \in Conns, NEW r \in Rooms, NEW role \in Roles, Leave(c, r, role)
      PROVE  TypeOK'
  BY <1>6 DEF Leave
<1>7. CASE UNCHANGED vars
  BY <1>7 DEF vars
<1>8. QED
  BY <1>1, <1>2, <1>3, <1>4, <1>5, <1>6, <1>7, NextCases

\* Seats are given and taken back one at a time.
LEMMA SeatStep == TypeOK /\ OneSeatEach /\ [Next]_vars => OneSeatEach'
<1> SUFFICES ASSUME TypeOK, OneSeatEach, [Next]_vars PROVE OneSeatEach'
  OBVIOUS
<1> USE DEF OneSeatEach
<1>0. /\ phase \in [Conns -> Phases]
      /\ occupant \in [Rooms -> [Roles -> Conns \cup {NoConn}]]
  BY DEF TypeOK
<1>1. ASSUME NEW c \in Conns, TurnAway(c) PROVE OneSeatEach'
  BY <1>0, <1>1 DEF TurnAway
<1>2. ASSUME NEW c \in Conns, NEW r \in Rooms, NEW role \in Roles, Enter(c, r, role)
      PROVE  OneSeatEach'
  <2>1. \A r1 \in Rooms, role1 \in Roles :
          occupant'[r1][role1] = IF r1 = r /\ role1 = role THEN c
                                 ELSE occupant[r1][role1]
    BY <1>0, <1>2, CellUpdate DEF Enter
  <2>2. \A r1 \in Rooms, role1 \in Roles : occupant[r1][role1] # c
    BY <1>2 DEF Enter
  <2>3. occupant[r][role] = NoConn /\ phase' = [phase EXCEPT ![c] = "seated"]
    BY <1>2 DEF Enter
  <2>4. ASSUME NEW e \in Conns, e # c
        PROVE  \A r1 \in Rooms, role1 \in Roles :
                 occupant'[r1][role1] = e <=> occupant[r1][role1] = e
    BY <2>1, <2>3, <2>4
  <2>5. QED
    BY <1>0, <2>1, <2>2, <2>3, <2>4
<1>3. ASSUME NEW c \in Conns, NEW r \in Rooms, NEW role \in Roles, NEW s \in Signals,
             Say(c, r, role, s)
      PROVE  OneSeatEach'
  BY <1>3 DEF Say
<1>4. ASSUME NEW c \in Conns, NEW s \in Signals, Hand(c, s) PROVE OneSeatEach'
  BY <1>4 DEF Hand
<1>5. ASSUME NEW c \in Conns, NEW d \in Conns, NEW r \in Rooms, NEW role \in Roles,
             NEW lost \in SUBSET Signals, Close(c, r, role, d, lost)
      PROVE  OneSeatEach'
  BY <1>0, <1>5 DEF Close
<1>6. ASSUME NEW c \in Conns, NEW r \in Rooms, NEW role \in Roles, Leave(c, r, role)
      PROVE  OneSeatEach'
  <2>1. \A r1 \in Rooms, role1 \in Roles :
          occupant'[r1][role1] = IF r1 = r /\ role1 = role THEN NoConn
                                 ELSE occupant[r1][role1]
    BY <1>0, <1>6, CellUpdate DEF Leave
  <2>2. occupant[r][role] = c /\ phase' = [phase EXCEPT ![c] = "left"]
    BY <1>6 DEF Leave
  <2>3. \A r1 \in Rooms, role1 \in Roles : occupant'[r1][role1] # c
    BY <2>1, <2>2
  <2>4. ASSUME NEW e \in Conns, e # c
        PROVE  \A r1 \in Rooms, role1 \in Roles :
                 occupant'[r1][role1] = e <=> occupant[r1][role1] = e
    BY <2>1, <2>2, <2>4
  <2>5. QED
    BY <1>0, <2>2, <2>3, <2>4
<1>7. CASE UNCHANGED vars
  BY <1>7 DEF vars
<1>8. QED
  BY <1>1, <1>2, <1>3, <1>4, <1>5, <1>6, <1>7, NextCases

\* What is said from a seat is new and ends with the seat.
LEMMA SaidStep ==
  ASSUME TypeOK, VacantIsSilent, SaidOnce, [Next]_vars
  PROVE  VacantIsSilent' /\ SaidOnce'
<1> USE DEF VacantIsSilent, SaidOnce
<1>0. /\ said \in [Rooms -> [Roles -> SUBSET Signals]]
      /\ occupant \in [Rooms -> [Roles -> Conns \cup {NoConn}]]
  BY DEF TypeOK
<1>1. ASSUME UNCHANGED <<occupant, said>> PROVE VacantIsSilent' /\ SaidOnce'
  BY <1>1
<1>2. ASSUME NEW c \in Conns, NEW r \in Rooms, NEW role \in Roles, Enter(c, r, role)
      PROVE  VacantIsSilent' /\ SaidOnce'
  <2>1. \A r1 \in Rooms, role1 \in Roles :
          occupant'[r1][role1] = IF r1 = r /\ role1 = role THEN c
                                 ELSE occupant[r1][role1]
    BY <1>0, <1>2, CellUpdate DEF Enter
  <2>2. QED
    BY <1>2, <2>1 DEF Enter
<1>3. ASSUME NEW c \in Conns, NEW r \in Rooms, NEW role \in Roles, NEW s \in Signals,
             Say(c, r, role, s)
      PROVE  VacantIsSilent' /\ SaidOnce'
  <2>1. \A r1 \in Rooms, role1 \in Roles :
          said'[r1][role1] = IF r1 = r /\ role1 = role THEN said[r][role] \cup {s}
                             ELSE said[r1][role1]
    BY <1>0, <1>3, CellUpdate DEF Say
  <2>2. /\ occupant[r][role] = c /\ UNCHANGED occupant
        /\ \A r1 \in Rooms, role1 \in Roles : s \notin said[r1][role1]
    BY <1>3 DEF Say, Fresh
  <2>3. VacantIsSilent'
    BY <2>1, <2>2
  <2>4. SaidOnce'
    BY <2>1, <2>2
  <2>5. QED
    BY <2>3, <2>4
<1>4. ASSUME NEW c \in Conns, NEW r \in Rooms, NEW role \in Roles, Leave(c, r, role)
      PROVE  VacantIsSilent' /\ SaidOnce'
  <2>1. \A r1 \in Rooms, role1 \in Roles :
          said'[r1][role1] = IF r1 = r /\ role1 = role THEN {} ELSE said[r1][role1]
    BY <1>0, <1>4, CellUpdate DEF Leave
  <2>2. \A r1 \in Rooms, role1 \in Roles :
          occupant'[r1][role1] = IF r1 = r /\ role1 = role THEN NoConn
                                 ELSE occupant[r1][role1]
    BY <1>0, <1>4, CellUpdate DEF Leave
  <2>3. QED
    BY <2>1, <2>2
<1>5. ASSUME NEW c \in Conns, NEW s \in Signals, Hand(c, s)
      PROVE  UNCHANGED <<occupant, said>>
  BY <1>5 DEF Hand
<1>6. ASSUME NEW c \in Conns, TurnAway(c) PROVE UNCHANGED <<occupant, said>>
  BY <1>6 DEF TurnAway
<1>7. ASSUME NEW c \in Conns, NEW d \in Conns, NEW r \in Rooms, NEW role \in Roles,
             NEW lost \in SUBSET Signals, Close(c, r, role, d, lost)
      PROVE  UNCHANGED <<occupant, said>>
  BY <1>7 DEF Close
<1>8. CASE UNCHANGED vars
  BY <1>1, <1>8 DEF vars
<1>9. QED
  BY <1>1, <1>2, <1>3, <1>4, <1>5, <1>6, <1>7, <1>8, NextCases

\* What is handed over was owed, and is owed no more.
LEMMA HandStep ==
  ASSUME TypeOK, OutsideOwesNothing, HandedOnce, OneSeatEach, [Next]_vars
  PROVE  OutsideOwesNothing' /\ HandedOnce'
<1> USE DEF OutsideOwesNothing, HandedOnce
<1>0. /\ due \in [Conns -> SUBSET Signals] /\ got \in [Conns -> SUBSET Signals]
      /\ phase \in [Conns -> Phases]
  BY DEF TypeOK
<1>1. ASSUME NEW c \in Conns, TurnAway(c) PROVE OutsideOwesNothing' /\ HandedOnce'
  BY <1>0, <1>1 DEF TurnAway
<1>2. ASSUME NEW c \in Conns, NEW r \in Rooms, NEW role \in Roles, Enter(c, r, role)
      PROVE  OutsideOwesNothing' /\ HandedOnce'
  BY <1>0, <1>2 DEF Enter
<1>3. ASSUME NEW c \in Conns, NEW r \in Rooms, NEW role \in Roles, NEW s \in Signals,
             Say(c, r, role, s)
      PROVE  OutsideOwesNothing' /\ HandedOnce'
  <2>1. /\ \A d \in Conns : due'[d] = IF d = occupant[r][Opposite(role)]
                                      THEN due[d] \cup {s} ELSE due[d]
        /\ \A d \in Conns : s \notin got[d]
        /\ UNCHANGED <<phase, got>>
    BY <1>3 DEF Say, Fresh
  <2>2. \A d \in Conns : d = occupant[r][Opposite(role)] => phase[d] # "outside"
    BY OppositeRole DEF OneSeatEach
  <2>3. OutsideOwesNothing'
    BY <1>0, <2>1, <2>2
  <2>4. ASSUME NEW d \in Conns PROVE due'[d] \cap got'[d] = {}
    <3>1. due'[d] = due[d] \/ due'[d] = due[d] \cup {s}
      BY <2>1
    <3>2. due[d] \cap got[d] = {} /\ s \notin got[d] /\ got'[d] = got[d]
      BY <2>1
    <3>3. QED
      BY <3>1, <3>2
  <2>5. QED
    BY <2>3, <2>4
<1>4. ASSUME NEW c \in Conns, NEW s \in Signals, Hand(c, s)
      PROVE  OutsideOwesNothing' /\ HandedOnce'
  BY <1>0, <1>4 DEF Hand
<1>5. ASSUME NEW c \in Conns, NEW d \in Conns, NEW r \in Rooms, NEW role \in Roles,
             NEW lost \in SUBSET Signals, Close(c, r, role, d, lost)
      PROVE  OutsideOwesNothing' /\ HandedOnce'
  BY <1>0, <1>5 DEF Close
<1>6. ASSUME NEW c \in Conns, NEW r \in Rooms, NEW role \in Roles, Leave(c, r, role)
      PROVE  OutsideOwesNothing' /\ HandedOnce'
  BY <1>0, <1>6 DEF Leave
<1>7. CASE UNCHANGED vars
  BY <1>7 DEF vars
<1>8. QED
  BY <1>1, <1>2, <1>3, <1>4, <1>5, <1>6, <1>7, NextCases

\* A guest is owed what has been said before it comes and what is said while it
\* is seated; only a guest that closes takes any of it away.
LEMMA MissedStep ==
  ASSUME TypeOK, OneSeatEach, VacantIsSilent, SaidOnce, NothingMissed, [Next]_vars
  PROVE  NothingMissed'
<1>0. /\ occupant \in [Rooms -> [Roles -> Conns \cup {NoConn}]]
      /\ said \in [Rooms -> [Roles -> SUBSET Signals]]
      /\ phase \in [Conns -> Phases]
      /\ due \in [Conns -> SUBSET Signals] /\ got \in [Conns -> SUBSET Signals]
      /\ occupant' \in [Rooms -> [Roles -> Conns \cup {NoConn}]]
  BY TypeStep DEF TypeOK
<1> SUFFICES ASSUME NEW r \in Rooms, NEW role \in Roles, NEW c \in Conns, NEW d \in Conns,
                    c = occupant'[r][role], d = occupant'[r][Opposite(role)],
                    phase'[c] = "seated", phase'[d] = "seated"
             PROVE  said'[r][role] \subseteq due'[d] \cup got'[d]
  BY <1>0, OppositeRole DEF NothingMissed
<1>1. ASSUME occupant[r][role] = c, occupant[r][Opposite(role)] = d,
             phase[c] = "seated", phase[d] = "seated"
      PROVE  said[r][role] \subseteq due[d] \cup got[d]
  BY <1>1 DEF NothingMissed
<1>2. ASSUME NEW e \in Conns, TurnAway(e)
      PROVE  said'[r][role] \subseteq due'[d] \cup got'[d]
  <2>1. UNCHANGED <<occupant, said, due, got>> /\ phase[c] = "seated" /\ phase[d] = "seated"
    BY <1>0, <1>2 DEF TurnAway
  <2>2. QED
    BY <1>1, <2>1
<1>3. ASSUME NEW e \in Conns, NEW r1 \in Rooms, NEW role1 \in Roles, Enter(e, r1, role1)
      PROVE  said'[r][role] \subseteq due'[d] \cup got'[d]
  <2>1. \A r2 \in Rooms, role2 \in Roles :
          occupant'[r2][role2] = IF r2 = r1 /\ role2 = role1 THEN e
                                 ELSE occupant[r2][role2]
    BY <1>0, <1>3, CellUpdate DEF Enter
  <2>2. /\ occupant[r1][role1] = NoConn /\ UNCHANGED <<said, got>>
        /\ due' = [due EXCEPT ![e] = said[r1][Opposite(role1)]]
        /\ phase[e] = "outside" /\ phase' = [phase EXCEPT ![e] = "seated"]
    BY <1>3 DEF Enter
  <2>3. \A r2 \in Rooms, role2 \in Roles : occupant[r2][role2] # e
    BY <2>2 DEF OneSeatEach
  <2>4. CASE r = r1 /\ role = role1
    BY <2>2, <2>4 DEF VacantIsSilent
  <2>5. CASE r = r1 /\ Opposite(role) = role1
    <3>1. d = e /\ Opposite(role1) = role
      BY <2>1, <2>5, OppositeRole
    <3>2. QED
      BY <1>0, <2>2, <2>5, <3>1
  <2>6. CASE ~(r = r1 /\ role = role1) /\ ~(r = r1 /\ Opposite(role) = role1)
    <3>1. c = occupant[r][role] /\ d = occupant[r][Opposite(role)]
      BY <2>1, <2>6, OppositeRole
    <3>2. c # e /\ d # e
      BY <2>3, <3>1, OppositeRole
    <3>3. phase[c] = "seated" /\ phase[d] = "seated" /\ due'[d] = due[d]
      BY <1>0, <2>2, <3>2
    <3>4. QED
      BY <1>1, <2>2, <3>1, <3>3
  <2>7. QED
    BY <2>4, <2>5, <2>6
<1>4. ASSUME NEW e \in Conns, NEW r1 \in Rooms, NEW role1 \in Roles, NEW s \in Signals,
             Say(e, r1, role1, s)
      PROVE  said'[r][role] \subseteq due'[d] \cup got'[d]
  <2>1. /\ UNCHANGED <<phase, occupant, got>>
        /\ due'[d] = IF d = occupant[r1][Opposite(role1)] THEN due[d] \cup {s} ELSE due[d]
    BY <1>4 DEF Say
  <2>2. \A r2 \in Rooms, role2 \in Roles :
          said'[r2][role2] = IF r2 = r1 /\ role2 = role1 THEN said[r1][role1] \cup {s}
                             ELSE said[r2][role2]
    BY <1>0, <1>4, CellUpdate DEF Say
  <2>3. said[r][role] \subseteq due[d] \cup got[d]
    BY <1>1, <2>1
  <2>4. QED
    BY <2>1, <2>2, <2>3
<1>5. ASSUME NEW e \in Conns, NEW s \in Signals, Hand(e, s)
      PROVE  said'[r][role] \subseteq due'[d] \cup got'[d]
  <2>1. UNCHANGED <<phase, occupant, said>> /\ due[d] \cup got[d] \subseteq due'[d] \cup got'[d]
    BY <1>0, <1>5 DEF Hand
  <2>2. QED
    BY <1>1, <2>1
<1>6. ASSUME NEW e \in Conns, NEW x \in Conns, NEW r1 \in Rooms, NEW role1 \in Roles,
             NEW lost \in SUBSET Signals, Close(e, r1, role1, x, lost)
      PROVE  said'[r][role] \subseteq due'[d] \cup got'[d]
  <2>1. /\ occupant[r1][role1] = e /\ UNCHANGED <<occupant, said, got>>
        /\ x = e \/ lost \subseteq said[r1][role1]
        /\ due'[d] = IF d = x THEN due[d] \ lost ELSE due[d]
        /\ c # e /\ d # e /\ phase[c] = "seated" /\ phase[d] = "seated"
    BY <1>0, <1>6 DEF Close
  <2>2. said[r][role] \subseteq due[d] \cup got[d]
    BY <1>1, <2>1
  <2>3. d = x => lost \cap said[r][role] = {}
    BY <2>1 DEF SaidOnce
  <2>4. QED
    BY <2>1, <2>2, <2>3
<1>7. ASSUME NEW e \in Conns, NEW r1 \in Rooms, NEW role1 \in Roles, Leave(e, r1, role1)
      PROVE  said'[r][role] \subseteq due'[d] \cup got'[d]
  <2>1. \A r2 \in Rooms, role2 \in Roles :
          /\ occupant'[r2][role2] = IF r2 = r1 /\ role2 = role1 THEN NoConn
                                    ELSE occupant[r2][role2]
          /\ said'[r2][role2] = IF r2 = r1 /\ role2 = role1 THEN {}
                                ELSE said[r2][role2]
    BY <1>0, <1>7, CellUpdate DEF Leave
  <2>2. c = occupant[r][role] /\ d = occupant[r][Opposite(role)]
    BY <2>1, OppositeRole
  <2>3. phase[c] = "seated" /\ phase[d] = "seated" /\ UNCHANGED <<due, got>>
    BY <1>0, <1>7 DEF Leave
  <2>4. QED
    BY <1>1, <2>1, <2>2, <2>3
<1>8. CASE UNCHANGED vars
  BY <1>1, <1>8 DEF vars
<1>9. QED
  BY <1>2, <1>3, <1>4, <1>5, <1>6, <1>7, <1>8, NextCases

\* The promise holds in every reachable state: nobody loses or shares a seat,
\* nothing kept is missed by the opposite guest, and nothing is handed twice.
THEOREM PromiseKept == Spec => [](OneSeatEach /\ NothingMissed /\ HandedOnce)
<1>1. Init => Promise
  BY InitPromise
<1>2. Promise /\ [Next]_vars => Promise'
  BY TypeStep, SeatStep, SaidStep, HandStep, MissedStep DEF Promise
<1>3. Promise => OneSeatEach /\ NothingMissed /\ HandedOnce
  BY DEF Promise
<1>4. QED
  BY <1>1, <1>2, <1>3, PTL DEF Spec
=============================================================================
