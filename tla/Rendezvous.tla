------------------------------ MODULE Rendezvous ------------------------------
(***************************************************************************)
(* What the signalling server promises, without rooms map, locks or queues. *)
(* A seat per room and role is held by at most one guest, and only that     *)
(* guest gives it back.  What a guest says is kept while it is seated.  A   *)
(* guest is owed everything its opposite has said before or says while both *)
(* are seated, and is handed each signal at most once, in no promised order.*)
(***************************************************************************)
EXTENDS Guests

CONSTANT Signals

VARIABLES
  phase,     \* phase[c]: "outside", "seated", "closing" or "left"
  occupant,  \* occupant[r][role]: the guest on that seat, or NoConn
  said,      \* said[r][role]: the signals of the seat's occupant
  due,       \* due[c]: the signals the server has undertaken to hand to c
  got        \* got[c]: the signals handed to c

vars == <<phase, occupant, said, due, got>>

Phases == {"outside", "seated", "closing", "left"}

Init ==
  /\ phase = [c \in Conns |-> "outside"]
  /\ occupant = [r \in Rooms |-> [role \in Roles |-> NoConn]]
  /\ said = [r \in Rooms |-> [role \in Roles |-> {}]]
  /\ due = [c \in Conns |-> {}]
  /\ got = [c \in Conns |-> {}]

\* A signal nobody has heard of yet.
Fresh(s) ==
  /\ \A r \in Rooms, role \in Roles : s \notin said[r][role]
  /\ \A d \in Conns : s \notin due[d] \cup got[d]

TurnAway(c) ==
  /\ phase[c] = "outside"
  /\ phase' = [phase EXCEPT ![c] = "left"]
  /\ UNCHANGED <<occupant, said, due, got>>

Enter(c, r, role) ==
  /\ phase[c] = "outside"
  /\ occupant[r][role] = NoConn
  /\ phase' = [phase EXCEPT ![c] = "seated"]
  /\ occupant' = [occupant EXCEPT ![r][role] = c]
  /\ due' = [due EXCEPT ![c] = said[r][Opposite(role)]]
  /\ UNCHANGED <<said, got>>

Say(c, r, role, s) ==
  /\ phase[c] = "seated"
  /\ occupant[r][role] = c
  /\ Fresh(s)
  /\ said' = [said EXCEPT ![r][role] = @ \cup {s}]
  /\ due' = [d \in Conns |-> IF d = occupant[r][Opposite(role)]
                             THEN due[d] \cup {s} ELSE due[d]]
  /\ UNCHANGED <<phase, occupant, got>>

Hand(d, s) ==
  /\ s \in due[d]
  /\ due' = [due EXCEPT ![d] = @ \ {s}]
  /\ got' = [got EXCEPT ![d] = @ \cup {s}]
  /\ UNCHANGED <<phase, occupant, said>>

\* A guest on its way out may cost one guest something: itself what it is
\* owed, or another one what the leaving guest has said.
Close(c, r, role, d, lost) ==
  /\ phase[c] = "seated"
  /\ occupant[r][role] = c
  /\ d = c \/ lost \subseteq said[r][role]
  /\ phase' = [phase EXCEPT ![c] = "closing"]
  /\ due' = [due EXCEPT ![d] = @ \ lost]
  /\ UNCHANGED <<occupant, said, got>>

Leave(c, r, role) ==
  /\ phase[c] = "closing"
  /\ occupant[r][role] = c
  /\ phase' = [phase EXCEPT ![c] = "left"]
  /\ occupant' = [occupant EXCEPT ![r][role] = NoConn]
  /\ said' = [said EXCEPT ![r][role] = {}]
  /\ UNCHANGED <<due, got>>

Next ==
  \E c \in Conns :
    \/ TurnAway(c)
    \/ \E s \in Signals : Hand(c, s)
    \/ \E r \in Rooms, role \in Roles :
         \/ Enter(c, r, role)
         \/ \E s \in Signals : Say(c, r, role, s)
         \/ \E d \in Conns, lost \in SUBSET Signals : Close(c, r, role, d, lost)
         \/ Leave(c, r, role)

Spec == Init /\ [][Next]_vars

-----------------------------------------------------------------------------
\* Every variable stays in its range.
TypeOK ==
  /\ phase \in [Conns -> Phases]
  /\ occupant \in [Rooms -> [Roles -> Conns \cup {NoConn}]]
  /\ said \in [Rooms -> [Roles -> SUBSET Signals]]
  /\ due \in [Conns -> SUBSET Signals]
  /\ got \in [Conns -> SUBSET Signals]

\* A guest holds one seat, exactly while it is seated or closing.
OneSeatEach ==
  \A c \in Conns :
    /\ (\E r \in Rooms, role \in Roles : occupant[r][role] = c)
         <=> phase[c] \in {"seated", "closing"}
    /\ \A r1, r2 \in Rooms, role1, role2 \in Roles :
         occupant[r1][role1] = c /\ occupant[r2][role2] = c
           => r1 = r2 /\ role1 = role2

\* Everything kept for a role is owed or was handed to the guest on the
\* opposite seat, as long as neither of the two is closing.
NothingMissed ==
  \A r \in Rooms, role \in Roles :
    LET c == occupant[r][role]
        d == occupant[r][Opposite(role)]
    IN  /\ c # NoConn /\ phase[c] = "seated"
        /\ d # NoConn /\ phase[d] = "seated"
        => said[r][role] \subseteq due[d] \cup got[d]

\* What has been handed over is never owed again.
HandedOnce == \A d \in Conns : due[d] \cap got[d] = {}
=============================================================================
