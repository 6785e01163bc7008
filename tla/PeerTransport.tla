----------------------------- MODULE PeerTransport -----------------------------
(***************************************************************************)
(* The negotiation of TransportSession in crates/transport-webrtc/src/      *)
(* lib.rs, as operators on one record per peer connection.  Counters,       *)
(* statistics and descriptions of media are left out: no decision reads     *)
(* them.  What the WebRTC library itself does is known from its use:        *)
(* "signaling" is its offer/answer state, and a call it may refuse is       *)
(* allowed to fail by the module that makes it.                             *)
(***************************************************************************)
EXTENDS Integers

CONSTANT MaxCandidates  \* bound: local candidates gathered by one transport

ASSUME MaxCandidatesAssumption == MaxCandidates \in Nat

TransportRoles == {"host", "viewer"}
Kinds == {"none", "offer", "answer"}
ConnectionStates == {"new", "connecting", "connected", "disconnected", "failed", "closed"}

\* local_candidates holds the gathered candidates nobody has drained yet: those
\* with a number in drained+1..gathered.
Transports(Ids) ==
  [id : Ids, role : TransportRoles, signaling : {"stable", "have-local-offer", "closed"},
   local : Kinds, remote : Kinds, gathered : 0..MaxCandidates,
   drained : 0..MaxCandidates, state : ConnectionStates]

NewTransport(id, role) ==
  [id |-> id, role |-> role, signaling |-> "stable", local |-> "none", remote |-> "none",
   gathered |-> 0, drained |-> 0, state |-> "new"]

\* Only a host attaches media tracks and can publish.
CanPublish(t) == t.role = "host"

\* A new offer may replace an unanswered one.
CanCreateOffer(t) == t.signaling # "closed"
WithLocalOffer(t) == [t EXCEPT !.signaling = "have-local-offer", !.local = "offer"]

CanAcceptOffer(t) == t.signaling = "stable"
WithRemoteOffer(t) == [t EXCEPT !.local = "answer", !.remote = "offer"]

CanAcceptAnswer(t) == t.signaling = "have-local-offer"
WithRemoteAnswer(t) == [t EXCEPT !.signaling = "stable", !.remote = "answer"]

\* A remote candidate needs a remote description; nothing but a count changes.
CanAddCandidate(t) == t.signaling # "closed" /\ t.remote # "none"

\* Candidates are gathered once there is a local description.
CanGather(t) ==
  t.signaling # "closed" /\ t.local # "none" /\ t.gathered < MaxCandidates
Gathered(t) == [t EXCEPT !.gathered = @ + 1]

Drained(t) == [t EXCEPT !.drained = t.gathered]

\* The connection's state changes as the library says; nothing follows "closed".
StatesAfter(t) == IF t.signaling = "closed" THEN {} ELSE ConnectionStates \ {"new", "closed"}
WithState(t, state) == [t EXCEPT !.state = state]

Closed(t) == [t EXCEPT !.signaling = "closed", !.state = "closed"]
=============================================================================
