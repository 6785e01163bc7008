--------------------------- MODULE KeyframeRecovery ---------------------------
(***************************************************************************)
(* The decoder-refresh bookkeeping of transport-webrtc/src/keyframe.rs, as  *)
(* operators on its record.  The instant of the last published keyframe is  *)
(* abstracted to "cooling": it lies less than 500 ms back.  The counter of  *)
(* published keyframes is a diagnostic no decision reads and is left out.   *)
(*                                                                         *)
(* An operator whose name begins with Faulty is the operator below it with  *)
(* a plausible mistake; it is not part of the code.                         *)
(***************************************************************************)
EXTENDS Integers

CONSTANTS
  MaxRequests,  \* bound: decoder refresh requests counted in one behaviour
  FirIds,       \* (sender SSRC, sequence number) pairs of full intra requests
  NoFir         \* no full intra request seen yet

ASSUME MaxRequestsAssumption == MaxRequests \in Nat
ASSUME NoFirAssumption == NoFir \notin FirIds

Recovery == [requests : 0..MaxRequests, pending : BOOLEAN, cooling : BOOLEAN,
             lastFir : FirIds \cup {NoFir}]

NewRecovery == [requests |-> 0, pending |-> FALSE, cooling |-> FALSE, lastFir |-> NoFir]

\* A picture loss indication always asks for a refresh; a full intra request
\* does unless it repeats the last one.  fir is NoFir for the former.
Observe(k, fir) ==
  IF fir # NoFir /\ k.lastFir = fir THEN k
  ELSE [k EXCEPT !.requests = @ + 1, !.pending = TRUE,
                 !.lastFir = IF fir = NoFir THEN @ ELSE fir]

\* Mistake: nothing is forced until the first keyframe has been published.
FaultyShouldForce(k) == k.pending /\ k.cooling

ShouldForce(k) == k.pending /\ ~k.cooling

\* Mistake: a keyframe answers requests that arrived during its write too.
FaultyPublished(k, requestsBeforeWrite) == [k EXCEPT !.cooling = TRUE, !.pending = FALSE]

\* A keyframe was written: requests counted before the write are answered.
Published(k, requestsBeforeWrite) ==
  [k EXCEPT !.cooling = TRUE, !.pending = k.requests > requestsBeforeWrite]

CooledDown(k) == [k EXCEPT !.cooling = FALSE]

ResetPending(k) == [k EXCEPT !.pending = FALSE, !.cooling = FALSE, !.lastFir = NoFir]
=============================================================================
