---------------------------- MODULE SignalingClient ----------------------------
(***************************************************************************)
(* A client's end of the signaling connection, SignalingConnection in       *)
(* crates/app-core/src/signaling.rs: a socket that is polled, never waited  *)
(* for.  "arrived" are the complete lines in the socket and the buffer, a   *)
(* line being one of Lines; an incomplete last line changes only the        *)
(* wording of an error.  "ended" is how the server's end looks.             *)
(***************************************************************************)
EXTENDS Integers, Sequences

CONSTANTS
  Lines,      \* the lines the server may send: what poll() makes of them
  MaxArrived  \* bound: unread lines at any time

ASSUME MaxArrivedAssumption == MaxArrived \in Nat

\* A line poll() cannot make an event of: neither WAITING, PEER nor a signal.
Invalid == "invalid"

\* "none" is a client that was never connected or was dropped.
Clients ==
  [arrived : Seq(Lines), ended : {"none", "open", "eof", "reset"}, readClosed : BOOLEAN]

NoClient  == [arrived |-> <<>>, ended |-> "none", readClosed |-> FALSE]
NewClient == [arrived |-> <<>>, ended |-> "open", readClosed |-> FALSE]
Connected(c) == c.ended # "none"

\* The server and the network.
CanArrive(c) == c.ended = "open" /\ Len(c.arrived) < MaxArrived
Arrived(c, line) == [c EXCEPT !.arrived = Append(@, line)]
Ended(c, how) == [c EXCEPT !.ended = how]

SomeInvalid(c) == \E i \in 1..Len(c.arrived) : c.arrived[i] = Invalid

\* poll() fails on an end seen before, on a reset, on any invalid line, and on
\* an end with no event before it.  What it read in the same call is lost.
PollFails(c) ==
  \/ c.readClosed \/ c.ended = "reset" \/ SomeInvalid(c)
  \/ c.ended = "eof" /\ c.arrived = <<>>

\* Otherwise it returns the events in order and remembers the end.
Polled(c) == [c EXCEPT !.arrived = <<>>, !.readClosed = c.ended = "eof"]

\* send() fails once an end was read; the socket may refuse a line at any time,
\* and must accept none when the server is gone with a reset.
CanSend(c) == ~c.readClosed /\ c.ended # "reset"
=============================================================================
