--------------------------- MODULE SignalingProtocol ---------------------------
(***************************************************************************)
(* The lines clients and server exchange, and the packets of the mock       *)
(* media: crates/app-core/src/protocol.rs.  Encoders give texts, decoders    *)
(* what was decoded or Invalid.                                             *)
(***************************************************************************)
EXTENDS Texts

CONSTANTS
  None,     \* an Option without a value
  Invalid,  \* a ProtocolError
  Numbers   \* the tokens that parse as a number of the type that is wanted

\* Role and SdpType: parsing gives back what was displayed, and nothing else
\* parses.
RoleOf(text) == IF text \in {<<"sender">>, <<"receiver">>} THEN Head(text) ELSE Invalid
Opposite(role) == IF role = "sender" THEN "receiver" ELSE "sender"
SdpTypeOf(text) == IF text \in {<<"offer">>, <<"answer">>} THEN Head(text) ELSE Invalid

NumberOf(text) == IF Len(text) = 1 /\ Head(text) \in Numbers THEN Head(text) ELSE Invalid

\* parse_join_request, and the request a client writes
EncodeJoin(room, role, port) == <<"JOIN", " ">> \o room \o <<" ", role, " ", port>>
ParseJoin(line) ==
  LET words == Words(line)
      join  == [room |-> words[2], role |-> RoleOf(words[3]), port |-> NumberOf(words[4])]
  IN IF Len(words) = 4 /\ words[1] = <<"JOIN">> /\ Invalid \notin {join.role, join.port}
       THEN join ELSE Invalid

EncodeWaiting == <<"WAITING", Newline>>
EncodePeer(peer) == <<"PEER", " ", peer.role, " ", peer.ip, " ", peer.port, Newline>>
EncodeError(message) == <<"ERROR", " ">> \o message \o <<Newline>>

\* parse_peer_message: None for WAITING; the text of an error is kept.
ParsePeer(line) ==
  LET trimmed == Trim(line)
      words   == Words(trimmed)
      peer    == [role |-> RoleOf(words[2]), ip |-> NumberOf(words[3]), port |-> NumberOf(words[4])]
  IN CASE trimmed = <<"WAITING">> -> None
       [] Len(words) = 4 /\ words[1] = <<"PEER">> ->
            IF Invalid \in {peer.role, peer.ip, peer.port} THEN Invalid ELSE peer
       [] IsPrefix(<<"ERROR", " ">>, trimmed) -> [error |-> SubSeq(trimmed, 3, Len(trimmed))]
       [] OTHER -> Invalid

EncodeMedia(packet) ==
  <<"FRAME", "|", packet.sequence, "|", packet.at, "|">> \o packet.source \o <<"|">> \o packet.payload
DecodeMedia(bytes) ==
  LET parts  == SplitN(bytes, {"|"}, 5)
      packet == [sequence |-> NumberOf(parts[2]), at |-> NumberOf(parts[3]),
                 source |-> parts[4], payload |-> parts[5]]
  IN IF Len(parts) = 5 /\ parts[1] = <<"FRAME">> /\ Invalid \notin {packet.sequence, packet.at}
       THEN packet ELSE Invalid

EscapePayload(text) ==
  Escape(Escape(Escape(text, "%", "2", "5"), "|", "7", "C"), Newline, "0", "A")

\* Mistake: percent signs are restored first.
FaultyUnescapePayload(text) ==
  Unescape(Unescape(Unescape(text, "%", "2", "5"), "|", "7", "C"), Newline, "0", "A")

UnescapePayload(text) ==
  Unescape(Unescape(Unescape(text, Newline, "0", "A"), "|", "7", "C"), "%", "2", "5")

EscapeOptional(value) == IF value = None THEN <<"-">> ELSE EscapePayload(value)
UnescapeOptional(text) == IF text = <<"-">> THEN None ELSE UnescapePayload(text)

Description(type, sdp) == [type |-> type, sdp |-> sdp]
Candidate(mid, index, candidate) == [mid |-> mid, index |-> index, candidate |-> candidate]

EncodeDescription(d) == <<"SIG", "|", "SDP", "|", d.type, "|">> \o EscapePayload(d.sdp) \o <<Newline>>
EncodeCandidate(c) ==
  <<"SIG", "|", "ICE", "|">> \o EscapeOptional(c.mid)
    \o <<"|", IF c.index = None THEN "-" ELSE c.index, "|">> \o EscapePayload(c.candidate) \o <<Newline>>

\* decode_signaling_message
DecodeSignal(line) ==
  LET parts == Split(Trim(line), {"|"})
      type  == SdpTypeOf(parts[3])
      index == IF parts[4] = <<"-">> THEN None ELSE NumberOf(parts[4])
  IN CASE Len(parts) = 4 /\ parts[1] = <<"SIG">> /\ parts[2] = <<"SDP">> /\ type # Invalid ->
            Description(type, UnescapePayload(parts[4]))
       [] Len(parts) = 5 /\ parts[1] = <<"SIG">> /\ parts[2] = <<"ICE">> /\ index # Invalid ->
            Candidate(UnescapeOptional(parts[3]), index, UnescapePayload(parts[5]))
       [] OTHER -> Invalid

\* What poll() makes of a line it has read: nothing, WAITING (None), a peer, a
\* signal or a failure.
Skipped == "skipped"
EventOf(line) ==
  LET trimmed == Trim(line)
  IN IF trimmed = <<>> THEN Skipped
     ELSE IF IsPrefix(<<"SIG", "|">>, trimmed) THEN DecodeSignal(trimmed) ELSE ParsePeer(trimmed)

\* The server relays a signal that decodes, trimmed and with one newline.
Relayed(line) == IF DecodeSignal(line) = Invalid THEN Invalid ELSE Append(Trim(line), Newline)
=============================================================================
