------------------------------- MODULE Algorithms -------------------------------
(***************************************************************************)
(* The sequential parts of the application, each on every input up to a     *)
(* bound: a state is one input, and a step makes the input longer.  The     *)
(* encoders keep a state from one element of the input to the next.         *)
(***************************************************************************)
EXTENDS Integers, FiniteSets, SequencesExt, TLC

CONSTANTS
  None, Invalid,
  MaxText,    \* bound: tokens of a text that is sent
  MaxSetting, \* bound: tokens of a text that is saved
  MaxServers, \* bound: tokens of the configured ICE servers
  MaxReport,  \* bound: entries of a statistics report
  MaxBuffers, \* bound: buffers and frames that are encoded
  MaxRows,    \* bound: windows of a listing
  PacketFrames, Tolerance, \* those of Encoders
  BufferSizes,             \* samples of a buffer; one without any is refused
  FrameSizes, Instants,    \* of frames
  MaxLate                  \* bound: between the end of a buffer and the next one

ASSUME AlgorithmsAssumption ==
  /\ {MaxText, MaxSetting, MaxServers, MaxReport, MaxBuffers, MaxRows, MaxLate} \subseteq Nat
  /\ Tolerance \in Nat /\ Instants \subseteq Nat
  /\ PacketFrames \in Nat \ {0} /\ BufferSizes \subseteq Nat \ {0} /\ FrameSizes \subseteq Nat

VARIABLES
  problem, input,
  opus, h264    \* the encoders: the only objects here that have a state

vars == <<problem, input, opus, h264>>

\* Small values for what the modules leave open.
Ports     == {"7", "9"}
Numerals  == {<<"7">>, <<"9">>}
Letters   == {"a", "b", "7", "9", "unknown-app"}

Wire     == INSTANCE SignalingProtocol WITH Numbers <- Ports
Settings == INSTANCE Preferences WITH Intervals <- {<<"3">>, <<"1">>, <<"1", "2">>}
Ice      == INSTANCE IcePath
Encode   == INSTANCE Encoders
Ids      == INSTANCE SourceIds
T        == INSTANCE Texts

\* The tokens of texts: those of the escapes and of the separators, and a letter.
WireTokens    == {"%", "2", "5", "0", "A", "|", "-", T!Newline, " ", "a"}
SettingTokens == {"%", "3", "D", "=", T!Newline, " ", "a"}
ServerTokens  == {"stun:", "turn:", "a", "=", "|", ",", " ", T!Newline}

\* Marks for what is missing and for what is wrong are nothing that is decoded.
ASSUME MarksAssumption ==
  /\ None # Invalid /\ None \notin Seq(WireTokens)
  /\ Invalid \notin Ports \cup {"sender", "receiver", "offer", "answer"}
  /\ Invalid \notin [type : {"offer", "answer"}, sdp : Seq(WireTokens)]
  /\ Invalid \notin [mid : {None} \cup Seq(WireTokens), index : {None} \cup Ports,
                    candidate : Seq(WireTokens)]

Reports ==
  [kind : {"pair"}, local : {1, 2}, remote : {3}, nominated : BOOLEAN, succeeded : BOOLEAN,
   traffic : {0, 5}]
    \cup {[kind |-> "local", id |-> 1, type |-> "host"], [kind |-> "local", id |-> 2, type |-> "relay"],
          [kind |-> "remote", id |-> 3, type |-> "srflx"],
          [kind |-> "inbound", lost |-> -1, received |-> 2],
          [kind |-> "inbound", lost |-> 1, received |-> 0]}

Frames ==
  [at : Instants, size : FrameSizes, force : {FALSE},
   outcome : {"unavailable", "failed", "nothing", "encoded"}]
Rows    == [window : {"7", "9"}, app : {"7", "9"}, title : {<<>>, <<"a">>, <<"-", "a">>, <<"a", " ", "b">>}]

Init ==
  /\ problem \in {"signal", "settings", "servers", "statistics", "audio", "video", "windows"}
  /\ input = <<>>
  /\ opus = Encode!NewOpus /\ h264 = Encode!NewH264

Longer(name, elements, bound) ==
  /\ problem = name /\ Len(input) < bound
  /\ \E element \in elements : input' = Append(input, element)
  /\ UNCHANGED <<problem, opus, h264>>

\* Samples that were captured.
Count == IF input = <<>> THEN 0 ELSE Last(input).first + Last(input).frames - 1

\* The next buffer begins about where the one before it ended.
EncodeBuffer ==
  /\ problem = "audio" /\ Len(input) < MaxBuffers
  /\ \E late \in (-MaxLate)..MaxLate, frames \in BufferSizes :
       LET end    == IF input = <<>> THEN MaxLate ELSE Last(input).at + Last(input).frames
           buffer == [first |-> Count + 1, at |-> end + late, frames |-> frames]
       IN /\ buffer.at >= 0
          /\ input' = Append(input, buffer) /\ opus' = Encode!EncodeAudio(opus, buffer)
  /\ UNCHANGED <<problem, h264>>

EncodeFrame ==
  /\ problem = "video" /\ Len(input) < MaxBuffers
  /\ \E frame \in Frames :
       input' = Append(input, frame) /\ h264' = Encode!EncodeVideo(h264, frame)
  /\ UNCHANGED <<problem, opus>>

Next ==
  \/ Longer("signal", WireTokens, MaxText)
  \/ Longer("settings", SettingTokens, MaxSetting)
  \/ Longer("servers", ServerTokens, MaxServers)
  \/ Longer("statistics", Reports, MaxReport)
  \/ EncodeBuffer
  \/ EncodeFrame
  \/ Longer("windows", Rows, MaxRows)

Spec == Init /\ [][Next]_vars

\* A text without the blanks at its end; a newline is no blank where it is escaped.
Unpadded(text) ==
  SubSeq(text, 1, Max({0} \cup {i \in DOMAIN text : text[i] # " "}))
-----------------------------------------------------------------------------
(***************************************************************************)
(* Signaling.                                                              *)
(***************************************************************************)
OneLine(line) ==
  Last(line) = T!Newline /\ Cardinality({i \in DOMAIN line : line[i] = T!Newline}) = 1

\* What a peer's poll() makes of a signal after its way through the server.
Received(line) == Wire!EventOf(Wire!Relayed(line))

\* Every session description and ICE candidate, whatever text it carries, is
\* one line on the wire and arrives as it was sent; of the last field, blanks
\* at the end are lost, and a media id "-" is none.  A room name that splits
\* the JOIN line is refused and never taken for another room; announcements,
\* errors and media packets arrive as well.  (A room name with a newline cannot be
\* sent on one line and is left out, and no text here has a carriage return.)
MessagesSurvive ==
  problem = "signal" =>
    LET Sent(d) == Wire!EncodeDescription(d)
        SentIce(c) == Wire!EncodeCandidate(c)
    IN /\ \A type \in {"offer", "answer"} :
            LET line == Sent(Wire!Description(type, input))
            IN OneLine(line) /\ Received(line) = Wire!Description(type, Unpadded(input))
       /\ \A mid \in {None, <<"a">>}, index \in {None, "7"} :
            LET line == SentIce(Wire!Candidate(mid, index, input))
            IN OneLine(line) /\ Received(line) = Wire!Candidate(mid, index, Unpadded(input))
       /\ LET c == Wire!Candidate(input, None, <<"a">>)
          IN /\ OneLine(SentIce(c))
             /\ Received(SentIce(c)) = IF input = <<"-">> THEN [c EXCEPT !.mid = None] ELSE c
       /\ T!Newline \notin {input[i] : i \in DOMAIN input} =>
            \A role \in {"sender", "receiver"} :
              /\ Wire!ParseJoin(Wire!EncodeJoin(input, role, "7"))
                   \in {Invalid, [room |-> T!Trim(input), role |-> role, port |-> "7"]}
              /\ Wire!EventOf(Wire!EncodeError(input))
                   \in {Invalid, [error |-> T!TrimEnd(input)]}
              /\ LET peer == [role |-> role, ip |-> "9", port |-> "7"]
                 IN Wire!EventOf(Wire!EncodePeer(peer)) = peer
       /\ LET packet == [sequence |-> "7", at |-> "9", source |-> <<"a">>, payload |-> input]
          IN Wire!DecodeMedia(Wire!EncodeMedia(packet)) = packet
-----------------------------------------------------------------------------
(***************************************************************************)
(* Preferences.                                                            *)
(***************************************************************************)
\* Two ICE servers, one with a parameter in a URL and with a login.
Servers ==
  <<[urls |-> << <<"stun:", "a">>, <<"turn:", "a", "=", "a">> >>, username |-> <<"a">>,
     credential |-> <<"b">>],
    [urls |-> << <<"stun:", "b">> >>, username |-> None, credential |-> None]>>

Saved(text, audio) ==
  [Settings!DefaultConfig EXCEPT !.room = text, !.source = text, !.audio = audio,
                                 !.interval = <<"1", "2">>, !.servers = Servers]

\* What is left of a text whose escaped form was cut off: a beginning of it.  A
\* character that was cut inside its escape leaves "%", or "%" and a digit.
HalfEscapes(c) ==
  LET escaped == Settings!EscapeValue(<<c>>)
  IN {SubSeq(escaped, 1, m) : m \in 0..(Len(escaped) - 1)}
CutShort(text) ==
  {text} \cup UNION {{SubSeq(text, 1, k - 1) \o half : half \in HalfEscapes(text[k])} :
                    k \in DOMAIN text}

\* Every setting of a file that was cut off is one that was saved, or what the
\* cut left of it; audio is wanted only with the very source it was saved with.
TornSettings(torn, saved) ==
  /\ torn.audio => saved.audio /\ torn.source = saved.source
  /\ torn.room \in {None} \cup CutShort(saved.room)
  /\ torn.source \in {None} \cup CutShort(saved.source)
  /\ Settings!FormatEntries(torn.servers) \in CutShort(Settings!FormatEntries(saved.servers))

\* What was saved is loaded again, but for blanks at the end of a value.  A file
\* that a crash has cut off anywhere is refused or gives TornSettings: the last
\* ICE server URL (or credential) that is left may lack its end, and may end in
\* half an escape, which is no beginning of what was saved.  The same holds of
\* any servers that are accepted, and they are accepted again when reloaded.
SettingsSurvive ==
  /\ problem = "settings" =>
       \A audio \in BOOLEAN :
         LET saved   == Saved(input, audio)
             content == Settings!FormatPreferences(saved)
             exact   == [saved EXCEPT !.room = Unpadded(@), !.source = Unpadded(@)]
         IN /\ Settings!ParsePreferences(content) = exact
            /\ Len(input) < MaxSetting =>
                 \A end \in 0..Len(content) :
                   LET torn == Settings!ParsePreferences(SubSeq(content, 1, end))
                   IN torn # Invalid => TornSettings(torn, exact)
  /\ problem = "servers" =>
       LET entries == Settings!ParseEntries(input)
           text    == Settings!FormatEntries(entries)
           value   == Settings!EscapeValue(text)
       IN entries # Invalid =>
            /\ Settings!ParseEntries(text) = entries
            /\ \A end \in 0..Len(value) :
                 LET torn == Settings!ParseEntries(Settings!UnescapeValue(SubSeq(value, 1, end)))
                 IN torn # Invalid => Settings!FormatEntries(torn) \in CutShort(text)
-----------------------------------------------------------------------------
(***************************************************************************)
(* Statistics.                                                             *)
(***************************************************************************)
\* Once ICE has nominated one pair, that pair is shown, in whatever order the
\* report lists its entries and however much traffic others have seen; a path
\* is called direct only if both ends are known and neither is a relay; and no
\* more is lost than was sent.
ShowsNominatedPath(report) ==
  LET known  == {report[i] : i \in 1..Len(report)}
      pairs  == {e \in known : e.kind = "pair"}
      chosen == {p \in pairs : p.nominated /\ p.succeeded}
      active == Ice!ActivePair(report)
      loss   == Ice!Metrics(report).loss
  IN /\ chosen # {} => active \in chosen
     /\ chosen = {} /\ (\E p \in pairs : p.succeeded) => active \in pairs /\ active.succeeded
     /\ Ice!Path(report) = "direct" =>
          /\ \E c \in known : c.kind = "local" /\ c.id = active.local /\ c.type # "relay"
          /\ \E c \in known : c.kind = "remote" /\ c.id = active.remote /\ c.type # "relay"
     /\ 0 <= loss.lost /\ loss.lost <= loss.total

\* It holds of every report.
NominatedPathIsShown == problem = "statistics" => ShowsNominatedPath(input)
-----------------------------------------------------------------------------
(***************************************************************************)
(* Encoders.                                                               *)
(***************************************************************************)
\* The number of the last sample in the first k packets.
LastOf(packets, k) == IF k = 0 THEN 0 ELSE packets[k].samples[PacketFrames].number

\* No packet spans a gap of the capture, and nothing is lost or repeated without
\* a gap; the stamp of a packet is off by no more than what the buffers were off.
\* Encoded frames have increasing stamps and never cover each other's time; and
\* the first of a new size is forced to be a keyframe while the encoder delivers
\* every frame it is given.
EncodersKeepTime ==
  /\ problem = "audio" =>
       /\ \A k \in 1..Len(opus.packets) :
            LET samples == opus.packets[k].samples
            IN /\ Len(samples) = PacketFrames
               /\ \A i \in 2..Len(samples) :
                    /\ samples[i].number = samples[i - 1].number + 1
                    /\ samples[i].at - samples[i - 1].at \in (1 - Tolerance)..(1 + Tolerance)
               /\ opus.packets[k].stamp - samples[1].at
                    \in -(Tolerance * Len(input))..(Tolerance * Len(input))
               /\ samples[1].number > LastOf(opus.packets, k - 1)
               /\ opus.gaps = 0 => samples[1].number = LastOf(opus.packets, k - 1) + 1
       /\ opus.gaps = 0 => Count = LastOf(opus.packets, Len(opus.packets)) + Len(opus.pending)
  /\ problem = "video" =>
       \A i \in 2..Len(h264.frames) :
         LET one == h264.frames[i - 1]  two == h264.frames[i]
         IN /\ one.stamp < two.stamp /\ one.stamp <= two.stamp - two.lasts
            /\ (\A k \in 1..Len(input) : input[k].outcome = "encoded") =>
                 two.forced = (one.size # two.size)
-----------------------------------------------------------------------------
(***************************************************************************)
(* Source ids.                                                             *)
(***************************************************************************)
Apps == [pid \in {<<"7">>} |-> <<"a">>]
RowLine(row) ==
  <<row.window, " ", "0", " ", row.app, " ", "a", " ">> \o row.title \o <<T!Newline>>
Listing ==
  LET raw[i \in 0..Len(input)] == IF i = 0 THEN <<>> ELSE raw[i - 1] \o RowLine(input[i])
  IN raw[Len(input)]

\* Every window with a title is offered, windows that exist side by side never
\* share an id, and no id is offered twice.  On macOS an id that is parsed leads
\* back to the source that got it, and to none of another kind.
IdsNameTheirSource ==
  problem = "windows" =>
    LET sources == Ids!ParseListing(Listing, Apps)
        titled  == {i \in DOMAIN input : input[i].title # <<>>}
    IN /\ \A i, j \in DOMAIN sources : sources[i].id = sources[j].id => i = j
       /\ Cardinality({SubSeq(sources[i].id, 1, 3) : i \in DOMAIN sources})
            = Cardinality({input[i].window : i \in titled})
       /\ \A kind, other \in Ids!MacKinds, n \in Numerals \cup {<<"0">>} :
            LET target == [kind |-> kind, identifier |-> n,
                           display |-> IF kind = "application" THEN <<"9">> ELSE None]
            IN Ids!ParseTarget(Ids!MacId(target), other)
                 = IF kind = other /\ n \in Numerals THEN target ELSE None
=============================================================================
