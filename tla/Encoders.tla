-------------------------------- MODULE Encoders --------------------------------
(***************************************************************************)
(* The bookkeeping around the codecs: OpusEncoder of                        *)
(* crates/media-codec/src/audio.rs and H264Encoder of video.rs (on macOS).  *)
(* A sample of audio is known by its number and the instant it was captured *)
(* at, and one sample lasts one unit of time.                               *)
(***************************************************************************)
EXTENDS Integers, Sequences

CONSTANTS
  PacketFrames,  \* PACKET_FRAMES: samples of a packet (960 in the code)
  Tolerance      \* how far a buffer may be from where it is expected (1 ms)

Never == -1

NewOpus == [pending |-> <<>>, stamp |-> Never, expected |-> Never, gaps |-> 0, packets |-> <<>>]

\* reset.  Mistake: the samples before the gap stay.
FaultyResetOpus(opus) == [opus EXCEPT !.stamp = Never, !.expected = Never]

ResetOpus(opus) == [opus EXCEPT !.pending = <<>>, !.stamp = Never, !.expected = Never]

Discontinuous(opus, at) ==
  opus.expected # Never /\ (at > opus.expected + Tolerance \/ at < opus.expected - Tolerance)

\* A packet, once there are enough samples: in the order of their capture, with
\* a stamp.
Drained(opus) ==
  IF Len(opus.pending) < PacketFrames THEN opus
  ELSE LET packet == [stamp |-> opus.stamp, samples |-> SubSeq(opus.pending, 1, PacketFrames)]
       IN [opus EXCEPT !.pending = SubSeq(@, PacketFrames + 1, Len(@)),
                       !.stamp = @ + PacketFrames, !.packets = Append(@, packet)]

\* All packets that are full: no more than there are samples.
Packetized(opus) ==
  LET most == Len(opus.pending)
      drained[i \in 0..most] == IF i = 0 THEN opus ELSE Drained(drained[i - 1])
  IN drained[most]

Samples(buffer) ==
  [i \in 1..buffer.frames |-> [number |-> buffer.first + i - 1, at |-> buffer.at + i - 1]]

\* OpusEncoder::encode, for a buffer of its format that begins at an instant.
\* Left out: a failure of the codec and an overflow of a stamp, after which the
\* worker ends and the encoder is dropped.
EncodeAudio(opus, buffer) ==
  LET gap    == Discontinuous(opus, buffer.at)
      joined == IF gap THEN [ResetOpus(opus) EXCEPT !.gaps = @ + 1] ELSE opus
  IN Packetized([joined EXCEPT
       !.stamp = IF joined.pending = <<>> THEN buffer.at ELSE @,
       !.expected = buffer.at + buffer.frames,
       !.pending = @ \o Samples(buffer)])

NewH264 == [last |-> Never, size |-> Never, frames |-> <<>>]

\* validate_frame accepts a size from 1 to the limits; sizes are rounded up to
\* even ones.
Even(size) == ((size + 1) \div 2) * 2

\* H264Encoder::encode.  "outcome" is that of the native encoder: a frame,
\* nothing, or a failure, after which the new session of a changed size stays.
EncodeVideo(h264, frame) ==
  LET size    == Even(frame.size)
      encoded == [stamp |-> frame.at, size |-> size, forced |-> frame.force \/ h264.size # size,
                  lasts |-> frame.at - h264.last]
  IN IF frame.size = 0 \/ frame.at <= h264.last THEN h264
     ELSE CASE frame.outcome = "unavailable" -> h264
            [] frame.outcome = "failed" -> [h264 EXCEPT !.size = size]
            [] frame.outcome = "nothing" -> [h264 EXCEPT !.size = size, !.last = frame.at]
            [] frame.outcome = "encoded" ->
                 [last |-> frame.at, size |-> size, frames |-> Append(h264.frames, encoded)]
=============================================================================
