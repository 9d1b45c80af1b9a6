----------------------------- MODULE RtpStream ------------------------------
(***************************************************************************)
(* The sender, frame by frame and with any codec, and what the receiver    *)
(* makes of a datagram of its or of anybody's: the network delivers in any *)
(* order, again or never.  The sleep between frames is a delay of any      *)
(* length.                                                                 *)
(***************************************************************************)
EXTENDS Payload

CONSTANTS
  FrameMs,                      \* kFrameDurationMs
  MaxDatagramBytes,             \* kMaxDatagramBytes, on both sides
  SlotBytes,                    \* sizeof(Slot::payload)
  StartSeq, StartTimestamp,     \* drawn at random
  Ssrc,
  Recordings,                   \* bound: the contents of the input file
  Strays                        \* bound: datagrams of other programs

ASSUME StreamAssumption ==
  /\ FrameMs \in Nat
  /\ StartSeq \in 0 .. (SeqMod - 1) /\ {StartTimestamp, Ssrc} \subseteq 0 .. (TimestampMod - 1)
  /\ Recordings \subseteq Seq(Samples) /\ Strays \subseteq Seq(0 .. 255)
  \* kFrameBytesPcm, the largest payload the sender makes of its 160 samples
  /\ 2 * FrameSamples <= SlotBytes
  /\ AdpcmStateHeaderBytes + (FrameSamples + 1) \div 2 <= SlotBytes
  /\ SlotBytes + HeaderBytes <= MaxDatagramBytes
  /\ {SlotBytes, MaxDatagramBytes} \subseteq Nat

VARIABLES
  recording,                    \* wav.samples
  sent, first_packet, header, adpcm_state,
  outcome,                      \* "sending", or how main returns
  wire,                         \* datagrams handed to the socket, with what they hold
  decoded,                      \* the packet last played, and its samples
  heard                         \* history: what is to be heard of the frames sent

sender == <<recording, sent, first_packet, header, adpcm_state, outcome, wire, heard>>
vars == <<sender, decoded>>

Nothing == [first |-> -1, samples |-> <<>>]
-----------------------------------------------------------------------------
StreamInit ==
  /\ recording \in Recordings
  /\ sent = 0 /\ first_packet = TRUE /\ adpcm_state = FreshState /\ outcome = "sending"
  /\ header \in [marker : {FALSE}, payload_type : PayloadTypes, sequence_number : {StartSeq},
                 timestamp : {StartTimestamp}, ssrc : {Ssrc}]
  /\ wire = {} /\ heard = <<>> /\ decoded = Nothing

\* Faults: the timestamp advances by milliseconds, the sequence number is not cut
\* to 16 bits.
TimestampMs(n) == FrameMs
NextSeqWide(s) == s + 1

TimestampStep(n) == n
NextSeq(s) == (s + 1) % SeqMod

Frame == SubSeq(recording, sent + 1, Smaller(sent + FrameSamples, Len(recording)))

\* What the codec lets through: the mu-law codec has no state, and the ADPCM
\* decoder is where the encoder takes it to be.
Heard(states) ==
  IF header.payload_type = PayloadTypeAdpcm
    THEN [i \in DOMAIN Frame |-> states[i].predictor] ELSE Frame

SendFrame ==
  LET n == Len(Frame)
      states == EncoderStates(Frame, adpcm_state)
      stamped == [header EXCEPT !.marker = first_packet]
      payload == EncodePayload(header.payload_type, Frame, adpcm_state)
      bytes == Serialize(stamped, payload, MaxDatagramBytes)
  IN  /\ outcome = "sending" /\ sent < Len(recording)
      /\ bytes # <<>>
      /\ wire' = wire \cup {[header |-> stamped, payload |-> payload, bytes |-> bytes,
                             first |-> sent]}
      /\ first_packet' = FALSE
      /\ header' = [stamped EXCEPT !.sequence_number = NextSeq(@),
                                   !.timestamp = (@ + TimestampStep(n)) % TimestampMod]
      /\ adpcm_state' = IF header.payload_type = PayloadTypeAdpcm THEN states[n] ELSE adpcm_state
      /\ sent' = sent + n
      /\ heard' = heard \o Heard(states)
      /\ UNCHANGED <<recording, outcome, decoded>>

\* sendto fails, or sends less, or a frame does not fit: main catches it and returns 1.
SendFails ==
  /\ outcome = "sending" /\ sent < Len(recording)
  /\ outcome' = "failed"
  /\ UNCHANGED <<recording, sent, first_packet, header, adpcm_state, wire, heard, decoded>>

SendingEnds ==
  /\ outcome = "sending" /\ sent = Len(recording)
  /\ outcome' = "sent"
  /\ UNCHANGED <<recording, sent, first_packet, header, adpcm_state, wire, heard, decoded>>

\* recvfrom cuts a datagram to the buffer, and push a payload to the slot.
Received(bytes) == Prefix(bytes, MaxDatagramBytes)
Stored(payload) == Prefix(payload, SlotBytes)

\* A datagram parse refuses is dropped.
Arrives(bytes, first) ==
  LET packet == Parse(Received(bytes))
  IN  /\ WellFormed(Received(bytes))
      /\ decoded' = [first |-> first,
                     samples |-> DecodeSlot(packet.header.payload_type, Stored(packet.payload))]
      /\ UNCHANGED sender

StreamNext ==
  \/ SendFrame \/ SendFails \/ SendingEnds
  \/ \E p \in wire : Arrives(p.bytes, p.first)
  \/ \E bytes \in Strays : Arrives(bytes, -1)

StreamSpec == StreamInit /\ [][StreamNext]_vars
-----------------------------------------------------------------------------
(* Properties *)

\* The types; whatever arrives and is not refused plays for exactly one frame, of
\* 16-bit samples.
StreamTypeOK ==
  /\ recording \in Recordings /\ sent \in 0 .. Len(recording) /\ adpcm_state \in AdpcmStates
  /\ first_packet \in BOOLEAN /\ header \in Headers /\ outcome \in {"sending", "sent", "failed"}
  /\ \A p \in wire : p.first \in 0 .. (sent - 1) /\ p.bytes \in Seq(0 .. 255)
  /\ Len(heard) = sent
  /\ decoded # Nothing => Len(decoded.samples) = FrameSamples
  /\ \A i \in DOMAIN decoded.samples : decoded.samples[i] \in Samples

\* Half a step of a mu-law segment: a thirty-second of the biased magnitude, and
\* never the other sign.
CloseUlaw(sample, played) ==
  LET off == IF sample < 0 THEN Magnitude(sample) + played ELSE Magnitude(sample) - played
  IN  /\ -(Magnitude(sample) + UlawBias) <= 32 * off
      /\ 32 * off <= Magnitude(sample) + UlawBias
      /\ IF sample < 0 THEN played <= 0 ELSE played >= 0

\* A packet plays as the samples it was made from, whichever packets were lost,
\* repeated or overtaken before it: PCM to the bit, ADPCM to the bit of what the
\* encoder left the decoder at, mu-law to half a step.  After the last sample come
\* zeros, and in an ADPCM frame of odd length one more sample from the empty nibble.
PlayedAsSent ==
  LET n == Smaller(FrameSamples, Len(recording) - decoded.first) IN
  decoded.first >= 0 =>
    \A i \in 1 .. FrameSamples :
      /\ i <= n => IF header.payload_type = PayloadTypePcmu
                     THEN CloseUlaw(heard[decoded.first + i], decoded.samples[i])
                     ELSE decoded.samples[i] = heard[decoded.first + i]
      /\ i > n + (IF header.payload_type = PayloadTypeAdpcm THEN n % 2 ELSE 0)
           => decoded.samples[i] = 0

\* Every datagram the sender makes passes the receiver's checks, whole, and parses
\* to the header and the payload it was made from.
ParsedAsSent ==
  \A p \in wire : /\ WellFormed(p.bytes) /\ Len(p.bytes) <= MaxDatagramBytes
                  /\ Parse(p.bytes) = [header |-> p.header, payload |-> p.payload]
                  /\ Len(p.payload) <= SlotBytes

\* The packet that starts at a sample carries that sample's frame in its sequence
\* number and the sample itself in its timestamp, each counted from its random start
\* and past its own wrap: position by sequence number and time by timestamp agree,
\* which the jitter buffer's deadlines and its estimate rely on.
TimestampFollowsSequence ==
  \A p \in wire :
    /\ p.first % FrameSamples = 0
    /\ p.header.sequence_number = (StartSeq + p.first \div FrameSamples) % SeqMod
    /\ p.header.timestamp = (StartTimestamp + p.first) % TimestampMod
=============================================================================
