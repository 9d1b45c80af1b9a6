------------------------------ MODULE Payload -------------------------------
(***************************************************************************)
(* Frames of samples as payloads, one way per payload type: the branches   *)
(* of the sender's loop and of decode_slot.  An ADPCM payload starts with  *)
(* the codec state its first sample was coded from; the receiver keeps no  *)
(* codec state of its own.                                                 *)
(***************************************************************************)
EXTENDS Adpcm, Ulaw, RtpPacket

CONSTANT FrameSamples                     \* kFrameSamples

ASSUME FrameAssumption == FrameSamples \in Nat \ {0}

AdpcmStateHeaderBytes == 4
Smaller(a, b) == IF a < b THEN a ELSE b
Prefix(bytes, n) == SubSeq(bytes, 1, Smaller(n, Len(bytes)))
-----------------------------------------------------------------------------
(* 16-bit numbers: two's complement in an unsigned word. *)

ToWord(x) == x % 65536
FromWord(w) == IF w < 32768 THEN w ELSE w - 65536

\* Raw PCM is copied as it lies in the memory of a little-endian machine.
EncodePcm(frame) ==
  [k \in 1 .. 2 * Len(frame) |->
     IF k % 2 = 1 THEN ToWord(frame[(k + 1) \div 2]) % 256 ELSE ToWord(frame[k \div 2]) \div 256]
DecodePcm(payload) ==
  [i \in 1 .. Len(payload) \div 2 |-> FromWord(payload[2 * i - 1] + 256 * payload[2 * i])]
-----------------------------------------------------------------------------
(* ADPCM frames. *)

\* The states encode_sample goes through over a frame; states[0] is the first.
EncoderStates(frame, state) ==
  LET states[i \in 0 .. Len(frame)] ==
        IF i = 0 THEN state ELSE EncodeSample(frame[i], states[i - 1]).state
  IN  states

\* Two codes to a byte, low nibble first; the last high nibble of an odd frame is 0.
EncodeAdpcm(frame, state) ==
  LET states == EncoderStates(frame, state)
      CodeOf(i) == IF i <= Len(frame) THEN EncodeSample(frame[i], states[i - 1]).code ELSE 0
  IN  [k \in 1 .. (Len(frame) + 1) \div 2 |-> CodeOf(2 * k - 1) + 16 * CodeOf(2 * k)]

Nibble(bytes, i) ==
  IF i % 2 = 1 THEN bytes[(i + 1) \div 2] % 16 ELSE bytes[i \div 2] \div 16

\* The states decode_sample goes through over n samples.
DecoderStates(bytes, n, state) ==
  LET states[i \in 0 .. n] ==
        IF i = 0 THEN state ELSE DecodeSample(Nibble(bytes, i), states[i - 1])
  IN  states

DecodeAdpcm(bytes, n, state) ==
  LET states == DecoderStates(bytes, n, state) IN [i \in 1 .. n |-> states[i].predictor]

\* The predictor's high byte first; the fourth byte is reserved.
PackState(state) ==
  <<ToWord(state.predictor) \div 256, ToWord(state.predictor) % 256, state.step_index, 0>>
UnpackState(bytes) ==
  [predictor |-> FromWord(bytes[1] * 256 + bytes[2]), step_index |-> Smaller(bytes[3], MaxIndex)]
-----------------------------------------------------------------------------
\* Fault: the payload starts with the state after the frame.
StateAfter(before, after) == after

StateSent(before, after) == before

EncodePayload(payload_type, frame, state) ==
  CASE payload_type = PayloadTypePcm -> EncodePcm(frame)
    [] payload_type = PayloadTypePcmu -> UlawEncodeFrame(frame)
    [] payload_type = PayloadTypeAdpcm ->
         PackState(StateSent(state, EncoderStates(frame, state)[Len(frame)]))
           \o EncodeAdpcm(frame, state)

\* The samples a payload has, at most a frame of them.
DecodedSamples(payload_type, payload) ==
  CASE payload_type = PayloadTypePcm -> DecodePcm(Prefix(payload, 2 * FrameSamples))
    [] payload_type = PayloadTypePcmu -> UlawDecodeFrame(Prefix(payload, FrameSamples))
    [] payload_type = PayloadTypeAdpcm /\ Len(payload) >= AdpcmStateHeaderBytes ->
         LET bytes == SubSeq(payload, AdpcmStateHeaderBytes + 1, Len(payload))
         IN  DecodeAdpcm(bytes, Smaller(2 * Len(bytes), FrameSamples), UnpackState(payload))
    [] OTHER -> <<>>

\* decode_slot: zeros after the samples.
DecodeSlot(payload_type, payload) ==
  LET samples == DecodedSamples(payload_type, payload)
  IN  [i \in 1 .. FrameSamples |-> IF i <= Len(samples) THEN samples[i] ELSE 0]
=============================================================================
