-------------------------------- MODULE Ulaw --------------------------------
(***************************************************************************)
(* The mu-law codec, sample by sample: eight segments, each twice as wide  *)
(* as the one before, of sixteen steps each.                               *)
(***************************************************************************)
EXTENDS Integers, Sequences

UlawBias == 132
UlawClip == 32635

\* The powers of two a biased magnitude of each segment starts at.
SegmentStart == <<128, 256, 512, 1024, 2048, 4096, 8192, 16384>>

\* Fault: -32768 has no place in the last segment.
Unclipped(sample) == IF sample < 0 THEN -sample ELSE sample

Magnitude(sample) ==
  LET size == IF sample < 0 THEN -sample ELSE sample
  IN  IF size > UlawClip THEN UlawClip ELSE size

\* The highest bit set from bit 14 down, or bit 7.
Exponent(biased) ==
  CHOOSE e \in 0 .. 7 : /\ e > 0 => biased >= SegmentStart[e + 1]
                        /\ e < 7 => biased < SegmentStart[e + 2]

LinearToUlaw(sample) ==
  LET biased == Magnitude(sample) + UlawBias
      exponent == Exponent(biased)
      mantissa == (biased \div (SegmentStart[exponent + 1] \div 16)) % 16
  IN  255 - ((IF sample < 0 THEN 128 ELSE 0) + 16 * exponent + mantissa)

UlawToLinear(code) ==
  LET bits == 255 - code
      mantissa == bits % 16
      exponent == (bits \div 16) % 8
      magnitude == (8 * mantissa + UlawBias) * (SegmentStart[exponent + 1] \div 128) - UlawBias
  IN  IF bits >= 128 THEN -magnitude ELSE magnitude

UlawEncodeFrame(frame) == [i \in DOMAIN frame |-> LinearToUlaw(frame[i])]
UlawDecodeFrame(codes) == [i \in DOMAIN codes |-> UlawToLinear(codes[i])]
=============================================================================
