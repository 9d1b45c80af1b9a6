------------------------------- MODULE Adpcm --------------------------------
(***************************************************************************)
(* The IMA ADPCM codec, sample by sample: a 4-bit code is a sign and the   *)
(* three quarters-of-a-step bits of the difference between the sample and  *)
(* what the decoder is at (the predictor).  AdpcmLoop closes the loop of   *)
(* one encoder and one decoder, RtpStream puts a network between them.     *)
(***************************************************************************)
EXTENDS Integers, Sequences

MaxIndex == 88

\* kStepTable
StepTable == <<
  7, 8, 9, 10, 11, 12, 13, 14, 16, 17, 19, 21, 23, 25, 28, 31, 34, 37, 41, 45,
  50, 55, 60, 66, 73, 80, 88, 97, 107, 118, 130, 143, 157, 173, 190, 209, 230,
  253, 279, 307, 337, 371, 408, 449, 494, 544, 598, 658, 724, 796, 876, 963,
  1060, 1166, 1282, 1411, 1552, 1707, 1878, 2066, 2272, 2499, 2749, 3024, 3327,
  3660, 4026, 4428, 4871, 5358, 5894, 6484, 7132, 7845, 8630, 9493, 10442,
  11487, 12635, 13899, 15289, 16818, 18500, 20350, 22385, 24623, 27086, 29794,
  32767 >>

MinSample == -32768
MaxSample == 32767
Samples == MinSample .. MaxSample
Codes == 0 .. 15
AdpcmStates == [predictor : Samples, step_index : 0 .. MaxIndex]
FreshState == [predictor |-> 0, step_index |-> 0]
-----------------------------------------------------------------------------
Within(low, high, x) == IF x < low THEN low ELSE IF x > high THEN high ELSE x

Step(state) == StepTable[state.step_index + 1]

\* kIndexTable: the three magnitude bits alone decide.
IndexChange(magnitude) == IF magnitude < 4 THEN -1 ELSE 2 * (magnitude - 3)

Bit(magnitude, b) == (magnitude \div b) % 2

\* Fault: the same difference in one multiplication.
DiffqInOne(magnitude, step) == ((2 * magnitude + 1) * step) \div 8

\* What both sides add to the predictor for a magnitude, each part truncated on
\* its own as the shifts do.
Diffq(magnitude, step) ==
  step \div 8 + Bit(magnitude, 4) * step + Bit(magnitude, 2) * (step \div 2)
              + Bit(magnitude, 1) * (step \div 4)

\* Fault: no saturation.
Unclamped(state, negative, magnitude, diffq) ==
  [predictor |-> state.predictor + IF negative THEN -diffq ELSE diffq,
   step_index |-> Within(0, MaxIndex, state.step_index + IndexChange(magnitude))]

Advance(state, negative, magnitude, diffq) ==
  [predictor |-> Within(MinSample, MaxSample,
                        state.predictor + IF negative THEN -diffq ELSE diffq),
   step_index |-> Within(0, MaxIndex, state.step_index + IndexChange(magnitude))]
-----------------------------------------------------------------------------
(* encode_sample *)

\* Fault: the difference not reduced by the whole step before the next comparison.
QuantiseNoRest(diff, step) ==
  LET magnitude == (IF diff >= step THEN 4 ELSE 0) + (IF diff >= step \div 2 THEN 2 ELSE 0)
                   + (IF diff >= step \div 4 THEN 1 ELSE 0)
  IN  [magnitude |-> magnitude, diffq |-> Diffq(magnitude, step)]

\* The three comparisons, each against half of what the one before took.
Quantise(diff, step) ==
  LET whole == diff >= step
      rest4 == IF whole THEN diff - step ELSE diff
      half == rest4 >= step \div 2
      rest2 == IF half THEN rest4 - step \div 2 ELSE rest4
      quarter == rest2 >= (step \div 2) \div 2
  IN  [magnitude |-> (IF whole THEN 4 ELSE 0) + (IF half THEN 2 ELSE 0)
                     + (IF quarter THEN 1 ELSE 0),
       diffq |-> step \div 8 + (IF whole THEN step ELSE 0)
                 + (IF half THEN step \div 2 ELSE 0)
                 + (IF quarter THEN (step \div 2) \div 2 ELSE 0)]

Distance(sample, state) ==
  IF sample < state.predictor THEN state.predictor - sample ELSE sample - state.predictor

EncodeSample(sample, state) ==
  LET negative == sample < state.predictor
      q == Quantise(Distance(sample, state), Step(state))
  IN  [code |-> (IF negative THEN 8 ELSE 0) + q.magnitude,
       state |-> Advance(state, negative, q.magnitude, q.diffq)]
-----------------------------------------------------------------------------
(* decode_sample: the new predictor is the sample. *)

DecodeSample(code, state) ==
  Advance(state, code >= 8, code % 8, Diffq(code % 8, Step(state)))
=============================================================================
