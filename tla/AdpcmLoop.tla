----------------------------- MODULE AdpcmLoop ------------------------------
(***************************************************************************)
(* One encoder and the decoder that hears every one of its codes.          *)
(***************************************************************************)
EXTENDS Adpcm

CONSTANTS
  Inputs,         \* samples given to the encoder
  MaxSamples      \* bound: how many of them

ASSUME InputsAssumption == Inputs \subseteq Samples /\ MaxSamples \in Nat

VARIABLES encoder, decoder, taken,
          input, before     \* history: the last sample, and the state it met

loop == <<encoder, decoder, taken, input, before>>

LoopInit ==
  /\ encoder = FreshState /\ decoder = FreshState /\ taken = 0
  /\ input = 0 /\ before = FreshState

Code(sample) ==
  LET e == EncodeSample(sample, encoder) IN
  /\ taken < MaxSamples /\ taken' = taken + 1
  /\ encoder' = e.state
  /\ decoder' = DecodeSample(e.code, decoder)
  /\ input' = sample /\ before' = encoder

LoopSpec == LoopInit /\ [][\E sample \in Inputs : Code(sample)]_loop
-----------------------------------------------------------------------------
(* Properties *)

AdpcmTypeOK ==
  /\ encoder \in AdpcmStates /\ decoder \in AdpcmStates /\ before \in AdpcmStates
  /\ input \in Samples /\ taken \in 0 .. MaxSamples

\* Encoder and decoder compute the difference in different ways, by comparison and
\* by the bits of the code, and stay in step to the last bit, at the ends of the
\* sample range and of the step table too.
InStep == decoder = encoder

\* Unless the signal outruns the quantiser (a jump of two steps or more) the decoder
\* ends within an eighth of a step, and the truncations, of the sample.
Tracks ==
  (taken > 0 /\ Distance(input, before) < 2 * Step(before))
    => Distance(input, encoder) <= Step(before) \div 8 + 3
=============================================================================
