--------------------------- MODULE RtpStreamProofs --------------------------
(***************************************************************************)
(* Proofs about the codecs and the sender's stream, for recordings and     *)
(* frames of any length.  First one sample: the ADPCM decoder goes where   *)
(* the encoder went, and so in AdpcmLoop for every signal.  Then a frame,  *)
(* by the least counterexample, and the three payloads of it; mu-law; the  *)
(* packet format; and the stream: numbers in step past every wrap,         *)
(* datagrams parsed to what they were made from, frames that play as the   *)
(* samples they hold.                                                      *)
(***************************************************************************)
EXTENDS RtpStream, AdpcmLoop, SequenceTheorems, WellFoundedInduction, TLAPS

\* The table holds a natural number for every index the clamp lets through.
LEMMA StepTableType == ASSUME NEW i \in 0 .. MaxIndex PROVE StepTable[i + 1] \in Nat
  BY SMT DEF StepTable, MaxIndex

LEMMA StateFields ==
  ASSUME NEW s \in AdpcmStates
  PROVE  s.predictor \in Samples /\ s.step_index \in 0 .. MaxIndex
  BY DEF AdpcmStates

LEMMA SampleEnds == /\ MinSample \in Int /\ MaxSample \in Int
                    /\ MinSample <= 0 /\ 0 <= MaxSample
  BY DEF MinSample, MaxSample

LEMMA SamplesAreIntegers ==
  ASSUME NEW x \in Samples PROVE x \in Int /\ MinSample <= x /\ x <= MaxSample
  BY SampleEnds DEF Samples

LEMMA StepType == ASSUME NEW s \in AdpcmStates PROVE Step(s) \in Nat
  BY StepTableType DEF Step, AdpcmStates

-----------------------------------------------------------------------------
(* The quantiser *)

\* The two ways to write half of a half of a step.
LEMMA Quarter == ASSUME NEW n \in Nat PROVE (n \div 2) \div 2 = n \div 4
  OBVIOUS

\* The bits of a magnitude put together from its three comparisons.
LEMMA MagnitudeBits ==
  ASSUME NEW a \in {0, 4}, NEW b \in {0, 2}, NEW c \in {0, 1}
  PROVE  LET m == a + b + c IN
         /\ m \in 0 .. 7
         /\ Bit(m, 4) = (IF a = 0 THEN 0 ELSE 1)
         /\ Bit(m, 2) = (IF b = 0 THEN 0 ELSE 1)
         /\ Bit(m, 1) = (IF c = 0 THEN 0 ELSE 1)
  BY DEF Bit

\* What the comparisons add up to is what the bits of the code stand for.
LEMMA QuantiserAgrees ==
  ASSUME NEW diff \in Nat, NEW step \in Nat
  PROVE  LET q == Quantise(diff, step) IN
         /\ q.magnitude \in 0 .. 7
         /\ q.diffq = Diffq(q.magnitude, step)
         /\ q.diffq \in Nat
<1> DEFINE whole == diff >= step
           rest4 == IF whole THEN diff - step ELSE diff
           half == rest4 >= step \div 2
           rest2 == IF half THEN rest4 - step \div 2 ELSE rest4
           quarter == rest2 >= (step \div 2) \div 2
           a == IF whole THEN 4 ELSE 0
           b == IF half THEN 2 ELSE 0
           c == IF quarter THEN 1 ELSE 0
           q == Quantise(diff, step)
<1>1. q.magnitude = a + b + c
  BY DEF Quantise
<1>2. q.diffq = step \div 8 + (IF whole THEN step ELSE 0) + (IF half THEN step \div 2 ELSE 0)
                + (IF quarter THEN (step \div 2) \div 2 ELSE 0)
  BY DEF Quantise
<1>3. a \in {0, 4} /\ b \in {0, 2} /\ c \in {0, 1}
  OBVIOUS
<1>4. /\ a + b + c \in 0 .. 7
      /\ Bit(a + b + c, 4) = (IF whole THEN 1 ELSE 0)
      /\ Bit(a + b + c, 2) = (IF half THEN 1 ELSE 0)
      /\ Bit(a + b + c, 1) = (IF quarter THEN 1 ELSE 0)
  <2> HIDE DEF whole, half, quarter
  <2> QED  BY <1>3, MagnitudeBits
<1>5. /\ step \div 8 \in Nat /\ step \div 2 \in Nat
      /\ (step \div 2) \div 2 = step \div 4 /\ step \div 4 \in Nat
  BY Quarter
<1>6. q.diffq = Diffq(a + b + c, step) /\ q.diffq \in Nat
  <2> DEFINE m == a + b + c
  <2>1. Diffq(m, step) = step \div 8 + (IF whole THEN 1 ELSE 0) * step
                         + (IF half THEN 1 ELSE 0) * (step \div 2)
                         + (IF quarter THEN 1 ELSE 0) * (step \div 4)
    BY <1>4 DEF Diffq
  <2>2. whole \in BOOLEAN /\ half \in BOOLEAN /\ quarter \in BOOLEAN /\ step \div 8 \in Nat
    OBVIOUS
  <2>3. Diffq(m, step) = q.diffq
    <3> HIDE DEF whole, half, quarter, q
    <3>1. \A w, h, k \in BOOLEAN, x, y, z, e \in Nat :
            e + (IF w THEN 1 ELSE 0) * x + (IF h THEN 1 ELSE 0) * y + (IF k THEN 1 ELSE 0) * z
              = e + (IF w THEN x ELSE 0) + (IF h THEN y ELSE 0) + (IF k THEN z ELSE 0)
      OBVIOUS
    <3> HIDE DEF m
    <3> QED  BY <2>1, <1>2, <1>5, <2>2, <3>1
  <2>4. q.diffq \in Nat
    <3> HIDE DEF whole, half, quarter, q
    <3> QED  BY <1>2, <1>5, <2>2
  <2> QED  BY <2>3, <2>4
<1> QED  BY <1>1, <1>4, <1>6

\* Within reach of the quantiser, the rest is an eighth of a step and what the
\* shifts cut off.
LEMMA QuantiserTracks ==
  ASSUME NEW diff \in Nat, NEW step \in Nat, diff < 2 * step
  PROVE  LET q == Quantise(diff, step) IN
         /\ diff - q.diffq <= step \div 8 + 3
         /\ q.diffq - diff <= step \div 8 + 3
  BY DEF Quantise-----------------------------------------------------------------------------
(* One sample *)

LEMMA WithinRange ==
  ASSUME NEW low \in Int, NEW high \in Int, low <= high, NEW x \in Int
  PROVE  Within(low, high, x) \in low .. high
  BY DEF Within

LEMMA AdvanceType ==
  ASSUME NEW s \in AdpcmStates, NEW negative, NEW magnitude \in 0 .. 7, NEW diffq \in Nat
  PROVE  Advance(s, negative, magnitude, diffq) \in AdpcmStates
<1>1. s.predictor \in Int /\ s.step_index \in Int
  BY StateFields, SamplesAreIntegers
<1>2. Within(MinSample, MaxSample, s.predictor + IF negative THEN -diffq ELSE diffq) \in Samples
  <2> DEFINE x == s.predictor + IF negative THEN -diffq ELSE diffq
  <2>1. x \in Int
    BY <1>1
  <2> HIDE DEF x
  <2>2. Within(MinSample, MaxSample, x) \in Samples
    BY <2>1, SampleEnds, WithinRange DEF Samples
  <2> QED  BY <2>2 DEF x
<1>3. Within(0, MaxIndex, s.step_index + IndexChange(magnitude)) \in 0 .. MaxIndex
  BY <1>1 DEF Within, IndexChange, MaxIndex
<1> QED  BY <1>2, <1>3 DEF Advance, AdpcmStates

LEMMA DistanceType ==
  ASSUME NEW sample \in Samples, NEW s \in AdpcmStates
  PROVE  Distance(sample, s) \in Nat
  BY StateFields, SamplesAreIntegers DEF Distance

\* The decoder recovers sign and magnitude from the code, and from them the state
\* the encoder went to.
LEMMA SampleInStep ==
  ASSUME NEW sample \in Samples, NEW s \in AdpcmStates
  PROVE  LET e == EncodeSample(sample, s) IN
         /\ e.code \in Codes
         /\ e.state \in AdpcmStates
         /\ DecodeSample(e.code, s) = e.state
<1> DEFINE e == EncodeSample(sample, s)
           q == Quantise(Distance(sample, s), Step(s))
           negative == sample < s.predictor
<1>1. /\ q.magnitude \in 0 .. 7 /\ q.diffq \in Nat
      /\ q.diffq = Diffq(q.magnitude, Step(s))
  BY DistanceType, StepType, QuantiserAgrees
<1>2. e.code = (IF negative THEN 8 ELSE 0) + q.magnitude
      /\ e.state = Advance(s, negative, q.magnitude, q.diffq)
  BY DEF EncodeSample
<1>3. negative \in BOOLEAN
  BY StateFields, SamplesAreIntegers
<1>4. e.code \in Codes /\ e.code % 8 = q.magnitude /\ (e.code >= 8 <=> negative)
  <2> HIDE DEF e, q, negative
  <2> QED  BY <1>1, <1>2, <1>3 DEF Codes
<1>5. e.state \in AdpcmStates
  BY <1>1, <1>2, AdvanceType
<1>6. DecodeSample(e.code, s) = e.state
  <2>1. (e.code >= 8) = negative
    BY <1>3, <1>4 DEF Codes
  <2> QED  BY <1>1, <1>2, <1>4, <2>1 DEF DecodeSample
<1> QED  BY <1>4, <1>5, <1>6

\* The clamp moves the new predictor towards the sample, never away from it.
LEMMA SampleTracked ==
  ASSUME NEW sample \in Samples, NEW s \in AdpcmStates,
         Distance(sample, s) < 2 * Step(s)
  PROVE  Distance(sample, EncodeSample(sample, s).state) <= Step(s) \div 8 + 3
<1> DEFINE e == EncodeSample(sample, s)
           q == Quantise(Distance(sample, s), Step(s))
           d == Distance(sample, s)
           negative == sample < s.predictor
           bound == Step(s) \div 8 + 3
<1>1. d \in Nat /\ Step(s) \in Nat
  BY DistanceType, StepType
<1>2. q.diffq \in Nat /\ d - q.diffq <= bound /\ q.diffq - d <= bound
  BY <1>1, QuantiserAgrees, QuantiserTracks
<1>3. e.state.predictor
        = Within(MinSample, MaxSample, s.predictor + IF negative THEN -q.diffq ELSE q.diffq)
  BY DEF EncodeSample, Advance
<1>4. /\ sample \in Int /\ MinSample <= sample /\ sample <= MaxSample
      /\ s.predictor \in Int /\ bound \in Nat
      /\ d = IF negative THEN s.predictor - sample ELSE sample - s.predictor
  BY <1>1, StateFields, SamplesAreIntegers DEF Distance
<1>5. e.state.predictor - sample <= bound /\ sample - e.state.predictor <= bound
  <2> HIDE DEF e, q, d, bound
  <2> QED  BY <1>2, <1>3, <1>4, SampleEnds DEF Within
<1> QED  BY <1>5, <1>4 DEF Distance
-----------------------------------------------------------------------------
(* The closed loop *)

LoopInv == AdpcmTypeOK /\ InStep /\ Tracks

LEMMA LoopInductive == LoopSpec => []LoopInv
<1>1. LoopInit => LoopInv
  BY InputsAssumption, SampleEnds
  DEF LoopInit, LoopInv, AdpcmTypeOK, InStep, Tracks, FreshState, AdpcmStates, Samples, MaxIndex
<1>2. LoopInv /\ [\E sample \in Inputs : Code(sample)]_loop => LoopInv'
  <2> SUFFICES ASSUME LoopInv, [\E sample \in Inputs : Code(sample)]_loop
               PROVE  LoopInv'
    OBVIOUS
  <2>1. CASE UNCHANGED loop
    BY <2>1 DEF LoopInv, AdpcmTypeOK, InStep, Tracks, loop
  <2>2. ASSUME NEW sample \in Inputs, Code(sample)
        PROVE  LoopInv'
    <3> DEFINE e == EncodeSample(sample, encoder)
    <3>1. sample \in Samples /\ encoder \in AdpcmStates /\ decoder = encoder
      BY InputsAssumption DEF LoopInv, AdpcmTypeOK, InStep
    <3>2. /\ taken < MaxSamples /\ taken' = taken + 1
          /\ encoder' = e.state /\ decoder' = DecodeSample(e.code, decoder)
          /\ input' = sample /\ before' = encoder
      BY <2>2 DEF Code
    <3>3. e.state \in AdpcmStates /\ decoder' = e.state
      BY <3>1, <3>2, SampleInStep
    <3>4. AdpcmTypeOK'
      BY <3>1, <3>2, <3>3, InputsAssumption DEF LoopInv, AdpcmTypeOK
    <3>5. Tracks'
      <4> SUFFICES ASSUME Distance(sample, encoder) < 2 * Step(encoder)
                   PROVE  Distance(sample, e.state) <= Step(encoder) \div 8 + 3
        BY <3>2 DEF Tracks, Distance, Step
      <4> QED  BY <3>1, SampleTracked
    <3> QED  BY <3>2, <3>3, <3>4, <3>5 DEF LoopInv, InStep
  <2> QED  BY <2>1, <2>2
<1> QED  BY <1>1, <1>2, PTL DEF LoopSpec

\* Predictor and step index stay in the ranges of their types, for every input:
\* the table is never read outside its 89 entries (codec_adpcm.cpp:28-38).
THEOREM LoopTypeCorrect == LoopSpec => []AdpcmTypeOK
  BY LoopInductive, PTL DEF LoopInv

\* A decoder that starts in the encoder's state stays in it, whatever is encoded.
THEOREM LoopInStep == LoopSpec => []InStep
  BY LoopInductive, PTL DEF LoopInv

\* Each sample within two steps is reproduced to an eighth of a step.
THEOREM LoopTracks == LoopSpec => []Tracks
  BY LoopInductive, PTL DEF LoopInv
-----------------------------------------------------------------------------
(* Iteration. *)

LEMMA LeastNumber ==
  ASSUME NEW T \in SUBSET Nat, T # {}
  PROVE  \E x \in T : \A y \in T : ~(y < x)
<1>1. \E x \in T : \A y \in T : ~(<<y, x>> \in OpToRel(<, Nat))
  BY NatLessThanWellFounded, WFMin
<1> QED BY <1>1 DEF OpToRel

\* G[1], ..., G[n] are steps within S; f takes them one after the other from x.
Steps(G, n, S) == \A i \in 1 .. n, s \in S : G[i][s] \in S
Run(f, x, G, n, S) ==
  f \in [0 .. n -> S] /\ f[0] = x /\ \A i \in 1 .. n : f[i] = G[i][f[i - 1]]

LEMMA Iteration ==
  ASSUME NEW S, NEW x \in S, NEW n \in Nat, NEW G, Steps(G, n, S)
  PROVE  \E f : Run(f, x, G, n, S)
<1>0. \A i \in 1 .. n, s \in S : G[i][s] \in S  BY DEF Steps
<1> DEFINE Reached(k) ==
             \E f \in [0 .. k -> S] :
               f[0] = x /\ \A i \in 1 .. k : f[i] = G[i][f[i - 1]]
           T == {k \in 0 .. n : ~Reached(k)}
<1>1. Reached(0)
  <2> DEFINE f == [i \in 0 .. 0 |-> x]
  <2>1. f \in [0 .. 0 -> S] /\ f[0] = x  OBVIOUS
  <2>2. \A i : ~(i \in 1 .. 0)  OBVIOUS
  <2> QED BY <2>1, <2>2
<1>2. ASSUME NEW k \in 1 .. n, Reached(k - 1)  PROVE Reached(k)
  <2>1. PICK f \in [0 .. (k - 1) -> S] :
          f[0] = x /\ \A i \in 1 .. (k - 1) : f[i] = G[i][f[i - 1]]
    BY <1>2
  <2> DEFINE g == [i \in 0 .. k |-> IF i = k THEN G[k][f[k - 1]] ELSE f[i]]
  <2>2. f[k - 1] \in S /\ G[k][f[k - 1]] \in S  BY <1>0, <2>1
  <2>3. g \in [0 .. k -> S]
    <3>1. \A i \in 0 .. k : i # k => f[i] \in S  BY <2>1
    <3> QED BY <2>2, <3>1
  <2>4. g[0] = x  BY <2>1
  <2>5. ASSUME NEW i \in 1 .. k  PROVE g[i] = G[i][g[i - 1]]
    <3>1. i - 1 \in 0 .. k /\ i - 1 # k /\ i \in 0 .. k  OBVIOUS
    <3>2. g[i - 1] = f[i - 1]  BY <3>1
    <3>3. CASE i = k  BY <3>1, <3>2, <3>3
    <3>4. CASE i # k
      <4>1. i \in 1 .. (k - 1)  BY <3>4
      <4>2. g[i] = f[i] /\ f[i] = G[i][f[i - 1]]  BY <2>1, <3>1, <3>4, <4>1
      <4> QED BY <3>2, <4>2
    <3> QED BY <3>3, <3>4
  <2> HIDE DEF g
  <2> QED BY <2>3, <2>4, <2>5
<1>3. T = {}
  <2> SUFFICES ASSUME T # {}  PROVE FALSE
    OBVIOUS
  <2> HIDE DEF Reached
  <2>1. T \in SUBSET Nat  OBVIOUS
  <2>2. PICK k \in T : \A j \in T : ~(j < k)
    <3> HIDE DEF T
    <3> QED BY <2>1, LeastNumber
  <2>3. k # 0 /\ k \in 0 .. n  BY <1>1
  <2>4. k \in 1 .. n /\ k - 1 \in 0 .. n /\ k - 1 < k  BY <2>3
  <2>5. Reached(k - 1)  BY <2>2, <2>4
  <2> QED BY <1>2, <2>4, <2>5
<1>4. n \in 0 .. n  OBVIOUS
<1>5. Reached(n)
  <2> HIDE DEF Reached
  <2> QED BY <1>3, <1>4
<1> QED BY <1>5 DEF Run
-----------------------------------------------------------------------------
(* The codec over a frame. *)

LEMMA EncoderRuns ==
  ASSUME NEW frame \in Seq(Samples), NEW state \in AdpcmStates
  PROVE  /\ EncoderStates(frame, state) \in [0 .. Len(frame) -> AdpcmStates]
         /\ EncoderStates(frame, state)[0] = state
         /\ \A i \in 1 .. Len(frame) :
              EncoderStates(frame, state)[i]
                = EncodeSample(frame[i], EncoderStates(frame, state)[i - 1]).state
<1> DEFINE n == Len(frame)
           S == AdpcmStates
           G == [i \in 1 .. n |-> [s \in S |-> EncodeSample(frame[i], s).state]]
           Runs(f) == f = [i \in 0 .. n |->
                             IF i = 0 THEN state ELSE EncodeSample(frame[i], f[i - 1]).state]
<1>1. n \in Nat  OBVIOUS
<1>2. \A i \in 1 .. n, s \in S : G[i][s] \in S /\ G[i][s] = EncodeSample(frame[i], s).state
  <2> TAKE i \in 1 .. n, s \in S
  <2>1. frame[i] \in Samples  OBVIOUS
  <2>2. EncodeSample(frame[i], s).state \in S  BY <2>1, SampleInStep
  <2>3. G[i][s] = EncodeSample(frame[i], s).state  OBVIOUS
  <2> QED BY <2>2, <2>3
<1> HIDE DEF G, n
<1>3. PICK f : Run(f, state, G, n, S)
  <2> HIDE DEF S
  <2>1. Steps(G, n, S)  BY <1>2 DEF Steps
  <2>2. state \in S  BY DEF S
  <2> QED BY <1>1, <2>1, <2>2, Iteration
<1>4. \A i \in 1 .. n : f[i] = EncodeSample(frame[i], f[i - 1]).state
  <2> TAKE i \in 1 .. n
  <2>1. i - 1 \in 0 .. n  BY <1>1
  <2> QED BY <1>2, <1>3, <2>1 DEF Run
<1>5. Runs(f)
  <2>1. \A i \in 0 .. n :
          f[i] = IF i = 0 THEN state ELSE EncodeSample(frame[i], f[i - 1]).state
    BY <1>1, <1>3, <1>4 DEF Run
  <2>2. f = [i \in 0 .. n |-> f[i]]  BY <1>3 DEF Run
  <2> QED BY <2>1, <2>2
<1> DEFINE e == EncoderStates(frame, state)
<1>6. e = CHOOSE g : Runs(g)  BY DEF EncoderStates, n
<1>7. Runs(e)
  <2> HIDE DEF Runs, e
  <2> QED BY <1>5, <1>6
<1> HIDE DEF e
<1>8. e[0] = state /\ DOMAIN e = 0 .. n
  BY <1>1, <1>7
<1>9. \A i \in 1 .. n : e[i] = EncodeSample(frame[i], e[i - 1]).state
  BY <1>1, <1>7
<1>10. \A k \in 0 .. n : e[k] \in S
  <2> DEFINE T == {k \in 0 .. n : e[k] \notin S}
  <2> SUFFICES ASSUME T # {}  PROVE FALSE
    OBVIOUS
  <2>1. T \in SUBSET Nat  BY <1>1
  <2>2. PICK k \in T : \A j \in T : ~(j < k)
    <3> HIDE DEF T
    <3> QED BY <2>1, LeastNumber
  <2>3. k # 0  BY <1>8
  <2>4. k \in 1 .. n /\ k - 1 \in 0 .. n /\ k - 1 < k  BY <1>1, <2>3
  <2>5. e[k - 1] \in S  BY <2>2, <2>4
  <2>6. frame[k] \in Samples  BY <2>4 DEF n
  <2>7. EncodeSample(frame[k], e[k - 1]).state \in S  BY <2>5, <2>6, SampleInStep
  <2>8. e[k] = EncodeSample(frame[k], e[k - 1]).state  BY <1>9, <2>4
  <2> QED BY <2>7, <2>8
<1>11. e \in [0 .. n -> S]
  <2>1. e = [i \in 0 .. n |-> e[i]]  BY <1>7
  <2> QED BY <1>10, <2>1
<1> QED BY <1>8, <1>9, <1>11 DEF e, n

LEMMA DecodeSampleType ==
  ASSUME NEW code \in Codes, NEW s \in AdpcmStates
  PROVE  DecodeSample(code, s) \in AdpcmStates
<1>1. code % 8 \in 0 .. 7  BY DEF Codes
<1>2. Step(s) \in Nat  BY StepType
<1>3. \A m \in 0 .. 7, t \in Nat : Diffq(m, t) \in Nat
  <2> TAKE m \in 0 .. 7, t \in Nat
  <2>1. Bit(m, 4) \in 0 .. 1 /\ Bit(m, 2) \in 0 .. 1 /\ Bit(m, 1) \in 0 .. 1  BY DEF Bit
  <2>2. t \div 8 \in Nat /\ t \div 2 \in Nat /\ t \div 4 \in Nat  OBVIOUS
  <2>3. \A b \in 0 .. 1, x \in Nat : b * x \in Nat  OBVIOUS
  <2>4. Bit(m, 4) * t \in Nat /\ Bit(m, 2) * (t \div 2) \in Nat /\ Bit(m, 1) * (t \div 4) \in Nat
    BY <2>1, <2>2, <2>3
  <2> QED BY <2>2, <2>4 DEF Diffq
<1> DEFINE m == code % 8
           d == Diffq(m, Step(s))
           negative == code >= 8
<1>4. m \in 0 .. 7 /\ d \in Nat  BY <1>1, <1>2, <1>3
<1>5. DecodeSample(code, s) = Advance(s, negative, m, d)  BY DEF DecodeSample
<1> HIDE DEF m, d, negative
<1> QED BY <1>4, <1>5, AdvanceType

LEMMA DecoderRuns ==
  ASSUME NEW bytes, NEW n \in Nat, NEW state \in AdpcmStates,
         \A i \in 1 .. n : Nibble(bytes, i) \in Codes
  PROVE  /\ DecoderStates(bytes, n, state) \in [0 .. n -> AdpcmStates]
         /\ DecoderStates(bytes, n, state)[0] = state
         /\ \A i \in 1 .. n :
              DecoderStates(bytes, n, state)[i]
                = DecodeSample(Nibble(bytes, i), DecoderStates(bytes, n, state)[i - 1])
<1> DEFINE S == AdpcmStates
           G == [i \in 1 .. n |-> [s \in S |-> DecodeSample(Nibble(bytes, i), s)]]
           Runs(f) == f = [i \in 0 .. n |->
                             IF i = 0 THEN state ELSE DecodeSample(Nibble(bytes, i), f[i - 1])]
<1>2. \A i \in 1 .. n, s \in S :
        G[i][s] \in S /\ G[i][s] = DecodeSample(Nibble(bytes, i), s)
  <2> TAKE i \in 1 .. n, s \in S
  <2>2. DecodeSample(Nibble(bytes, i), s) \in S  BY DecodeSampleType
  <2>3. G[i][s] = DecodeSample(Nibble(bytes, i), s)  OBVIOUS
  <2> QED BY <2>2, <2>3
<1> HIDE DEF G
<1>3. PICK f : Run(f, state, G, n, S)
  <2> HIDE DEF S
  <2>1. Steps(G, n, S)  BY <1>2 DEF Steps
  <2>2. state \in S  BY DEF S
  <2> QED BY <2>1, <2>2, Iteration
<1>4. \A i \in 1 .. n : f[i] = DecodeSample(Nibble(bytes, i), f[i - 1])
  <2> TAKE i \in 1 .. n
  <2>1. i - 1 \in 0 .. n  OBVIOUS
  <2> QED BY <1>2, <1>3, <2>1 DEF Run
<1>5. Runs(f)
  <2>1. \A i \in 0 .. n :
          f[i] = IF i = 0 THEN state ELSE DecodeSample(Nibble(bytes, i), f[i - 1])
    BY <1>3, <1>4 DEF Run
  <2>2. f = [i \in 0 .. n |-> f[i]]  BY <1>3 DEF Run
  <2> QED BY <2>1, <2>2
<1> DEFINE e == DecoderStates(bytes, n, state)
<1>6. e = CHOOSE g : Runs(g)  BY DEF DecoderStates
<1>7. Runs(e)
  <2> HIDE DEF Runs, e
  <2> QED BY <1>5, <1>6
<1> HIDE DEF e
<1>8. e[0] = state /\ DOMAIN e = 0 .. n
  BY <1>7
<1>9. \A i \in 1 .. n : e[i] = DecodeSample(Nibble(bytes, i), e[i - 1])
  BY <1>7
<1>10. \A k \in 0 .. n : e[k] \in S
  <2> DEFINE T == {k \in 0 .. n : e[k] \notin S}
  <2> SUFFICES ASSUME T # {}  PROVE FALSE
    OBVIOUS
  <2>1. T \in SUBSET Nat  OBVIOUS
  <2>2. PICK k \in T : \A j \in T : ~(j < k)
    <3> HIDE DEF T
    <3> QED BY <2>1, LeastNumber
  <2>3. k # 0  BY <1>8
  <2>4. k \in 1 .. n /\ k - 1 \in 0 .. n /\ k - 1 < k  BY <2>3
  <2>5. e[k - 1] \in S  BY <2>2, <2>4
  <2>7. DecodeSample(Nibble(bytes, k), e[k - 1]) \in S  BY <2>4, <2>5, DecodeSampleType
  <2>8. e[k] = DecodeSample(Nibble(bytes, k), e[k - 1])  BY <1>9, <2>4
  <2> QED BY <2>7, <2>8
<1>11. e \in [0 .. n -> S]
  <2>1. e = [i \in 0 .. n |-> e[i]]  BY <1>7
  <2> QED BY <1>10, <2>1
<1> QED BY <1>8, <1>9, <1>11 DEF e

\* A byte gives back its two nibbles.
LEMMA Nibbles ==
  ASSUME NEW a \in 0 .. 15, NEW b \in 0 .. 15
  PROVE  (a + 16 * b) % 16 = a /\ (a + 16 * b) \div 16 = b /\ a + 16 * b \in 0 .. 255
  OBVIOUS

LEMMA Halves ==
  ASSUME NEW i \in Nat \ {0}
  PROVE  /\ i % 2 = 1 => 2 * ((i + 1) \div 2) - 1 = i /\ (i + 1) \div 2 \in Nat \ {0}
         /\ i % 2 # 1 => 2 * (i \div 2) = i /\ i \div 2 \in Nat \ {0}
  OBVIOUS

LEMMA AdpcmBytes ==
  ASSUME NEW frame \in Seq(Samples), NEW state \in AdpcmStates
  PROVE  /\ EncodeAdpcm(frame, state) \in Seq(0 .. 255)
         /\ Len(EncodeAdpcm(frame, state)) = (Len(frame) + 1) \div 2
         /\ \A i \in 1 .. Len(frame) :
              /\ Nibble(EncodeAdpcm(frame, state), i)
                   = EncodeSample(frame[i], EncoderStates(frame, state)[i - 1]).code
              /\ Nibble(EncodeAdpcm(frame, state), i) \in Codes
         /\ Len(frame) % 2 = 1 => Nibble(EncodeAdpcm(frame, state), Len(frame) + 1) = 0
<1> DEFINE n == Len(frame)
           st == EncoderStates(frame, state)
           c(i) == IF i <= n THEN EncodeSample(frame[i], st[i - 1]).code ELSE 0
           h == (n + 1) \div 2
           B == EncodeAdpcm(frame, state)
<1>1. n \in Nat  OBVIOUS
<1>2. \A i \in 1 .. n : EncodeSample(frame[i], st[i - 1]).code \in 0 .. 15
  <2> TAKE i \in 1 .. n
  <2>1. i - 1 \in 0 .. n  BY <1>1
  <2>2. st[i - 1] \in AdpcmStates  BY <2>1, EncoderRuns
  <2>3. frame[i] \in Samples  OBVIOUS
  <2> QED BY <2>2, <2>3, SampleInStep DEF Codes
<1>3. B = [k \in 1 .. h |-> c(2 * k - 1) + 16 * c(2 * k)]
  BY DEF EncodeAdpcm
<1> HIDE DEF B, st
<1>4. \A i \in Nat \ {0} : c(i) \in 0 .. 15
  <2> TAKE i \in Nat \ {0}
  <2>1. CASE i <= n
    <3>1. i \in 1 .. n  BY <1>1, <2>1
    <3> QED BY <1>2, <2>1, <3>1
  <2>2. CASE ~(i <= n)  BY <2>2
  <2> QED BY <2>1, <2>2
<1>5. \A i \in 1 .. n : c(i) = EncodeSample(frame[i], st[i - 1]).code
  BY <1>1
<1>6. c(n + 1) = 0  BY <1>1
<1> HIDE DEF c
<1>7. h \in Nat /\ \A k \in 1 .. h : 2 * k - 1 \in Nat \ {0} /\ 2 * k \in Nat \ {0}
  BY <1>1
<1>8. ASSUME NEW k \in 1 .. h
      PROVE  B[k] \in 0 .. 255 /\ B[k] % 16 = c(2 * k - 1) /\ B[k] \div 16 = c(2 * k)
  <2>1. B[k] = c(2 * k - 1) + 16 * c(2 * k)  BY <1>3
  <2>2. c(2 * k - 1) \in 0 .. 15 /\ c(2 * k) \in 0 .. 15  BY <1>4, <1>7
  <2> DEFINE x == c(2 * k - 1)
             y == c(2 * k)
  <2> HIDE DEF x, y
  <2>3. x \in 0 .. 15 /\ y \in 0 .. 15 /\ B[k] = x + 16 * y  BY <2>1, <2>2 DEF x, y
  <2>4. B[k] \in 0 .. 255 /\ B[k] % 16 = x /\ B[k] \div 16 = y  BY <2>3, Nibbles
  <2> QED BY <2>4 DEF x, y
<1> HIDE DEF h
<1>9. B \in Seq(0 .. 255) /\ Len(B) = h
  <2>1. DOMAIN B = 1 .. h  BY <1>3
  <2>2. B = [k \in 1 .. h |-> B[k]]  BY <1>3
  <2>3. B \in [1 .. h -> 0 .. 255]  BY <1>8, <2>2
  <2>4. B \in Seq(0 .. 255)  BY <1>7, <2>3, SeqDef
  <2>5. Len(B) = h  BY <1>7, <2>1, <2>4, LenProperties
  <2> QED BY <2>4, <2>5
<1>10. ASSUME NEW i \in 1 .. 2 * h  PROVE Nibble(B, i) = c(i)
  <2>0. i \in Nat \ {0}  BY <1>7
  <2>1. CASE i % 2 = 1
    <3> DEFINE k == (i + 1) \div 2
    <3>1. 2 * k - 1 = i /\ k \in Nat \ {0}  BY <2>0, <2>1, Halves
    <3>2. k \in 1 .. h  BY <1>7, <3>1
    <3>3. Nibble(B, i) = B[k] % 16  BY <2>1 DEF Nibble
    <3> HIDE DEF k
    <3> QED BY <1>8, <3>1, <3>2, <3>3
  <2>2. CASE i % 2 # 1
    <3> DEFINE k == i \div 2
    <3>1. 2 * k = i /\ k \in Nat \ {0}  BY <2>0, <2>2, Halves
    <3>2. k \in 1 .. h  BY <1>7, <3>1
    <3>3. Nibble(B, i) = B[k] \div 16  BY <2>2 DEF Nibble
    <3> HIDE DEF k
    <3> QED BY <1>8, <3>1, <3>2, <3>3
  <2> QED BY <2>1, <2>2
<1>11. n <= 2 * h /\ (n % 2 = 1 => n + 1 <= 2 * h)  BY <1>1 DEF h
<1>12. \A i \in 1 .. n : i \in 1 .. 2 * h /\ i \in Nat \ {0}  BY <1>1, <1>7, <1>11
<1>13. \A i \in 1 .. n : Nibble(B, i) = EncodeSample(frame[i], st[i - 1]).code
                         /\ Nibble(B, i) \in Codes
  BY <1>4, <1>5, <1>10, <1>12 DEF Codes
<1>14. n % 2 = 1 => Nibble(B, n + 1) = 0
  <2>1. n % 2 = 1 => n + 1 \in 1 .. 2 * h  BY <1>1, <1>7, <1>11
  <2> QED BY <1>6, <1>10, <2>1
<1> QED BY <1>9, <1>13, <1>14 DEF B, st, h

\* The decoder goes through the states of the encoder.
LEMMA AdpcmFrame ==
  ASSUME NEW frame \in Seq(Samples), NEW state \in AdpcmStates,
         NEW m \in Nat, Len(frame) <= m,
         \A i \in 1 .. m : Nibble(EncodeAdpcm(frame, state), i) \in Codes
  PROVE  \A i \in 0 .. Len(frame) :
           DecoderStates(EncodeAdpcm(frame, state), m, state)[i]
             = EncoderStates(frame, state)[i]
<1> DEFINE n == Len(frame)
           e == EncoderStates(frame, state)
           B == EncodeAdpcm(frame, state)
           d == DecoderStates(B, m, state)
           T == {k \in 0 .. n : d[k] # e[k]}
<1>1. n \in Nat /\ \A i \in 1 .. n : i \in 1 .. m  OBVIOUS
<1>2. /\ e \in [0 .. n -> AdpcmStates] /\ e[0] = state
      /\ \A i \in 1 .. n : e[i] = EncodeSample(frame[i], e[i - 1]).state
  BY EncoderRuns
<1>3. \A i \in 1 .. n : Nibble(B, i) = EncodeSample(frame[i], e[i - 1]).code
  BY AdpcmBytes
<1> HIDE DEF e, B
<1>4. d[0] = state /\ \A i \in 1 .. m : d[i] = DecodeSample(Nibble(B, i), d[i - 1])
  BY DecoderRuns DEF B
<1> HIDE DEF d, n
<1> SUFFICES ASSUME T # {}  PROVE FALSE
  BY DEF n, d, e, B
<1>5. T \in SUBSET Nat  BY <1>1
<1>6. PICK k \in T : \A j \in T : ~(j < k)
  <2> HIDE DEF T
  <2> QED BY <1>5, LeastNumber
<1>7. k # 0  BY <1>2, <1>4
<1>8. k \in 1 .. n /\ k - 1 \in 0 .. n /\ k - 1 < k /\ k \in 1 .. m  BY <1>1, <1>7
<1>9. d[k - 1] = e[k - 1]  BY <1>6, <1>8
<1>10. frame[k] \in Samples /\ e[k - 1] \in AdpcmStates  BY <1>2, <1>8 DEF n
<1>11. DecodeSample(EncodeSample(frame[k], e[k - 1]).code, e[k - 1])
         = EncodeSample(frame[k], e[k - 1]).state
  BY <1>10, SampleInStep
<1>12. d[k] = e[k]  BY <1>2, <1>3, <1>4, <1>8, <1>9, <1>11
<1> QED BY <1>6, <1>12
-----------------------------------------------------------------------------
(* Linear samples and mu-law. *)

LEMMA IsSample ==
  \A v \in Int : -32768 <= v /\ v <= 32767 => v \in Samples
<1>1. MinSample = -32768 /\ MaxSample = 32767  BY DEF MinSample, MaxSample
<1>2. \A v \in Int : MinSample <= v /\ v <= MaxSample => v \in Samples
  BY SampleEnds DEF Samples
<1> QED BY <1>1, <1>2

LEMMA SampleWord ==
  ASSUME NEW x \in Samples
  PROVE  /\ FromWord(ToWord(x)) = x
         /\ ToWord(x) % 256 \in 0 .. 255 /\ ToWord(x) \div 256 \in 0 .. 255
         /\ (ToWord(x) % 256) + 256 * (ToWord(x) \div 256) = ToWord(x)
<1> DEFINE w == ToWord(x)
<1>1. x \in Int /\ -32768 <= x /\ x <= 32767
  <2>1. x \in Int /\ MinSample <= x /\ x <= MaxSample  BY SamplesAreIntegers
  <2>2. MinSample = -32768 /\ MaxSample = 32767  BY DEF MinSample, MaxSample
  <2> QED BY <2>1, <2>2
<1>2. w = x % 65536  BY DEF ToWord
<1>3. (0 <= x => w = x) /\ (x < 0 => w = x + 65536)  BY <1>1, <1>2
<1>4. w \in Int /\ 0 <= w /\ w <= 65535  BY <1>1, <1>3
<1>5. FromWord(w) = x  BY <1>1, <1>3 DEF FromWord
<1> HIDE DEF w
<1>6. w % 256 \in 0 .. 255 /\ w \div 256 \in 0 .. 255 /\ (w % 256) + 256 * (w \div 256) = w
  BY <1>4
<1> QED BY <1>5, <1>6 DEF w

LEMMA WordSample ==
  ASSUME NEW a \in 0 .. 255, NEW b \in 0 .. 255
  PROVE  FromWord(a + 256 * b) \in Samples /\ FromWord(a * 256 + b) \in Samples
<1>1. \A w \in Int : 0 <= w /\ w <= 65535
        => FromWord(w) \in Int /\ -32768 <= FromWord(w) /\ FromWord(w) <= 32767
  BY DEF FromWord
<1>2. \A v \in Int : -32768 <= v /\ v <= 32767 => v \in Samples
  BY IsSample
<1> DEFINE u == a + 256 * b
           v == a * 256 + b
<1>3. u \in Int /\ 0 <= u /\ u <= 65535 /\ v \in Int /\ 0 <= v /\ v <= 65535
  OBVIOUS
<1> HIDE DEF u, v
<1>4. FromWord(u) \in Samples /\ FromWord(v) \in Samples  BY <1>1, <1>2, <1>3
<1> QED BY <1>4 DEF u, v

LEMMA PcmBytes ==
  ASSUME NEW frame \in Seq(Samples)
  PROVE  /\ EncodePcm(frame) \in Seq(0 .. 255)
         /\ Len(EncodePcm(frame)) = 2 * Len(frame)
         /\ \A i \in 1 .. Len(frame) :
              /\ EncodePcm(frame)[2 * i - 1] = ToWord(frame[i]) % 256
              /\ EncodePcm(frame)[2 * i] = ToWord(frame[i]) \div 256
<1> DEFINE n == Len(frame)
           B == EncodePcm(frame)
           lo(i) == ToWord(frame[i]) % 256
           hi(i) == ToWord(frame[i]) \div 256
<1>1. n \in Nat  OBVIOUS
<1>2. \A i \in 1 .. n : lo(i) \in 0 .. 255 /\ hi(i) \in 0 .. 255
  <2> TAKE i \in 1 .. n
  <2>1. frame[i] \in Samples  OBVIOUS
  <2> QED BY <2>1, SampleWord
<1>3. B = [k \in 1 .. 2 * n |-> IF k % 2 = 1 THEN lo((k + 1) \div 2) ELSE hi(k \div 2)]
  BY DEF EncodePcm
<1> HIDE DEF B, lo, hi, n
<1>4. \A k \in 1 .. 2 * n : B[k] \in 0 .. 255
  <2> TAKE k \in 1 .. 2 * n
  <2>0. k \in Nat \ {0}  BY <1>1
  <2>1. CASE k % 2 = 1
    <3>1. (k + 1) \div 2 \in 1 .. n  BY <1>1, <2>0, <2>1, Halves
    <3>2. B[k] = lo((k + 1) \div 2)  BY <1>3, <2>1
    <3> QED BY <1>2, <3>1, <3>2
  <2>2. CASE k % 2 # 1
    <3>1. k \div 2 \in 1 .. n  BY <1>1, <2>0, <2>2, Halves
    <3>2. B[k] = hi(k \div 2)  BY <1>3, <2>2
    <3> QED BY <1>2, <3>1, <3>2
  <2> QED BY <2>1, <2>2
<1>5. B \in Seq(0 .. 255) /\ Len(B) = 2 * n
  <2> DEFINE N == 2 * n
  <2>1. DOMAIN B = 1 .. N /\ N \in Nat  BY <1>1, <1>3
  <2>2. B = [k \in 1 .. N |-> B[k]]  BY <1>3
  <2>3. B \in [1 .. N -> 0 .. 255]  BY <1>4, <2>2
  <2> HIDE DEF N
  <2>4. B \in Seq(0 .. 255)  BY <2>1, <2>3, SeqDef
  <2>5. Len(B) = N  BY <2>1, <2>4, LenProperties
  <2> QED BY <2>4, <2>5 DEF N
<1>6. ASSUME NEW i \in 1 .. n  PROVE B[2 * i - 1] = lo(i) /\ B[2 * i] = hi(i)
  <2>1. /\ 2 * i - 1 \in 1 .. 2 * n /\ 2 * i \in 1 .. 2 * n
        /\ (2 * i - 1) % 2 = 1 /\ (2 * i) % 2 = 0
        /\ ((2 * i - 1) + 1) \div 2 = i /\ (2 * i) \div 2 = i
    BY <1>1
  <2> QED BY <1>3, <2>1
<1> QED BY <1>5, <1>6 DEF B, n, lo, hi

\* The segment a biased magnitude is in.
LEMMA Segment ==
  ASSUME NEW b \in Int, 132 <= b, b < 32768
  PROVE  /\ Exponent(b) \in 0 .. 7
         /\ Exponent(b) > 0 => b >= SegmentStart[Exponent(b) + 1]
         /\ Exponent(b) < 7 => b < SegmentStart[Exponent(b) + 2]
<1> DEFINE Fits(e) == /\ e > 0 => b >= SegmentStart[e + 1]
                      /\ e < 7 => b < SegmentStart[e + 2]
<1>1. /\ SegmentStart[1] = 128 /\ SegmentStart[2] = 256 /\ SegmentStart[3] = 512
      /\ SegmentStart[4] = 1024 /\ SegmentStart[5] = 2048 /\ SegmentStart[6] = 4096
      /\ SegmentStart[7] = 8192 /\ SegmentStart[8] = 16384
  BY DEF SegmentStart
<1>2. \E e \in 0 .. 7 : Fits(e)
  <2>1. Fits(0) \/ Fits(1) \/ Fits(2) \/ Fits(3) \/ Fits(4) \/ Fits(5) \/ Fits(6) \/ Fits(7)
    BY <1>1
  <2> QED BY <2>1
<1>3. Exponent(b) = CHOOSE e \in 0 .. 7 : Fits(e)  BY DEF Exponent
<1>4. Exponent(b) \in 0 .. 7 /\ Fits(Exponent(b))
  <2> HIDE DEF Fits
  <2> QED BY <1>2, <1>3
<1> QED BY <1>4

Widths == {1, 2, 4, 8, 16, 32, 64, 128}

\* Segment e starts at 128 times its width, a power of two, and is as long.
LEMMA SegmentWidth ==
  ASSUME NEW e \in 0 .. 7
  PROVE  \E t \in Widths :
           /\ SegmentStart[e + 1] = 128 * t /\ SegmentStart[e + 1] \div 128 = t
           /\ SegmentStart[e + 1] \div 16 = 8 * t
           /\ e = 0 => t = 1
           /\ e = 7 => t = 128
           /\ e < 7 => SegmentStart[e + 2] = 256 * t
<1>1. /\ SegmentStart[1] = 128 /\ SegmentStart[2] = 256 /\ SegmentStart[3] = 512
      /\ SegmentStart[4] = 1024 /\ SegmentStart[5] = 2048 /\ SegmentStart[6] = 4096
      /\ SegmentStart[7] = 8192 /\ SegmentStart[8] = 16384
  BY DEF SegmentStart
<1>2. CASE e = 0  BY <1>1, <1>2 DEF Widths
<1>3. CASE e = 1  BY <1>1, <1>3 DEF Widths
<1>4. CASE e = 2  BY <1>1, <1>4 DEF Widths
<1>5. CASE e = 3  BY <1>1, <1>5 DEF Widths
<1>6. CASE e = 4  BY <1>1, <1>6 DEF Widths
<1>7. CASE e = 5  BY <1>1, <1>7 DEF Widths
<1>8. CASE e = 6  BY <1>1, <1>8 DEF Widths
<1>9. CASE e = 7  BY <1>1, <1>9 DEF Widths
<1> QED BY <1>2, <1>3, <1>4, <1>5, <1>6, <1>7, <1>8, <1>9

\* One of sixteen steps of a segment, and how far its middle is.
LEMMA SegmentSteps ==
  ASSUME NEW t \in Widths, NEW b \in Int, 128 * t <= b, b < 256 * t
  PROVE  LET m == (b \div (8 * t)) % 16
             off == b - (8 * m + 132) * t
         IN  /\ m \in 0 .. 15 /\ off \in Int /\ (8 * m + 132) * t \in Int
             /\ -b <= 32 * off /\ 32 * off <= b /\ (8 * m + 132) * t >= 132
<1>1. CASE t = 1  BY <1>1
<1>2. CASE t = 2  BY <1>2
<1>3. CASE t = 4  BY <1>3
<1>4. CASE t = 8  BY <1>4
<1>5. CASE t = 16  BY <1>5
<1>6. CASE t = 32  BY <1>6
<1>7. CASE t = 64  BY <1>7
<1>8. CASE t = 128  BY <1>8
<1> QED BY <1>1, <1>2, <1>3, <1>4, <1>5, <1>6, <1>7, <1>8 DEF Widths

\* Any code stands for a 16-bit sample.
LEMMA UlawDecodes ==
  ASSUME NEW code \in 0 .. 255
  PROVE  UlawToLinear(code) \in Samples
<1> DEFINE bits == 255 - code
           m == bits % 16
           e == (bits \div 16) % 8
<1>1. m \in 0 .. 15 /\ e \in 0 .. 7  OBVIOUS
<1> HIDE DEF e, m
<1>2. PICK t \in Widths : SegmentStart[e + 1] \div 128 = t  BY <1>1, SegmentWidth
<1> DEFINE v == (8 * m + UlawBias) * t - UlawBias
<1>3. UlawToLinear(code) = IF bits >= 128 THEN -v ELSE v
  BY <1>2 DEF UlawToLinear, e, m
<1>4. v \in Int /\ 0 <= v /\ v <= 32124
  <2>1. UlawBias = 132  BY DEF UlawBias
  <2>2. CASE t = 1  BY <1>1, <2>1, <2>2
  <2>3. CASE t = 2  BY <1>1, <2>1, <2>3
  <2>4. CASE t = 4  BY <1>1, <2>1, <2>4
  <2>5. CASE t = 8  BY <1>1, <2>1, <2>5
  <2>6. CASE t = 16  BY <1>1, <2>1, <2>6
  <2>7. CASE t = 32  BY <1>1, <2>1, <2>7
  <2>8. CASE t = 64  BY <1>1, <2>1, <2>8
  <2>9. CASE t = 128  BY <1>1, <2>1, <2>9
  <2> QED BY <2>2, <2>3, <2>4, <2>5, <2>6, <2>7, <2>8, <2>9 DEF Widths
<1> HIDE DEF v
<1>5. \A x \in Int : (x = v \/ x = -v) => -32768 <= x /\ x <= 32767  BY <1>4
<1>6. -v \in Int  BY <1>4
<1> QED BY <1>3, <1>4, <1>5, <1>6, IsSample

\* A coded sample plays with its sign and within half a step of its segment.
LEMMA UlawRoundTrip ==
  ASSUME NEW s \in Samples
  PROVE  LinearToUlaw(s) \in 0 .. 255 /\ CloseUlaw(s, UlawToLinear(LinearToUlaw(s)))
<1> DEFINE a == Magnitude(s)
           b == a + UlawBias
           e == Exponent(b)
           sign == IF s < 0 THEN 128 ELSE 0
           code == LinearToUlaw(s)
<1>1. s \in Int /\ UlawBias = 132 /\ UlawClip = 32635
  BY SamplesAreIntegers DEF UlawBias, UlawClip
<1>2. a \in Int /\ 0 <= a /\ a <= 32635  BY <1>1 DEF Magnitude
<1> HIDE DEF a
<1>3. b \in Int /\ 132 <= b /\ b < 32768 /\ b = a + 132  BY <1>1, <1>2
<1> HIDE DEF b
<1>4. /\ e \in 0 .. 7
      /\ e > 0 => b >= SegmentStart[e + 1]
      /\ e < 7 => b < SegmentStart[e + 2]
  BY <1>3, Segment
<1> HIDE DEF e
<1>5. PICK t \in Widths :
        /\ SegmentStart[e + 1] = 128 * t /\ SegmentStart[e + 1] \div 128 = t
        /\ SegmentStart[e + 1] \div 16 = 8 * t
        /\ e = 0 => t = 1
        /\ e = 7 => t = 128
        /\ e < 7 => SegmentStart[e + 2] = 256 * t
  BY <1>4, SegmentWidth
<1>6. 128 * t <= b /\ b < 256 * t
  <2>1. CASE e = 0  BY <1>3, <1>4, <1>5, <2>1
  <2>2. CASE e = 7  BY <1>3, <1>4, <1>5, <2>2
  <2>3. CASE e > 0 /\ e < 7  BY <1>4, <1>5, <2>3
  <2>4. e = 0 \/ e = 7 \/ (e > 0 /\ e < 7)  BY <1>4
  <2> QED BY <2>1, <2>2, <2>3, <2>4
<1> DEFINE m == (b \div (8 * t)) % 16
           p == (8 * m + 132) * t
           off == b - p
<1>7. /\ m \in 0 .. 15 /\ off \in Int /\ p \in Int
      /\ -b <= 32 * off /\ 32 * off <= b /\ p >= 132
  BY <1>3, <1>6, SegmentSteps
<1>8. code = 255 - (sign + 16 * e + m)
  BY <1>5 DEF LinearToUlaw, e, b, a
<1>9. sign \in {0, 128} /\ (sign = 128 <=> s < 0)  BY <1>1
<1> HIDE DEF m, sign, code
<1> DEFINE bits == 255 - code
<1>10. code \in 0 .. 255 /\ bits = sign + 16 * e + m  BY <1>4, <1>7, <1>8, <1>9
<1>11. bits % 16 = m /\ (bits \div 16) % 8 = e /\ (bits >= 128 <=> sign = 128)
  BY <1>4, <1>7, <1>9, <1>10
<1> HIDE DEF bits
<1> DEFINE v == p - 132
           played == UlawToLinear(code)
<1>12. played = IF s < 0 THEN -v ELSE v
  <2>1. played = IF bits >= 128 THEN -((8 * m + UlawBias) * t - UlawBias)
                                ELSE (8 * m + UlawBias) * t - UlawBias
    BY <1>5, <1>11 DEF UlawToLinear, bits
  <2> QED BY <1>1, <1>9, <1>11, <2>1
<1> HIDE DEF p, played
<1>13. v \in Int /\ v >= 0 /\ a - v = off  BY <1>2, <1>3, <1>7
<1> HIDE DEF v, off
<1> DEFINE o == IF s < 0 THEN a + played ELSE a - played
<1>14. o = off
  <2>1. CASE s < 0
    <3>1. o = a + (-v)  BY <1>12, <2>1
    <3> QED BY <1>2, <1>13, <3>1
  <2>2. CASE ~(s < 0)  BY <1>12, <1>13, <2>2
  <2> QED BY <2>1, <2>2
<1>15. -b <= 32 * o /\ 32 * o <= b  BY <1>7, <1>14
<1>16. IF s < 0 THEN played <= 0 ELSE played >= 0
  <2>1. CASE s < 0
    <3>1. played = -v  BY <1>12, <2>1
    <3> QED BY <1>13, <2>1, <3>1
  <2>2. CASE ~(s < 0)  BY <1>12, <1>13, <2>2
  <2> QED BY <2>1, <2>2
<1> HIDE DEF o
<1>17. CloseUlaw(s, played)
  <2>1. -(a + UlawBias) <= 32 * o /\ 32 * o <= a + UlawBias  BY <1>1, <1>3, <1>15
  <2> QED BY <1>16, <2>1 DEF CloseUlaw, o, a
<1> QED BY <1>10, <1>17 DEF code, played
-----------------------------------------------------------------------------
(* The packet format. *)

Bytes == 0 .. 255

LEMMA Division ==
  ASSUME NEW v \in Nat, NEW m \in Nat \ {0}, NEW n \in Nat, v < m * n
  PROVE  /\ v % m \in 0 .. (m - 1) /\ v \div m \in 0 .. (n - 1)
         /\ v = m * (v \div m) + (v % m)
<1> DEFINE q == v \div m
           r == v % m
<1>1. r \in 0 .. (m - 1) /\ q \in Int /\ v = m * q + r  OBVIOUS
<1> HIDE DEF q, r
<1>2. q >= 0
  <2>1. q <= -1 => m * q <= m * (-1)  BY <1>1
  <2>2. m * (-1) + r < 0  BY <1>1
  <2>3. m * q \in Int  BY <1>1
  <2> QED BY <1>1, <2>1, <2>2, <2>3
<1>3. q < n
  <2>1. q >= n => m * q >= m * n  BY <1>1
  <2>2. m * q \in Int /\ m * n \in Int  BY <1>1
  <2> QED BY <1>1, <2>1, <2>2
<1>4. q \in 0 .. (n - 1)  BY <1>1, <1>2, <1>3
<1>5. v % m \in 0 .. (m - 1)  BY <1>1, Zenon DEF r
<1>6. v \div m \in 0 .. (n - 1)  BY <1>4, Zenon DEF q
<1>7. v = m * (v \div m) + (v % m)  BY <1>1, Zenon DEF q, r
<1> QED BY <1>5, <1>6, <1>7, Zenon

LEMMA Moduli ==
  /\ FieldBase \in Nat \ {0} /\ FieldBase <= 256
  /\ SeqMod \in Nat \ {0} /\ SeqMod = FieldBase * FieldBase
  /\ TimestampMod \in Nat \ {0} /\ TimestampMod = SeqMod * SeqMod
<1>1. FieldBase \in Nat \ {0} /\ FieldBase <= 256  BY FieldAssumption
<1>2. \A n \in Nat \ {0} : n * n \in Nat \ {0}  OBVIOUS
<1> QED BY <1>1, <1>2 DEF SeqMod, TimestampMod

LEMMA Written16 ==
  ASSUME NEW v \in 0 .. (SeqMod - 1)
  PROVE  /\ WriteU16(v) \in Seq(Bytes) /\ Len(WriteU16(v)) = 2
         /\ WriteU16(v)[1] * FieldBase + WriteU16(v)[2] = v
<1> DEFINE hi == v \div FieldBase
           lo == v % FieldBase
<1>1. v \in Nat /\ v < FieldBase * FieldBase  BY Moduli
<1>2. lo \in 0 .. (FieldBase - 1) /\ hi \in 0 .. (FieldBase - 1) /\ v = FieldBase * hi + lo
  BY <1>1, Moduli, Division
<1>3. WriteU16(v) = <<hi, lo>>  BY DEF WriteU16
<1> HIDE DEF hi, lo
<1>4. hi \in Bytes /\ lo \in Bytes  BY <1>2, Moduli DEF Bytes
<1>5. hi * FieldBase + lo = v  BY <1>2, Moduli
<1> QED BY <1>3, <1>4, <1>5

LEMMA Written32 ==
  ASSUME NEW v \in 0 .. (TimestampMod - 1)
  PROVE  /\ WriteU32(v) \in Seq(Bytes) /\ Len(WriteU32(v)) = 4
         /\ (WriteU32(v)[1] * FieldBase + WriteU32(v)[2]) * SeqMod
              + (WriteU32(v)[3] * FieldBase + WriteU32(v)[4]) = v
<1> DEFINE hi == v \div SeqMod
           lo == v % SeqMod
           s == WriteU16(hi)
           t == WriteU16(lo)
           w == WriteU32(v)
<1>1. v \in Nat /\ v < SeqMod * SeqMod  BY Moduli
<1>2. lo \in 0 .. (SeqMod - 1) /\ hi \in 0 .. (SeqMod - 1) /\ v = SeqMod * hi + lo
  BY <1>1, Moduli, Division
<1>3. w = s \o t  BY DEF WriteU32
<1> HIDE DEF hi, lo
<1>4. /\ s \in Seq(Bytes) /\ Len(s) = 2 /\ s[1] * FieldBase + s[2] = hi
      /\ t \in Seq(Bytes) /\ Len(t) = 2 /\ t[1] * FieldBase + t[2] = lo
  BY <1>2, Written16
<1> HIDE DEF s, t, w
<1>5. /\ w \in Seq(Bytes) /\ Len(w) = Len(s) + Len(t)
      /\ \A i \in 1 .. Len(s) + Len(t) : w[i] = IF i <= Len(s) THEN s[i] ELSE t[i - Len(s)]
  BY <1>3, <1>4, ConcatProperties
<1>6. Len(w) = 4 /\ w[1] = s[1] /\ w[2] = s[2] /\ w[3] = t[1] /\ w[4] = t[2]
  BY <1>4, <1>5
<1>7. hi * SeqMod + lo = v  BY <1>2, Moduli
<1> QED BY <1>4, <1>5, <1>6, <1>7 DEF w

\* What a datagram starts with, and where the payload is.
LEMMA Serialized ==
  ASSUME NEW h \in Headers, NEW payload \in Seq(Bytes), NEW room \in Nat,
         HeaderBytes + Len(payload) <= room
  PROVE  LET b == Serialize(h, payload, room) IN
         /\ b \in Seq(Bytes) /\ Len(b) = HeaderBytes + Len(payload)
         /\ b[1] = 128 /\ b[2] = (IF h.marker THEN 128 ELSE 0) + h.payload_type
         /\ b[3] * FieldBase + b[4] = h.sequence_number
         /\ (b[5] * FieldBase + b[6]) * SeqMod + (b[7] * FieldBase + b[8]) = h.timestamp
         /\ (b[9] * FieldBase + b[10]) * SeqMod + (b[11] * FieldBase + b[12]) = h.ssrc
         /\ \A i \in 1 .. Len(payload) : b[HeaderBytes + i] = payload[i]
<1> DEFINE second == (IF h.marker THEN 128 ELSE 0) + h.payload_type
           s == WriteU16(h.sequence_number)
           t == WriteU32(h.timestamp)
           u == WriteU32(h.ssrc)
           b2 == <<128, second>>
           b4 == b2 \o s
           b8 == b4 \o t
           b12 == b8 \o u
           b == b12 \o payload
<1>1. /\ h.marker \in BOOLEAN /\ h.payload_type \in PayloadTypes
      /\ h.sequence_number \in 0 .. (SeqMod - 1) /\ h.timestamp \in 0 .. (TimestampMod - 1)
      /\ h.ssrc \in 0 .. (TimestampMod - 1)
  BY DEF Headers
<1>2. second \in Bytes /\ 128 \in Bytes
  <2>1. h.payload_type \in {0, 96, 97}
    BY <1>1 DEF PayloadTypes, PayloadTypePcm, PayloadTypePcmu, PayloadTypeAdpcm
  <2>2. \A x \in {0, 96, 97} : 0 + x \in Bytes /\ 128 + x \in Bytes  BY DEF Bytes
  <2>3. 128 \in Bytes  BY DEF Bytes
  <2>4. CASE h.marker  BY <2>1, <2>2, <2>3, <2>4
  <2>5. CASE ~h.marker  BY <2>1, <2>2, <2>3, <2>5
  <2> QED BY <2>4, <2>5
<1>3. Serialize(h, payload, room) = b
  <2>1. room \in Nat /\ HeaderBytes \in Nat /\ Len(payload) \in Nat  BY DEF HeaderBytes
  <2>2. ~(room < HeaderBytes + Len(payload))  BY <2>1
  <2>3. Version * 64 = 128  BY DEF Version
  <2> QED BY <2>2, <2>3 DEF Serialize
<1>4. s \in Seq(Bytes) /\ Len(s) = 2 /\ s[1] * FieldBase + s[2] = h.sequence_number
  BY <1>1, Written16
<1>5. /\ t \in Seq(Bytes) /\ Len(t) = 4
      /\ (t[1] * FieldBase + t[2]) * SeqMod + (t[3] * FieldBase + t[4]) = h.timestamp
  BY <1>1, Written32
<1>6. /\ u \in Seq(Bytes) /\ Len(u) = 4
      /\ (u[1] * FieldBase + u[2]) * SeqMod + (u[3] * FieldBase + u[4]) = h.ssrc
  BY <1>1, Written32
<1>a. b4 = b2 \o s /\ b8 = b4 \o t /\ b12 = b8 \o u  OBVIOUS
<1> HIDE DEF second, s, t, u, b4, b8, b12
<1>7. b2 \in Seq(Bytes) /\ Len(b2) = 2 /\ b2[1] = 128 /\ b2[2] = second  BY <1>2
<1> HIDE DEF b2
<1>8. /\ b4 \in Seq(Bytes) /\ Len(b4) = Len(b2) + Len(s)
      /\ \A i \in 1 .. Len(b2) + Len(s) : b4[i] = IF i <= Len(b2) THEN b2[i] ELSE s[i - Len(b2)]
  <2>1. b2 \in Seq(Bytes) /\ s \in Seq(Bytes)  BY <1>4, <1>7
  <2>2. /\ b2 \o s \in Seq(Bytes) /\ Len(b2 \o s) = Len(b2) + Len(s)
        /\ \A i \in 1 .. Len(b2) + Len(s) :
             (b2 \o s)[i] = IF i <= Len(b2) THEN b2[i] ELSE s[i - Len(b2)]
    BY <2>1, ConcatProperties
  <2>3. b4 = b2 \o s  BY <1>a
  <2> QED BY <2>2, <2>3, Zenon
<1>9. Len(b4) = 4 /\ b4[1] = 128 /\ b4[2] = second /\ b4[3] = s[1] /\ b4[4] = s[2]
  BY <1>4, <1>7, <1>8
<1>10. /\ b8 \in Seq(Bytes) /\ Len(b8) = Len(b4) + Len(t)
       /\ \A i \in 1 .. Len(b4) + Len(t) : b8[i] = IF i <= Len(b4) THEN b4[i] ELSE t[i - Len(b4)]
  <2>1. b4 \in Seq(Bytes) /\ t \in Seq(Bytes)  BY <1>5, <1>8
  <2>2. /\ b4 \o t \in Seq(Bytes) /\ Len(b4 \o t) = Len(b4) + Len(t)
        /\ \A i \in 1 .. Len(b4) + Len(t) :
             (b4 \o t)[i] = IF i <= Len(b4) THEN b4[i] ELSE t[i - Len(b4)]
    BY <2>1, ConcatProperties
  <2>3. b8 = b4 \o t  BY <1>a
  <2> QED BY <2>2, <2>3, Zenon
<1>11. /\ Len(b8) = 8 /\ b8[1] = 128 /\ b8[2] = second /\ b8[3] = s[1] /\ b8[4] = s[2]
       /\ b8[5] = t[1] /\ b8[6] = t[2] /\ b8[7] = t[3] /\ b8[8] = t[4]
  BY <1>5, <1>9, <1>10
<1>12. /\ b12 \in Seq(Bytes) /\ Len(b12) = Len(b8) + Len(u)
       /\ \A i \in 1 .. Len(b8) + Len(u) : b12[i] = IF i <= Len(b8) THEN b8[i] ELSE u[i - Len(b8)]
  <2>1. b8 \in Seq(Bytes) /\ u \in Seq(Bytes)  BY <1>6, <1>10
  <2>2. /\ b8 \o u \in Seq(Bytes) /\ Len(b8 \o u) = Len(b8) + Len(u)
        /\ \A i \in 1 .. Len(b8) + Len(u) :
             (b8 \o u)[i] = IF i <= Len(b8) THEN b8[i] ELSE u[i - Len(b8)]
    BY <2>1, ConcatProperties
  <2>3. b12 = b8 \o u  BY <1>a
  <2> QED BY <2>2, <2>3, Zenon
<1>13. /\ Len(b12) = 12 /\ b12[1] = 128 /\ b12[2] = second /\ b12[3] = s[1] /\ b12[4] = s[2]
       /\ b12[5] = t[1] /\ b12[6] = t[2] /\ b12[7] = t[3] /\ b12[8] = t[4]
       /\ b12[9] = u[1] /\ b12[10] = u[2] /\ b12[11] = u[3] /\ b12[12] = u[4]
  BY <1>6, <1>11, <1>12
<1>14. /\ b \in Seq(Bytes) /\ Len(b) = Len(b12) + Len(payload)
       /\ \A i \in 1 .. Len(b12) + Len(payload) :
            b[i] = IF i <= Len(b12) THEN b12[i] ELSE payload[i - Len(b12)]
  BY <1>12, ConcatProperties
<1>15. Len(payload) \in Nat  OBVIOUS
<1> HIDE DEF b
<1>16. \A i \in 1 .. 12 : b[i] = b12[i]  BY <1>13, <1>14, <1>15
<1>17. \A i \in 1 .. Len(payload) : b[HeaderBytes + i] = payload[i]
  <2> TAKE i \in 1 .. Len(payload)
  <2>1. /\ 12 + i \in 1 .. Len(b12) + Len(payload) /\ ~(12 + i <= Len(b12))
        /\ (12 + i) - Len(b12) = i
    BY <1>13, <1>15
  <2>2. b[12 + i] = payload[i]  BY <1>14, <2>1
  <2> QED BY <2>2 DEF HeaderBytes
<1>18. /\ b[1] = 128 /\ b[2] = second /\ b[3] = s[1] /\ b[4] = s[2]
       /\ b[5] = t[1] /\ b[6] = t[2] /\ b[7] = t[3] /\ b[8] = t[4]
       /\ b[9] = u[1] /\ b[10] = u[2] /\ b[11] = u[3] /\ b[12] = u[4]
  BY <1>13, <1>16
<1>19. Len(b) = HeaderBytes + Len(payload)  BY <1>13, <1>14 DEF HeaderBytes
<1> QED BY <1>3, <1>4, <1>5, <1>6, <1>14, <1>17, <1>18, <1>19 DEF second

\* parse undoes serialize.
LEMMA RoundTrip ==
  ASSUME NEW h \in Headers, NEW payload \in Seq(Bytes), NEW room \in Nat,
         HeaderBytes + Len(payload) <= room
  PROVE  LET b == Serialize(h, payload, room) IN
         /\ WellFormed(b)
         /\ Parse(b).header = h /\ Parse(b).payload = payload
         /\ Parse(b) = [header |-> h, payload |-> payload]
<1> DEFINE b == Serialize(h, payload, room)
           second == (IF h.marker THEN 128 ELSE 0) + h.payload_type
<1>1. /\ b \in Seq(Bytes) /\ Len(b) = HeaderBytes + Len(payload)
      /\ b[1] = 128 /\ b[2] = second
      /\ b[3] * FieldBase + b[4] = h.sequence_number
      /\ (b[5] * FieldBase + b[6]) * SeqMod + (b[7] * FieldBase + b[8]) = h.timestamp
      /\ (b[9] * FieldBase + b[10]) * SeqMod + (b[11] * FieldBase + b[12]) = h.ssrc
      /\ \A i \in 1 .. Len(payload) : b[HeaderBytes + i] = payload[i]
  BY Serialized
<1>2. h.marker \in BOOLEAN /\ h.payload_type \in PayloadTypes  BY DEF Headers
<1>3. second % 128 = h.payload_type /\ (second \div 128 = 1 <=> h.marker)
  BY <1>2 DEF PayloadTypes, PayloadTypePcm, PayloadTypePcmu, PayloadTypeAdpcm
<1> HIDE DEF b, second
<1>4. Len(payload) \in Nat /\ HeaderBytes = 12  BY DEF HeaderBytes
<1>5. WellFormed(b)
  <2>1. Len(b) >= HeaderBytes  BY <1>1, <1>4
  <2>2. b[1] \div 64 = 2 /\ b[1] % 64 = 0  BY <1>1
  <2> QED BY <1>1, <1>2, <1>3, <2>1, <2>2 DEF WellFormed, Version
<1> DEFINE r == [marker |-> b[2] \div 128 = 1, payload_type |-> b[2] % 128,
                 sequence_number |-> ReadU16(b, 3), timestamp |-> ReadU32(b, 5),
                 ssrc |-> ReadU32(b, 9)]
<1>6. /\ ReadU16(b, 3) = h.sequence_number /\ ReadU32(b, 5) = h.timestamp
      /\ ReadU32(b, 9) = h.ssrc
  BY <1>1 DEF ReadU16, ReadU32
<1>7. r = h
  <2>1. h = [marker |-> h.marker, payload_type |-> h.payload_type,
             sequence_number |-> h.sequence_number, timestamp |-> h.timestamp, ssrc |-> h.ssrc]
    BY DEF Headers
  <2>2. (b[2] \div 128 = 1) = h.marker
    <3>1. (b[2] \div 128 = 1) \in BOOLEAN /\ (b[2] \div 128 = 1 <=> h.marker)
      BY <1>1, <1>3
    <3> QED BY <1>2, <3>1
  <2>3. b[2] % 128 = h.payload_type  BY <1>1, <1>3
  <2> QED BY <1>6, <2>1, <2>2, <2>3
<1>8. SubSeq(b, HeaderBytes + 1, Len(b)) = payload
  <2> DEFINE c == SubSeq(b, HeaderBytes + 1, Len(b))
             l == Len(b)
  <2>1. l = 12 + Len(payload) /\ l \in Nat  BY <1>1, <1>4
  <2>2. \A i \in 13 .. l : b[i] \in Bytes  BY <1>1, <2>1
  <2>3. /\ SubSeq(b, 13, l) \in Seq(Bytes)
        /\ Len(SubSeq(b, 13, l)) = IF 13 <= l THEN l - 13 + 1 ELSE 0
        /\ \A i \in 1 .. l - 13 + 1 : SubSeq(b, 13, l)[i] = b[13 + i - 1]
    <3> DEFINE k == 13
    <3>1. k \in Int /\ \A i \in k .. l : b[i] \in Bytes  BY <2>2
    <3> HIDE DEF k, l
    <3>2. /\ SubSeq(b, k, l) \in Seq(Bytes)
          /\ Len(SubSeq(b, k, l)) = IF k <= l THEN l - k + 1 ELSE 0
          /\ \A i \in 1 .. l - k + 1 : SubSeq(b, k, l)[i] = b[k + i - 1]
      BY <2>1, <3>1, SubSeqProperties
    <3> QED BY <3>2 DEF k
  <2>4. c = SubSeq(b, 13, l)  BY <1>4
  <2> HIDE DEF c, l
  <2>5. c \in Seq(Bytes) /\ Len(c) = Len(payload)  BY <1>4, <2>1, <2>3, <2>4
  <2>6. ASSUME NEW i \in 1 .. Len(c)  PROVE c[i] = payload[i]
    <3>1. i \in 1 .. l - 13 + 1 /\ 13 + i - 1 = 12 + i  BY <1>4, <2>1, <2>5
    <3>2. c[i] = b[12 + i]  BY <2>3, <2>4, <3>1
    <3> QED BY <1>1, <1>4, <2>5, <3>2
  <2>7. c = payload  BY <2>5, <2>6, SeqEqual
  <2> QED BY <2>7 DEF c
<1>9. Parse(b) = [header |-> h, payload |-> payload]
  <2>1. Parse(b) = [header |-> r, payload |-> SubSeq(b, HeaderBytes + 1, Len(b))]
    BY DEF Parse
  <2> HIDE DEF r
  <2> QED BY <1>7, <1>8, <2>1
<1> QED BY <1>5, <1>9 DEF b
-----------------------------------------------------------------------------
(* Numbers that wrap. *)

LEMMA OneQuotient ==
  ASSUME NEW a \in Int, NEW m \in Nat \ {0}, NEW q \in Int, NEW r \in 0 .. (m - 1),
         a = m * q + r
  PROVE  a % m = r /\ a \div m = q
  OBVIOUS

\* Advancing a number that has wrapped is wrapping the one that has advanced.
LEMMA WrapLater ==
  ASSUME NEW a \in Int, NEW n \in Int, NEW m \in Nat \ {0}
  PROVE  ((a % m) + n) % m = (a + n) % m
<1> DEFINE q == a \div m
           r == a % m
           b == r + n
           p == b \div m
           t == b % m
<1>1. r \in 0 .. (m - 1) /\ q \in Int /\ a = m * q + r  OBVIOUS
<1> HIDE DEF q, r
<1>2. b \in Int /\ b = r + n  BY <1>1
<1> HIDE DEF b
<1>3. t \in 0 .. (m - 1) /\ p \in Int /\ b = m * p + t  BY <1>2
<1> HIDE DEF p, t
<1>4. a + n = m * (q + p) + t
  <2>1. m * (q + p) = m * q + m * p  BY <1>1, <1>3
  <2>2. m * q \in Int /\ m * p \in Int  BY <1>1, <1>3
  <2> QED BY <1>1, <1>2, <1>3, <2>1, <2>2
<1> DEFINE c == a + n
           k == q + p
<1>5. c \in Int /\ k \in Int /\ c = m * k + t  BY <1>1, <1>3, <1>4
<1> HIDE DEF c, k
<1>6. c % m = t  BY <1>3, <1>5, OneQuotient
<1>7. b % m = t  BY DEF t
<1> QED BY <1>6, <1>7 DEF b, c, r

LEMMA NextMultiple ==
  ASSUME NEW a \in Nat, NEW m \in Nat \ {0}, a % m = 0
  PROVE  (a + m) % m = 0 /\ (a + m) \div m = a \div m + 1
<1> DEFINE q == a \div m
<1>1. q \in Int /\ a = m * q  OBVIOUS
<1> HIDE DEF q
<1> DEFINE b == a + m
           p == q + 1
<1>2. b = m * p + 0 /\ b \in Int /\ p \in Int /\ 0 \in 0 .. (m - 1)
  <2>1. m * (q + 1) = m * q + m  BY <1>1
  <2> QED BY <1>1, <2>1
<1> HIDE DEF b, p
<1>3. b % m = 0 /\ b \div m = p  BY <1>2, OneQuotient
<1> QED BY <1>3 DEF b, p, q
-----------------------------------------------------------------------------
(* Frames as payloads, and back. *)

LEMMA SizesAreNatural ==
  /\ FrameSamples \in Nat \ {0} /\ SlotBytes \in Nat /\ MaxDatagramBytes \in Nat
  /\ 2 * FrameSamples <= SlotBytes
  /\ AdpcmStateHeaderBytes = 4 /\ 4 + ((FrameSamples + 1) \div 2) <= SlotBytes
  /\ HeaderBytes = 12 /\ HeaderBytes + SlotBytes <= MaxDatagramBytes
<1>1. SlotBytes \in Nat /\ MaxDatagramBytes \in Nat  BY StreamAssumption
<1>2. AdpcmStateHeaderBytes = 4 /\ HeaderBytes = 12  BY DEF AdpcmStateHeaderBytes, HeaderBytes
<1>3. /\ 2 * FrameSamples <= SlotBytes
      /\ AdpcmStateHeaderBytes + (FrameSamples + 1) \div 2 <= SlotBytes
      /\ SlotBytes + HeaderBytes <= MaxDatagramBytes
  BY StreamAssumption
<1>4. HeaderBytes + SlotBytes <= MaxDatagramBytes  BY <1>1, <1>2, <1>3
<1> QED BY <1>1, <1>2, <1>3, <1>4, FrameAssumption

LEMMA WholePrefix ==
  ASSUME NEW s \in Seq(Bytes), NEW n \in Nat, Len(s) <= n
  PROVE  Prefix(s, n) = s
<1>1. Len(s) \in Nat  OBVIOUS
<1>2. Smaller(n, Len(s)) = Len(s)  BY <1>1 DEF Smaller
<1>3. SubSeq(s, 1, Len(s)) = s  OBVIOUS
<1> QED BY <1>2, <1>3 DEF Prefix

LEMMA PrefixBytes ==
  ASSUME NEW s \in Seq(Bytes), NEW n \in Nat
  PROVE  /\ Prefix(s, n) \in Seq(Bytes)
         /\ Len(Prefix(s, n)) <= n /\ Len(Prefix(s, n)) <= Len(s)
<1> DEFINE k == Smaller(n, Len(s))
           one == 1
<1>1. Len(s) \in Nat  OBVIOUS
<1>2. k \in Nat /\ k <= n /\ k <= Len(s)  BY <1>1 DEF Smaller
<1>3. \A i \in one .. k : s[i] \in Bytes  BY <1>1, <1>2
<1>4. Prefix(s, n) = SubSeq(s, one, k)  BY DEF Prefix
<1>5. one \in Int /\ k \in Int  BY <1>2
<1> HIDE DEF one, k
<1>6. SubSeq(s, one, k) \in Seq(Bytes)
      /\ Len(SubSeq(s, one, k)) = IF one <= k THEN k - one + 1 ELSE 0
  BY <1>3, <1>5, SubSeqProperties
<1>7. Len(SubSeq(s, one, k)) = k  BY <1>2, <1>6 DEF one
<1> QED BY <1>1, <1>2, <1>4, <1>6, <1>7

LEMMA UlawBytes ==
  ASSUME NEW frame \in Seq(Samples)
  PROVE  /\ UlawEncodeFrame(frame) \in Seq(Bytes)
         /\ Len(UlawEncodeFrame(frame)) = Len(frame)
         /\ \A i \in 1 .. Len(frame) : UlawEncodeFrame(frame)[i] = LinearToUlaw(frame[i])
<1> DEFINE B == UlawEncodeFrame(frame)
           n == Len(frame)
<1>1. n \in Nat /\ DOMAIN frame = 1 .. n  OBVIOUS
<1>2. B = [i \in 1 .. n |-> LinearToUlaw(frame[i])]  BY <1>1 DEF UlawEncodeFrame
<1>3. \A i \in 1 .. n : LinearToUlaw(frame[i]) \in Bytes
  <2> TAKE i \in 1 .. n
  <2>1. frame[i] \in Samples  OBVIOUS
  <2> QED BY <2>1, UlawRoundTrip DEF Bytes
<1> HIDE DEF B, n
<1>4. B \in [1 .. n -> Bytes] /\ DOMAIN B = 1 .. n  BY <1>2, <1>3
<1>5. B \in Seq(Bytes)  BY <1>1, <1>4, SeqDef
<1>6. Len(B) = n  BY <1>1, <1>4, <1>5, LenProperties
<1> QED BY <1>2, <1>5, <1>6 DEF B, n

\* The state header gives back the state, and leaves the codes.
LEMMA StateHeader ==
  ASSUME NEW s \in AdpcmStates, NEW codes \in Seq(Bytes)
  PROVE  LET p == PackState(s) \o codes IN
         /\ p \in Seq(Bytes) /\ Len(p) = 4 + Len(codes)
         /\ UnpackState(p) = s
         /\ SubSeq(p, AdpcmStateHeaderBytes + 1, Len(p)) = codes
<1> DEFINE a == PackState(s)
           p == a \o codes
           w == ToWord(s.predictor)
<1>1. s.predictor \in Samples /\ s.step_index \in 0 .. MaxIndex  BY StateFields
<1>2. /\ FromWord(w) = s.predictor
      /\ w % 256 \in 0 .. 255 /\ w \div 256 \in 0 .. 255
      /\ (w % 256) + 256 * (w \div 256) = w
  BY <1>1, SampleWord
<1> DEFINE x == w \div 256
           y == w % 256
<1>3. a = <<x, y, s.step_index, 0>>  BY DEF PackState
<1>a. x \in 0 .. 255 /\ y \in 0 .. 255 /\ y + 256 * x = w  BY <1>2, Zenon
<1> HIDE DEF a, w, x, y
<1>b. x * 256 + y = w  BY <1>a
<1>4. /\ a \in Seq(Bytes) /\ Len(a) = 4
      /\ a[1] = x /\ a[2] = y /\ a[3] = s.step_index
  <2>1. s.step_index \in Bytes /\ 0 \in Bytes  BY <1>1 DEF Bytes, MaxIndex
  <2>2. x \in Bytes /\ y \in Bytes  BY <1>a DEF Bytes
  <2> QED BY <1>3, <2>1, <2>2
<1>5. Len(codes) \in Nat  OBVIOUS
<1>6. /\ p \in Seq(Bytes) /\ Len(p) = Len(a) + Len(codes)
      /\ \A i \in 1 .. Len(a) + Len(codes) :
           p[i] = IF i <= Len(a) THEN a[i] ELSE codes[i - Len(a)]
  BY <1>4, ConcatProperties
<1> HIDE DEF p
<1>7. Len(p) = 4 + Len(codes) /\ p[1] = a[1] /\ p[2] = a[2] /\ p[3] = a[3]
  BY <1>4, <1>5, <1>6
<1>8. \A i \in 1 .. Len(codes) : p[4 + i] = codes[i]
  <2> TAKE i \in 1 .. Len(codes)
  <2>1. /\ 4 + i \in 1 .. Len(a) + Len(codes) /\ ~(4 + i <= Len(a)) /\ (4 + i) - Len(a) = i
    BY <1>4, <1>5
  <2> QED BY <1>6, <2>1
<1>9. UnpackState(p) = s
  <2>1. p[1] * 256 + p[2] = w
    <3>1. p[1] = x /\ p[2] = y  BY <1>4, <1>7
    <3> QED BY <1>b, <3>1
  <2>2. Smaller(p[3], MaxIndex) = s.step_index
    <3>1. p[3] = s.step_index  BY <1>4, <1>7
    <3>2. \A i \in 0 .. MaxIndex : Smaller(i, MaxIndex) = i  BY DEF Smaller, MaxIndex
    <3> QED BY <1>1, <3>1, <3>2
  <2>3. UnpackState(p) = [predictor |-> s.predictor, step_index |-> s.step_index]
    BY <1>2, <2>1, <2>2 DEF UnpackState
  <2>4. s = [predictor |-> s.predictor, step_index |-> s.step_index]  BY DEF AdpcmStates
  <2> QED BY <2>3, <2>4
<1>10. SubSeq(p, AdpcmStateHeaderBytes + 1, Len(p)) = codes
  <2> DEFINE k == 5
             l == Len(p)
             c == SubSeq(p, k, l)
  <2>1. k \in Int /\ l \in Int /\ \A i \in k .. l : p[i] \in Bytes  BY <1>6, <1>7, <1>5
  <2>2. l = 4 + Len(codes)  BY <1>7
  <2>3. SubSeq(p, AdpcmStateHeaderBytes + 1, Len(p)) = c
    BY DEF AdpcmStateHeaderBytes
  <2>4. k = 5  OBVIOUS
  <2> HIDE DEF k, l
  <2>5. /\ c \in Seq(Bytes) /\ Len(c) = IF k <= l THEN l - k + 1 ELSE 0
        /\ \A i \in 1 .. l - k + 1 : c[i] = p[k + i - 1]
    BY <2>1, SubSeqProperties
  <2> HIDE DEF c
  <2>6. Len(c) = Len(codes)  BY <1>5, <2>2, <2>4, <2>5
  <2>7. ASSUME NEW i \in 1 .. Len(c)  PROVE c[i] = codes[i]
    <3>1. i \in 1 .. l - k + 1 /\ k + i - 1 = 4 + i  BY <1>5, <2>2, <2>4, <2>6
    <3> QED BY <1>8, <2>5, <2>6, <3>1
  <2>8. c = codes  BY <2>5, <2>6, <2>7, SeqEqual
  <2> QED BY <2>3, <2>8
<1> QED BY <1>6, <1>7, <1>9, <1>10 DEF p, a

LEMMA FunctionIsSeq ==
  ASSUME NEW S, NEW n \in Nat, NEW f \in [1 .. n -> S]
  PROVE  f \in Seq(S) /\ Len(f) = n
<1>1. f \in Seq(S)  BY SeqDef
<1> QED BY <1>1, LenProperties

LEMMA PcmSamples ==
  ASSUME NEW bytes \in Seq(Bytes)
  PROVE  /\ DecodePcm(bytes) \in Seq(Samples) /\ Len(DecodePcm(bytes)) = Len(bytes) \div 2
         /\ \A i \in 1 .. Len(bytes) \div 2 :
              DecodePcm(bytes)[i] = FromWord(bytes[2 * i - 1] + 256 * bytes[2 * i])
<1> DEFINE n == Len(bytes) \div 2
           f == DecodePcm(bytes)
           Sample(i) == FromWord(bytes[2 * i - 1] + 256 * bytes[2 * i])
<1>1. Len(bytes) \in Nat  OBVIOUS
<1>2. n \in Nat /\ 2 * n <= Len(bytes)  BY <1>1
<1>3. f = [i \in 1 .. n |-> Sample(i)]  BY DEF DecodePcm
<1> HIDE DEF f, n
<1>4. \A i \in 1 .. n : Sample(i) \in Samples
  <2> TAKE i \in 1 .. n
  <2> DEFINE a == bytes[2 * i - 1]
             b == bytes[2 * i]
  <2>1. 2 * i - 1 \in 1 .. Len(bytes) /\ 2 * i \in 1 .. Len(bytes)  BY <1>1, <1>2
  <2>a. a \in Bytes /\ b \in Bytes  BY <2>1
  <2>2. a \in 0 .. 255 /\ b \in 0 .. 255  BY <2>a DEF Bytes
  <2>3. Sample(i) = FromWord(a + 256 * b)  OBVIOUS
  <2> HIDE DEF a, b
  <2>4. FromWord(a + 256 * b) \in Samples  BY <2>2, WordSample
  <2> HIDE DEF Sample
  <2> QED BY <2>3, <2>4
<1> HIDE DEF Sample
<1>5. f \in [1 .. n -> Samples]  BY <1>3, <1>4
<1>6. f \in Seq(Samples) /\ Len(f) = n  BY <1>2, <1>5, FunctionIsSeq
<1>7. \A i \in 1 .. n : f[i] = Sample(i)  BY <1>3
<1> QED BY <1>6, <1>7 DEF f, n, Sample

LEMMA UlawSamples ==
  ASSUME NEW codes \in Seq(Bytes)
  PROVE  /\ UlawDecodeFrame(codes) \in Seq(Samples) /\ Len(UlawDecodeFrame(codes)) = Len(codes)
         /\ \A i \in 1 .. Len(codes) : UlawDecodeFrame(codes)[i] = UlawToLinear(codes[i])
<1> DEFINE f == UlawDecodeFrame(codes)
           n == Len(codes)
<1>1. n \in Nat /\ DOMAIN codes = 1 .. n  OBVIOUS
<1>2. f = [i \in 1 .. n |-> UlawToLinear(codes[i])]  BY <1>1 DEF UlawDecodeFrame
<1>3. \A i \in 1 .. n : UlawToLinear(codes[i]) \in Samples
  <2> TAKE i \in 1 .. n
  <2>1. codes[i] \in Bytes  OBVIOUS
  <2> QED BY <2>1, UlawDecodes DEF Bytes
<1> HIDE DEF f, n
<1>4. f \in [1 .. n -> Samples]  BY <1>2, <1>3
<1>5. f \in Seq(Samples) /\ Len(f) = n  BY <1>1, <1>4, FunctionIsSeq
<1>6. \A i \in 1 .. n : f[i] = UlawToLinear(codes[i])  BY <1>2
<1> QED BY <1>5, <1>6 DEF f, n

LEMMA AdpcmSamples ==
  ASSUME NEW bytes, NEW n \in Nat, NEW state \in AdpcmStates,
         \A i \in 1 .. n : Nibble(bytes, i) \in Codes
  PROVE  /\ DecodeAdpcm(bytes, n, state) \in Seq(Samples)
         /\ Len(DecodeAdpcm(bytes, n, state)) = n
         /\ \A i \in 1 .. n : DecodeAdpcm(bytes, n, state)[i]
                                = DecoderStates(bytes, n, state)[i].predictor
<1> DEFINE f == DecodeAdpcm(bytes, n, state)
           d == DecoderStates(bytes, n, state)
<1>1. f = [i \in 1 .. n |-> d[i].predictor]  BY DEF DecodeAdpcm
<1>2. d \in [0 .. n -> AdpcmStates]  BY DecoderRuns
<1> HIDE DEF d, f
<1>3. \A i \in 1 .. n : d[i].predictor \in Samples
  <2> TAKE i \in 1 .. n
  <2>1. d[i] \in AdpcmStates  BY <1>2
  <2> QED BY <2>1, StateFields
<1>4. f \in [1 .. n -> Samples]  BY <1>1, <1>3
<1>5. f \in Seq(Samples) /\ Len(f) = n  BY <1>4, FunctionIsSeq
<1>6. \A i \in 1 .. n : f[i] = d[i].predictor  BY <1>1
<1> QED BY <1>5, <1>6 DEF f, d

LEMMA AnyNibble ==
  ASSUME NEW bytes \in Seq(Bytes), NEW i \in 1 .. 2 * Len(bytes)
  PROVE  Nibble(bytes, i) \in Codes
<1> DEFINE n == Len(bytes)
<1>1. n \in Nat  OBVIOUS
<1> HIDE DEF n
<1>2. i \in Nat \ {0} /\ i <= 2 * n  BY <1>1 DEF n
<1>3. \A b \in 0 .. 255 : b % 16 \in 0 .. 15 /\ b \div 16 \in 0 .. 15  OBVIOUS
<1>4. \A k \in 1 .. n : bytes[k] \in 0 .. 255
  <2> TAKE k \in 1 .. n
  <2>1. bytes[k] \in Bytes  BY DEF n
  <2> QED BY <2>1 DEF Bytes
<1>5. CASE i % 2 = 1
  <2>1. (i + 1) \div 2 \in 1 .. n  BY <1>1, <1>2, <1>5, Halves
  <2>2. Nibble(bytes, i) = bytes[(i + 1) \div 2] % 16  BY <1>5 DEF Nibble
  <2> QED BY <1>3, <1>4, <2>1, <2>2 DEF Codes
<1>6. CASE i % 2 # 1
  <2>1. i \div 2 \in 1 .. n  BY <1>1, <1>2, <1>6, Halves
  <2>2. Nibble(bytes, i) = bytes[i \div 2] \div 16  BY <1>6 DEF Nibble
  <2> QED BY <1>3, <1>4, <2>1, <2>2 DEF Codes
<1> QED BY <1>5, <1>6

LEMMA AnyState ==
  ASSUME NEW bytes \in Seq(Bytes), Len(bytes) >= 4
  PROVE  UnpackState(bytes) \in AdpcmStates
<1> DEFINE a == bytes[1]
           b == bytes[2]
           c == bytes[3]
<1>1. a \in 0 .. 255 /\ b \in 0 .. 255 /\ c \in 0 .. 255
  <2>1. 1 \in 1 .. Len(bytes) /\ 2 \in 1 .. Len(bytes) /\ 3 \in 1 .. Len(bytes)  OBVIOUS
  <2>2. a \in Bytes /\ b \in Bytes /\ c \in Bytes  BY <2>1
  <2> QED BY <2>2 DEF Bytes
<1>2. UnpackState(bytes) = [predictor |-> FromWord(a * 256 + b), step_index |-> Smaller(c, MaxIndex)]
  BY DEF UnpackState
<1> HIDE DEF a, b, c
<1>3. FromWord(a * 256 + b) \in Samples  BY <1>1, WordSample, ZenonT(60)
<1>4. Smaller(c, MaxIndex) \in 0 .. MaxIndex  BY <1>1 DEF Smaller, MaxIndex
<1> QED BY <1>2, <1>3, <1>4 DEF AdpcmStates

LEMMA Types ==
  /\ PayloadTypePcm = 97 /\ PayloadTypePcmu = 0 /\ PayloadTypeAdpcm = 96
  /\ PayloadTypes = {PayloadTypePcmu, PayloadTypeAdpcm, PayloadTypePcm}
  BY DEF PayloadTypes, PayloadTypePcm, PayloadTypePcmu, PayloadTypeAdpcm

\* The branches of the sender's loop and of decode_slot.
LEMMA Branches ==
  ASSUME NEW frame, NEW state, NEW payload
  PROVE  /\ EncodePayload(PayloadTypePcm, frame, state) = EncodePcm(frame)
         /\ EncodePayload(PayloadTypePcmu, frame, state) = UlawEncodeFrame(frame)
         /\ EncodePayload(PayloadTypeAdpcm, frame, state)
              = PackState(state) \o EncodeAdpcm(frame, state)
         /\ DecodedSamples(PayloadTypePcm, payload) = DecodePcm(Prefix(payload, 2 * FrameSamples))
         /\ DecodedSamples(PayloadTypePcmu, payload) = UlawDecodeFrame(Prefix(payload, FrameSamples))
<1>1. /\ PayloadTypePcm # PayloadTypePcmu /\ PayloadTypePcm # PayloadTypeAdpcm
      /\ PayloadTypePcmu # PayloadTypeAdpcm
  BY Types
<1>2. EncodePayload(PayloadTypePcm, frame, state) = EncodePcm(frame)
  BY <1>1 DEF EncodePayload
<1>3. EncodePayload(PayloadTypePcmu, frame, state) = UlawEncodeFrame(frame)
  BY <1>1 DEF EncodePayload
<1>4. EncodePayload(PayloadTypeAdpcm, frame, state) = PackState(state) \o EncodeAdpcm(frame, state)
  BY <1>1 DEF EncodePayload, StateSent
<1>5. DecodedSamples(PayloadTypePcm, payload) = DecodePcm(Prefix(payload, 2 * FrameSamples))
  BY <1>1 DEF DecodedSamples
<1>6. DecodedSamples(PayloadTypePcmu, payload) = UlawDecodeFrame(Prefix(payload, FrameSamples))
  BY <1>1 DEF DecodedSamples
<1> QED BY <1>2, <1>3, <1>4, <1>5, <1>6

LEMMA AdpcmBranch ==
  ASSUME NEW payload
  PROVE  LET codes == SubSeq(payload, AdpcmStateHeaderBytes + 1, Len(payload)) IN
         DecodedSamples(PayloadTypeAdpcm, payload)
           = IF Len(payload) >= AdpcmStateHeaderBytes
               THEN DecodeAdpcm(codes, Smaller(2 * Len(codes), FrameSamples), UnpackState(payload))
               ELSE <<>>
<1>1. PayloadTypePcm # PayloadTypeAdpcm /\ PayloadTypePcmu # PayloadTypeAdpcm  BY Types
<1> QED BY <1>1 DEF DecodedSamples

\* Any payload holds at most a frame of samples.
LEMMA AnyPayload ==
  ASSUME NEW payload \in Seq(Bytes), NEW type \in PayloadTypes
  PROVE  /\ DecodedSamples(type, payload) \in Seq(Samples)
         /\ Len(DecodedSamples(type, payload)) <= FrameSamples
<1>1. FrameSamples \in Nat /\ AdpcmStateHeaderBytes = 4  BY SizesAreNatural
<1>2. CASE type = PayloadTypePcm
  <2> DEFINE F == 2 * FrameSamples
             p == Prefix(payload, F)
  <2>1. F \in Nat  BY <1>1
  <2>2. F = 2 * FrameSamples  OBVIOUS
  <2> HIDE DEF F
  <2>3. p \in Seq(Bytes) /\ Len(p) <= F  BY <2>1, PrefixBytes
  <2>4. DecodedSamples(type, payload) = DecodePcm(p)  BY <1>2, <2>2, Branches
  <2> HIDE DEF p
  <2>5. Len(p) \in Nat  BY <2>3
  <2>6. Len(p) \div 2 <= FrameSamples  BY <1>1, <2>2, <2>3, <2>5
  <2>7. DecodePcm(p) \in Seq(Samples) /\ Len(DecodePcm(p)) = Len(p) \div 2
    BY <2>3, PcmSamples
  <2> QED BY <2>4, <2>6, <2>7
<1>3. CASE type = PayloadTypePcmu
  <2> DEFINE p == Prefix(payload, FrameSamples)
  <2>1. p \in Seq(Bytes) /\ Len(p) <= FrameSamples  BY <1>1, PrefixBytes
  <2>2. DecodedSamples(type, payload) = UlawDecodeFrame(p)  BY <1>3, Branches
  <2> HIDE DEF p
  <2>3. UlawDecodeFrame(p) \in Seq(Samples) /\ Len(UlawDecodeFrame(p)) = Len(p)
    BY <2>1, UlawSamples
  <2> QED BY <2>1, <2>2, <2>3
<1>4. CASE type = PayloadTypeAdpcm /\ Len(payload) >= AdpcmStateHeaderBytes
  <2> DEFINE k == AdpcmStateHeaderBytes + 1
             l == Len(payload)
             codes == SubSeq(payload, k, l)
             n == Smaller(2 * Len(codes), FrameSamples)
             s == UnpackState(payload)
  <2>1. k \in Int /\ l \in Int /\ \A i \in k .. l : payload[i] \in Bytes
    BY <1>1
  <2>2. DecodedSamples(type, payload) = DecodeAdpcm(codes, n, s)
    BY <1>4, AdpcmBranch
  <2>3. s \in AdpcmStates  BY <1>1, <1>4, AnyState
  <2> HIDE DEF k, l, s
  <2>4. codes \in Seq(Bytes)  BY <2>1, SubSeqProperties
  <2> HIDE DEF codes
  <2>5. Len(codes) \in Nat  BY <2>4
  <2>6. n \in Nat /\ n <= 2 * Len(codes) /\ n <= FrameSamples
    BY <1>1, <2>5 DEF Smaller
  <2> HIDE DEF n
  <2>7. \A i \in 1 .. n : i \in 1 .. 2 * Len(codes)  BY <2>5, <2>6
  <2>8. \A i \in 1 .. n : Nibble(codes, i) \in Codes  BY <2>4, <2>7, AnyNibble
  <2>9. DecodeAdpcm(codes, n, s) \in Seq(Samples) /\ Len(DecodeAdpcm(codes, n, s)) = n
    BY <2>3, <2>6, <2>8, AdpcmSamples
  <2> QED BY <2>2, <2>6, <2>9
<1>5. CASE type = PayloadTypeAdpcm /\ ~(Len(payload) >= AdpcmStateHeaderBytes)
  <2>1. DecodedSamples(type, payload) = <<>>  BY <1>5, AdpcmBranch
  <2>2. <<>> \in Seq(Samples) /\ Len(<<>>) = 0  OBVIOUS
  <2> QED BY <1>1, <2>1, <2>2
<1>6. type \in {PayloadTypePcmu, PayloadTypeAdpcm, PayloadTypePcm}  BY Types
<1> QED BY <1>2, <1>3, <1>4, <1>5, <1>6

\* Whatever it holds, a slot plays for a frame.
LEMMA AnySlot ==
  ASSUME NEW payload \in Seq(Bytes), NEW type \in PayloadTypes
  PROVE  /\ DecodeSlot(type, payload) \in Seq(Samples)
         /\ Len(DecodeSlot(type, payload)) = FrameSamples
<1> DEFINE samples == DecodedSamples(type, payload)
           f == DecodeSlot(type, payload)
<1>1. samples \in Seq(Samples)  BY AnyPayload
<1>2. f = [i \in 1 .. FrameSamples |-> IF i <= Len(samples) THEN samples[i] ELSE 0]
  BY DEF DecodeSlot
<1> HIDE DEF samples, f
<1>3. FrameSamples \in Nat /\ Len(samples) \in Nat  BY <1>1, SizesAreNatural
<1>4. 0 \in Samples  BY IsSample
<1>5. \A i \in 1 .. FrameSamples : (IF i <= Len(samples) THEN samples[i] ELSE 0) \in Samples
  <2> TAKE i \in 1 .. FrameSamples
  <2>1. CASE i <= Len(samples)
    <3>1. i \in 1 .. Len(samples)  BY <1>3, <2>1
    <3> QED BY <1>1, <2>1, <3>1
  <2>2. CASE ~(i <= Len(samples))  BY <1>4, <2>2
  <2> QED BY <2>1, <2>2
<1>6. f \in [1 .. FrameSamples -> Samples]  BY <1>2, <1>5
<1>7. f \in Seq(Samples) /\ Len(f) = FrameSamples  BY <1>3, <1>6, FunctionIsSeq
<1> QED BY <1>7 DEF f

\* What the sender makes of a frame fits the receiver's slot.
LEMMA FrameFits ==
  ASSUME NEW type \in PayloadTypes, NEW frame \in Seq(Samples), NEW state \in AdpcmStates,
         Len(frame) <= FrameSamples
  PROVE  /\ EncodePayload(type, frame, state) \in Seq(Bytes)
         /\ Len(EncodePayload(type, frame, state)) <= SlotBytes
<1> DEFINE n == Len(frame)
           p == EncodePayload(type, frame, state)
<1>1. /\ FrameSamples \in Nat /\ SlotBytes \in Nat /\ 2 * FrameSamples <= SlotBytes
      /\ 4 + ((FrameSamples + 1) \div 2) <= SlotBytes
  BY SizesAreNatural
<1>2. n \in Nat /\ n <= FrameSamples  OBVIOUS
<1>3. CASE type = PayloadTypePcm
  <2>1. p = EncodePcm(frame)  BY <1>3, Branches
  <2>2. EncodePcm(frame) \in Seq(Bytes) /\ Len(EncodePcm(frame)) = 2 * n
    BY PcmBytes DEF Bytes
  <2> HIDE DEF p, n
  <2>3. 2 * n <= SlotBytes  BY <1>1, <1>2
  <2> QED BY <2>1, <2>2, <2>3 DEF p
<1>4. CASE type = PayloadTypePcmu
  <2>1. p = UlawEncodeFrame(frame)  BY <1>4, Branches
  <2>2. UlawEncodeFrame(frame) \in Seq(Bytes) /\ Len(UlawEncodeFrame(frame)) = n
    BY UlawBytes
  <2> HIDE DEF p, n
  <2>3. n <= SlotBytes  BY <1>1, <1>2
  <2> QED BY <2>1, <2>2, <2>3 DEF p
<1>5. CASE type = PayloadTypeAdpcm
  <2> DEFINE codes == EncodeAdpcm(frame, state)
  <2>1. p = PackState(state) \o codes  BY <1>5, Branches
  <2>2. codes \in Seq(Bytes) /\ Len(codes) = (n + 1) \div 2
    BY AdpcmBytes DEF Bytes
  <2> HIDE DEF p, n, codes
  <2>3. p \in Seq(Bytes) /\ Len(p) = 4 + Len(codes)  BY <2>1, <2>2, StateHeader
  <2>4. (n + 1) \div 2 <= (FrameSamples + 1) \div 2  BY <1>1, <1>2
  <2>5. (n + 1) \div 2 \in Nat /\ (FrameSamples + 1) \div 2 \in Nat  BY <1>1, <1>2
  <2>6. Len(p) <= SlotBytes  BY <1>1, <2>2, <2>3, <2>4, <2>5
  <2> QED BY <2>3, <2>6 DEF p
<1> QED BY <1>3, <1>4, <1>5, Types

\* What is to be heard of a frame.
FrameHeard(type, frame, state) ==
  IF type = PayloadTypeAdpcm
    THEN [i \in DOMAIN frame |-> EncoderStates(frame, state)[i].predictor] ELSE frame

Plays(type, given, played) ==
  /\ \A i \in 1 .. Len(given) : IF type = PayloadTypePcmu THEN CloseUlaw(given[i], played[i])
                                ELSE played[i] = given[i]
  /\ \A i \in 1 .. FrameSamples :
       i > Len(given) + (IF type = PayloadTypeAdpcm THEN Len(given) % 2 ELSE 0) => played[i] = 0

LEMMA HeardFrame ==
  ASSUME NEW type \in PayloadTypes, NEW frame \in Seq(Samples), NEW state \in AdpcmStates
  PROVE  /\ FrameHeard(type, frame, state) \in Seq(Samples)
         /\ Len(FrameHeard(type, frame, state)) = Len(frame)
<1> DEFINE n == Len(frame)
           e == EncoderStates(frame, state)
           f == FrameHeard(type, frame, state)
<1>1. n \in Nat /\ DOMAIN frame = 1 .. n  OBVIOUS
<1>2. CASE type = PayloadTypeAdpcm
  <2>1. f = [i \in 1 .. n |-> e[i].predictor]  BY <1>1, <1>2 DEF FrameHeard
  <2>2. e \in [0 .. n -> AdpcmStates]  BY EncoderRuns
  <2> HIDE DEF e, f, n
  <2>3. \A i \in 1 .. n : e[i].predictor \in Samples
    <3> TAKE i \in 1 .. n
    <3>1. e[i] \in AdpcmStates  BY <1>1, <2>2
    <3> QED BY <3>1, StateFields
  <2>4. f \in [1 .. n -> Samples]  BY <2>1, <2>3
  <2>5. f \in Seq(Samples) /\ Len(f) = n  BY <1>1, <2>4, FunctionIsSeq
  <2> QED BY <2>5 DEF f, n
<1>3. CASE type # PayloadTypeAdpcm  BY <1>3 DEF FrameHeard
<1> QED BY <1>2, <1>3

LEMMA FramePlays ==
  ASSUME NEW type \in PayloadTypes, NEW frame \in Seq(Samples), NEW state \in AdpcmStates,
         Len(frame) <= FrameSamples
  PROVE  Plays(type, FrameHeard(type, frame, state),
               DecodeSlot(type, EncodePayload(type, frame, state)))
<1> DEFINE n == Len(frame)
           p == EncodePayload(type, frame, state)
           given == FrameHeard(type, frame, state)
           made == DecodedSamples(type, p)
           played == DecodeSlot(type, p)
           extra == IF type = PayloadTypeAdpcm THEN n % 2 ELSE 0
<1>1. FrameSamples \in Nat  BY SizesAreNatural
<1>2. n \in Nat /\ n <= FrameSamples  OBVIOUS
<1>3. Len(given) = n  BY HeardFrame
<1>4. \A i \in 1 .. FrameSamples : played[i] = IF i <= Len(made) THEN made[i] ELSE 0
  BY DEF DecodeSlot
<1> SUFFICES /\ Len(made) \in n .. (n + extra)
             /\ \A i \in 1 .. n : IF type = PayloadTypePcmu THEN CloseUlaw(given[i], made[i])
                                  ELSE made[i] = given[i]
  <2>1. extra \in Nat  BY <1>2
  <2> HIDE DEF n, p, given, made, played, extra
  <2>2. \A i \in 1 .. n : i \in 1 .. FrameSamples /\ i <= Len(made)  BY <1>1, <1>2, <2>1
  <2>3. \A i \in 1 .. n : played[i] = made[i]  BY <1>4, <2>2
  <2>4. \A i \in 1 .. FrameSamples : i > n + extra => ~(i <= Len(made))
    BY <1>1, <1>2, <2>1
  <2>5. \A i \in 1 .. FrameSamples : i > n + extra => played[i] = 0  BY <1>4, <2>4
  <2>6. n + extra = Len(given) + (IF type = PayloadTypeAdpcm THEN Len(given) % 2 ELSE 0)
    BY <1>3 DEF extra
  <2>7. Plays(type, given, played)
    <3>1. \A i \in 1 .. Len(given) : IF type = PayloadTypePcmu THEN CloseUlaw(given[i], played[i])
                                     ELSE played[i] = given[i]
      BY <1>3, <2>3
    <3> QED BY <2>5, <2>6, <3>1 DEF Plays
  <2> QED BY <2>7 DEF given, played, p
<1>5. CASE type = PayloadTypePcm
  <2> DEFINE F == 2 * FrameSamples
  <2>1. p = EncodePcm(frame) /\ made = DecodePcm(Prefix(p, F))  BY <1>5, Branches
  <2>2. /\ p \in Seq(Bytes) /\ Len(p) = 2 * n
        /\ \A i \in 1 .. n : p[2 * i - 1] = ToWord(frame[i]) % 256
                             /\ p[2 * i] = ToWord(frame[i]) \div 256
    BY <2>1, PcmBytes DEF Bytes
  <2>3. given = frame  BY <1>5, Types DEF FrameHeard
  <2>4. \A i \in 1 .. n : frame[i] \in Samples  OBVIOUS
  <2>5. type # PayloadTypePcmu /\ type # PayloadTypeAdpcm  BY <1>5, Types
  <2>6. extra = 0  BY <2>5
  <2> HIDE DEF p, given, made, n, extra
  <2>7. F \in Nat /\ Len(p) <= F  BY <1>1, <1>2, <2>2
  <2> HIDE DEF F
  <2>8. made = DecodePcm(p)  BY <2>1, <2>2, <2>7, WholePrefix
  <2>9. Len(p) \div 2 = n  BY <1>2, <2>2
  <2>10. Len(made) = n /\ \A i \in 1 .. n : made[i] = FromWord(p[2 * i - 1] + 256 * p[2 * i])
    BY <2>2, <2>8, <2>9, PcmSamples, ZenonT(60)
  <2>11. ASSUME NEW i \in 1 .. n  PROVE made[i] = given[i]
    <3> DEFINE x == frame[i]
    <3>1. x \in Samples  BY <2>4
    <3>2. made[i] = FromWord((ToWord(x) % 256) + 256 * (ToWord(x) \div 256))
      BY <2>2, <2>10
    <3>3. given[i] = x  BY <2>3
    <3> HIDE DEF x
    <3>4. FromWord((ToWord(x) % 256) + 256 * (ToWord(x) \div 256)) = x
      BY <3>1, SampleWord
    <3> QED BY <3>2, <3>3, <3>4
  <2> QED BY <1>2, <2>5, <2>6, <2>10, <2>11
<1>6. CASE type = PayloadTypePcmu
  <2>1. p = UlawEncodeFrame(frame) /\ made = UlawDecodeFrame(Prefix(p, FrameSamples))
    BY <1>6, Branches
  <2>2. p \in Seq(Bytes) /\ Len(p) = n /\ \A i \in 1 .. n : p[i] = LinearToUlaw(frame[i])
    BY <2>1, UlawBytes
  <2>3. given = frame  BY <1>6, Types DEF FrameHeard
  <2>4. \A i \in 1 .. n : frame[i] \in Samples  OBVIOUS
  <2>5. type # PayloadTypeAdpcm  BY <1>6, Types
  <2>6. extra = 0  BY <2>5
  <2> HIDE DEF p, given, made, n, extra
  <2>7. made = UlawDecodeFrame(p)  BY <1>1, <1>2, <2>1, <2>2, WholePrefix
  <2>8. Len(made) = n /\ \A i \in 1 .. n : made[i] = UlawToLinear(p[i])
    BY <2>2, <2>7, UlawSamples
  <2>9. ASSUME NEW i \in 1 .. n  PROVE CloseUlaw(given[i], made[i])
    <3> DEFINE x == frame[i]
    <3>1. x \in Samples  BY <2>4
    <3>2. made[i] = UlawToLinear(LinearToUlaw(x))  BY <2>2, <2>8
    <3>3. given[i] = x  BY <2>3
    <3> HIDE DEF x
    <3>4. CloseUlaw(x, UlawToLinear(LinearToUlaw(x)))  BY <3>1, UlawRoundTrip
    <3> QED BY <3>2, <3>3, <3>4
  <2> QED BY <1>2, <1>6, <2>6, <2>8, <2>9
<1>7. CASE type = PayloadTypeAdpcm
  <2> DEFINE codes == EncodeAdpcm(frame, state)
             m == Smaller(2 * Len(codes), FrameSamples)
             e == EncoderStates(frame, state)
             d == DecoderStates(codes, m, state)
  <2>1. p = PackState(state) \o codes  BY <1>7, Branches
  <2>2. /\ codes \in Seq(Bytes) /\ Len(codes) = (n + 1) \div 2
        /\ \A i \in 1 .. n : Nibble(codes, i) \in Codes
        /\ n % 2 = 1 => Nibble(codes, n + 1) = 0
    BY AdpcmBytes DEF Bytes
  <2>3. extra = n % 2 /\ type # PayloadTypePcmu  BY <1>7, Types
  <2>4. given = [i \in 1 .. n |-> e[i].predictor]  BY <1>7 DEF FrameHeard
  <2>5. made = IF Len(p) >= AdpcmStateHeaderBytes
                 THEN LET rest == SubSeq(p, AdpcmStateHeaderBytes + 1, Len(p))
                      IN  DecodeAdpcm(rest, Smaller(2 * Len(rest), FrameSamples), UnpackState(p))
                 ELSE <<>>
    BY <1>7, AdpcmBranch
  <2> HIDE DEF p, given, made, codes, e, extra
  <2>6. /\ Len(p) = 4 + Len(codes) /\ UnpackState(p) = state
        /\ SubSeq(p, AdpcmStateHeaderBytes + 1, Len(p)) = codes
    BY <2>1, <2>2, StateHeader
  <2>7. Len(codes) \in Nat /\ AdpcmStateHeaderBytes = 4  BY <2>2, SizesAreNatural
  <2>8. Len(p) >= AdpcmStateHeaderBytes  BY <2>6, <2>7
  <2>9. made = DecodeAdpcm(codes, m, state)  BY <2>5, <2>6, <2>8
  <2> HIDE DEF n
  <2>10. n <= 2 * Len(codes) /\ 2 * Len(codes) = n + (n % 2)  BY <1>2, <2>2
  <2>11. m \in Nat /\ m >= n /\ m <= n + (n % 2)  BY <1>1, <1>2, <2>7, <2>10 DEF Smaller
  <2> HIDE DEF m
  <2>12. ASSUME NEW i \in 1 .. m  PROVE Nibble(codes, i) \in Codes
    <3>1. CASE i <= n
      <4>1. i \in 1 .. n  BY <1>2, <2>11, <3>1
      <4> QED BY <2>2, <4>1
    <3>2. CASE ~(i <= n)
      <4>1. n % 2 \in {0, 1}  BY <1>2
      <4>2. n % 2 = 1 /\ i = n + 1  BY <1>2, <2>11, <3>2, <4>1
      <4>3. 0 \in Codes  BY DEF Codes
      <4> QED BY <2>2, <4>2, <4>3
    <3> QED BY <3>1, <3>2
  <2>13. Len(made) = m /\ \A i \in 1 .. m : made[i] = d[i].predictor
    BY <2>9, <2>11, <2>12, AdpcmSamples
  <2>14. \A i \in 0 .. n : d[i] = e[i]
    BY <2>11, <2>12, AdpcmFrame DEF codes, e, n
  <2>15. \A i \in 1 .. n : i \in 1 .. m /\ i \in 0 .. n  BY <1>2, <2>11
  <2>16. \A i \in 1 .. n : made[i] = given[i]  BY <2>4, <2>13, <2>14, <2>15
  <2>17. Len(made) \in n .. (n + extra)  BY <1>2, <2>3, <2>11, <2>13
  <2> QED BY <2>3, <2>16, <2>17
<1> QED BY <1>5, <1>6, <1>7, Types
-----------------------------------------------------------------------------
(* The stream. *)

StreamTypes ==
  /\ recording \in Recordings /\ sent \in 0 .. Len(recording) /\ adpcm_state \in AdpcmStates
  /\ first_packet \in BOOLEAN /\ header \in Headers /\ outcome \in {"sending", "sent", "failed"}
  /\ heard \in Seq(Samples) /\ Len(heard) = sent

\* The numbers that go with a position of the recording.
InStepAt(h, first) ==
  /\ first % FrameSamples = 0
  /\ h.sequence_number = (StartSeq + first \div FrameSamples) % SeqMod
  /\ h.timestamp = (StartTimestamp + first) % TimestampMod

\* As long as there is a frame to come, the next packet's numbers are its.
Clock == sent = Len(recording) \/ InStepAt(header, sent)

FrameLength(first) == Smaller(FrameSamples, Len(recording) - first)

\* What PlayedAsSent says of a frame.
PlaysFrom(type, first, n, played) ==
  /\ \A i \in 1 .. n : IF type = PayloadTypePcmu THEN CloseUlaw(heard[first + i], played[i])
                       ELSE played[i] = heard[first + i]
  /\ \A i \in 1 .. FrameSamples :
       i > n + (IF type = PayloadTypeAdpcm THEN n % 2 ELSE 0) => played[i] = 0

\* A datagram of the sender's: made from its header and its payload, within the
\* buffers, with the numbers of its position, and playing as its frame.
Carried(p) ==
  /\ p.header \in Headers /\ p.header.payload_type = header.payload_type
  /\ p.first \in Nat /\ FrameLength(p.first) > 0
  /\ p.first + FrameLength(p.first) <= sent
  /\ InStepAt(p.header, p.first)
  /\ p.payload \in Seq(Bytes) /\ Len(p.payload) <= SlotBytes
  /\ p.bytes = Serialize(p.header, p.payload, MaxDatagramBytes)
  /\ PlaysFrom(header.payload_type, p.first, FrameLength(p.first),
               DecodeSlot(header.payload_type, p.payload))

OnTheWire == \A p \in wire : Carried(p)

\* The packet last played is a stray, or one of the sender's.
PlayedLast ==
  \/ decoded = Nothing
  \/ /\ decoded.samples \in Seq(Samples) /\ Len(decoded.samples) = FrameSamples
     /\ \/ decoded.first = -1
        \/ \E p \in wire : decoded.first = p.first
                           /\ decoded.samples = DecodeSlot(p.header.payload_type, p.payload)

StreamInv == StreamTypes /\ Clock /\ OnTheWire /\ PlayedLast

LEMMA RecordingLength == ASSUME StreamTypes PROVE recording \in Seq(Samples) /\ Len(recording) \in Nat
<1>1. recording \in Seq(Samples)  BY StreamAssumption DEF StreamTypes
<1> QED BY <1>1

LEMMA StreamStarts == StreamInit => StreamInv
<1> SUFFICES ASSUME StreamInit PROVE StreamInv
  OBVIOUS
<1>1. /\ recording \in Recordings /\ sent = 0 /\ first_packet = TRUE
      /\ adpcm_state = FreshState /\ outcome = "sending"
      /\ header \in [marker : {FALSE}, payload_type : PayloadTypes, sequence_number : {StartSeq},
                     timestamp : {StartTimestamp}, ssrc : {Ssrc}]
      /\ wire = {} /\ heard = <<>> /\ decoded = Nothing
  BY DEF StreamInit
<1>2. recording \in Seq(Samples)  BY <1>1, StreamAssumption
<1>3. /\ StartSeq \in 0 .. (SeqMod - 1) /\ StartTimestamp \in 0 .. (TimestampMod - 1)
      /\ Ssrc \in 0 .. (TimestampMod - 1)
  BY StreamAssumption
<1>4. FreshState \in AdpcmStates
  <2>1. 0 \in Samples  BY IsSample
  <2>2. 0 \in 0 .. MaxIndex  BY DEF MaxIndex
  <2> QED BY <2>1, <2>2 DEF FreshState, AdpcmStates
<1>5. header \in Headers
  <2>1. FALSE \in BOOLEAN  OBVIOUS
  <2> QED BY <1>1, <1>3, <2>1 DEF Headers
<1>6. StreamTypes
  <2>1. sent \in 0 .. Len(recording)  BY <1>1, <1>2
  <2>2. heard \in Seq(Samples) /\ Len(heard) = sent  BY <1>1
  <2>3. first_packet \in BOOLEAN  BY <1>1
  <2> QED BY <1>1, <1>4, <1>5, <2>1, <2>2, <2>3 DEF StreamTypes
<1>7. Clock
  <2>1. header.sequence_number = StartSeq /\ header.timestamp = StartTimestamp  BY <1>1
  <2>2. 0 % FrameSamples = 0 /\ 0 \div FrameSamples = 0
    <3>1. FrameSamples \in Nat \ {0}  BY SizesAreNatural
    <3>2. \A m \in Nat \ {0} : 0 = m * 0 + 0 /\ 0 \in 0 .. (m - 1)  OBVIOUS
    <3>3. \A m \in Nat \ {0} : 0 % m = 0 /\ 0 \div m = 0  BY <3>2, OneQuotient
    <3> QED BY <3>1, <3>3
  <2>3. \A m \in Nat \ {0} : \A x \in 0 .. (m - 1) : x + 0 = x /\ x % m = x  OBVIOUS
  <2>4. (StartSeq + 0) % SeqMod = StartSeq  BY <1>3, <2>3, Moduli
  <2>5. (StartTimestamp + 0) % TimestampMod = StartTimestamp  BY <1>3, <2>3, Moduli
  <2> QED BY <1>1, <2>1, <2>2, <2>4, <2>5 DEF Clock, InStepAt
<1>8. OnTheWire  BY <1>1 DEF OnTheWire
<1>9. PlayedLast  BY <1>1 DEF PlayedLast
<1> QED BY <1>6, <1>7, <1>8, <1>9 DEF StreamInv

\* A payload of the sender's in the receiver's hands.
LEMMA Delivered ==
  ASSUME NEW h \in Headers, NEW payload \in Seq(Bytes), Len(payload) <= SlotBytes
  PROVE  LET b == Serialize(h, payload, MaxDatagramBytes) IN
         /\ b \in Seq(Bytes) /\ Len(b) <= MaxDatagramBytes
         /\ WellFormed(b) /\ Parse(b) = [header |-> h, payload |-> payload]
         /\ Received(b) = b /\ Stored(payload) = payload
<1> DEFINE b == Serialize(h, payload, MaxDatagramBytes)
<1>1. /\ SlotBytes \in Nat /\ MaxDatagramBytes \in Nat /\ HeaderBytes = 12
      /\ HeaderBytes + SlotBytes <= MaxDatagramBytes
  BY SizesAreNatural
<1>2. Len(payload) \in Nat  OBVIOUS
<1>3. HeaderBytes + Len(payload) <= MaxDatagramBytes  BY <1>1, <1>2
<1>4. WellFormed(b) /\ Parse(b) = [header |-> h, payload |-> payload]
  BY <1>1, <1>3, RoundTrip
<1>5. b \in Seq(Bytes) /\ Len(b) = HeaderBytes + Len(payload)
  BY <1>1, <1>3, Serialized
<1> HIDE DEF b
<1>6. Len(b) <= MaxDatagramBytes  BY <1>3, <1>5
<1>7. Received(b) = b  BY <1>1, <1>5, <1>6, WholePrefix DEF Received
<1>8. Stored(payload) = payload  BY <1>1, WholePrefix DEF Stored
<1> QED BY <1>4, <1>5, <1>6, <1>7, <1>8 DEF b

\* Anything parse accepts has a known payload type.
LEMMA AnyDatagram ==
  ASSUME NEW bytes \in Seq(Bytes), WellFormed(bytes)
  PROVE  Parse(bytes).header.payload_type \in PayloadTypes /\ Parse(bytes).payload \in Seq(Bytes)
<1>1. Parse(bytes).header.payload_type = bytes[2] % 128  BY DEF Parse
<1>2. Parse(bytes).payload = SubSeq(bytes, HeaderBytes + 1, Len(bytes))  BY DEF Parse
<1> DEFINE k == HeaderBytes + 1
           l == Len(bytes)
<1>3. k \in Int /\ l \in Int /\ \A i \in k .. l : bytes[i] \in Bytes  BY DEF HeaderBytes
<1> HIDE DEF k, l
<1>4. SubSeq(bytes, k, l) \in Seq(Bytes)  BY <1>3, SubSeqProperties
<1> QED BY <1>1, <1>2, <1>4 DEF WellFormed, k, l

LEMMA ThisFrame ==
  ASSUME StreamTypes, sent < Len(recording)
  PROVE  /\ Frame \in Seq(Samples) /\ Len(Frame) = FrameLength(sent)
         /\ Len(Frame) \in 1 .. FrameSamples /\ sent + Len(Frame) <= Len(recording)
         /\ Len(Frame) = FrameSamples \/ sent + Len(Frame) = Len(recording)
<1> DEFINE k == sent + 1
           l == Smaller(sent + FrameSamples, Len(recording))
           L == Len(recording)
<1>1. recording \in Seq(Samples) /\ L \in Nat  BY RecordingLength
<1>2. sent \in Nat /\ sent < L  BY <1>1 DEF StreamTypes
<1>3. FrameSamples \in Nat \ {0}  BY SizesAreNatural
<1>4. \A i \in 1 .. L : recording[i] \in Samples  BY <1>1
<1>5. Frame = SubSeq(recording, k, l)  BY DEF Frame
<1> HIDE DEF L
<1>6. l = IF sent + FrameSamples < L THEN sent + FrameSamples ELSE L  BY DEF Smaller, L
<1>7. FrameLength(sent) = IF FrameSamples < L - sent THEN FrameSamples ELSE L - sent
  BY DEF FrameLength, Smaller, L
<1>8. k = sent + 1  OBVIOUS
<1> HIDE DEF k, l
<1>9. k \in Int /\ l \in Int /\ k <= l /\ l <= L /\ k >= 1  BY <1>2, <1>3, <1>6, <1>8, <1>1
<1>10. \A i \in k .. l : recording[i] \in Samples  BY <1>1, <1>4, <1>9
<1>11. Frame \in Seq(Samples) /\ Len(Frame) = l - k + 1
  <2>1. /\ SubSeq(recording, k, l) \in Seq(Samples)
        /\ Len(SubSeq(recording, k, l)) = IF k <= l THEN l - k + 1 ELSE 0
    BY <1>9, <1>10, SubSeqProperties
  <2> QED BY <1>5, <1>9, <2>1
<1>12. Len(Frame) = l - sent  BY <1>2, <1>8, <1>9, <1>11
<1>13. /\ l - sent = FrameLength(sent) /\ l - sent \in 1 .. FrameSamples
       /\ sent + (l - sent) <= L
       /\ (l - sent = FrameSamples \/ sent + (l - sent) = L)
  BY <1>1, <1>2, <1>3, <1>6, <1>7
<1> QED BY <1>11, <1>12, <1>13 DEF L

Stamped == [header EXCEPT !.marker = first_packet]
Made == EncodePayload(header.payload_type, Frame, adpcm_state)
NewPacket == [header |-> Stamped, payload |-> Made,
              bytes |-> Serialize(Stamped, Made, MaxDatagramBytes), first |-> sent]

\* What a frame does to the variables.
LEMMA SendEffect ==
  ASSUME StreamTypes, SendFrame
  PROVE  /\ sent < Len(recording) /\ outcome = "sending"
         /\ wire' = wire \cup {NewPacket} /\ first_packet' = FALSE
         /\ sent' = sent + Len(Frame)
         /\ heard' = heard \o FrameHeard(header.payload_type, Frame, adpcm_state)
         /\ adpcm_state' \in AdpcmStates
         /\ Stamped \in Headers
         /\ Stamped.payload_type = header.payload_type
         /\ Stamped.sequence_number = header.sequence_number
         /\ Stamped.timestamp = header.timestamp
         /\ header' \in Headers
         /\ header'.payload_type = header.payload_type
         /\ header'.sequence_number = NextSeq(header.sequence_number)
         /\ header'.timestamp = (header.timestamp + Len(Frame)) % TimestampMod
         /\ UNCHANGED <<recording, outcome, decoded>>
<1> DEFINE n == Len(Frame)
           e == EncoderStates(Frame, adpcm_state)
           ts == (header.timestamp + n) % TimestampMod
           seq == NextSeq(header.sequence_number)
<1>1. /\ outcome = "sending" /\ sent < Len(recording)
      /\ wire' = wire \cup {NewPacket} /\ first_packet' = FALSE
      /\ sent' = sent + n
      /\ heard' = heard \o Heard(e)
      /\ adpcm_state' = IF header.payload_type = PayloadTypeAdpcm THEN e[n] ELSE adpcm_state
      /\ UNCHANGED <<recording, outcome, decoded>>
  BY DEF SendFrame, NewPacket, Stamped, Made
<1>2. header' = [Stamped EXCEPT !.sequence_number = NextSeq(@),
                                !.timestamp = (@ + TimestampStep(n)) % TimestampMod]
  BY DEF SendFrame, Stamped
<1>3. Heard(e) = FrameHeard(header.payload_type, Frame, adpcm_state)
  BY DEF Heard, FrameHeard
<1>4. adpcm_state \in AdpcmStates /\ header \in Headers /\ first_packet \in BOOLEAN
  BY DEF StreamTypes
<1>5. Frame \in Seq(Samples) /\ n \in Nat  BY <1>1, ThisFrame
<1>6. e[n] \in AdpcmStates
  <2>1. e \in [0 .. n -> AdpcmStates]  BY <1>4, <1>5, EncoderRuns
  <2>2. n \in 0 .. n  BY <1>5
  <2> QED BY <2>1, <2>2
<1>7. adpcm_state' \in AdpcmStates  BY <1>1, <1>4, <1>6
<1>8. header = [marker |-> header.marker, payload_type |-> header.payload_type,
                sequence_number |-> header.sequence_number, timestamp |-> header.timestamp,
                ssrc |-> header.ssrc]
      /\ header.payload_type \in PayloadTypes /\ header.sequence_number \in 0 .. (SeqMod - 1)
      /\ header.timestamp \in 0 .. (TimestampMod - 1) /\ header.ssrc \in 0 .. (TimestampMod - 1)
  BY <1>4 DEF Headers
<1>9. Stamped = [marker |-> first_packet, payload_type |-> header.payload_type,
                 sequence_number |-> header.sequence_number, timestamp |-> header.timestamp,
                 ssrc |-> header.ssrc]
  BY <1>8 DEF Stamped
<1> HIDE DEF n, e
<1>10. header' = [marker |-> first_packet, payload_type |-> header.payload_type,
                  sequence_number |-> seq, timestamp |-> ts, ssrc |-> header.ssrc]
  <2>1. TimestampStep(n) = n  BY DEF TimestampStep
  <2> DEFINE mid == [Stamped EXCEPT !.sequence_number = NextSeq(@)]
  <2>2. mid = [marker |-> first_packet, payload_type |-> header.payload_type,
               sequence_number |-> seq, timestamp |-> header.timestamp, ssrc |-> header.ssrc]
    BY <1>9
  <2>3. header' = [mid EXCEPT !.timestamp = (@ + n) % TimestampMod]  BY <1>2, <2>1
  <2> HIDE DEF mid
  <2> QED BY <2>2, <2>3
<1>11. seq \in 0 .. (SeqMod - 1)
  <2>1. header.sequence_number + 1 \in Nat  BY <1>8, Moduli
  <2>2. \A a \in Nat, m \in Nat \ {0} : a % m \in 0 .. (m - 1)  OBVIOUS
  <2> QED BY <2>1, <2>2, Moduli DEF NextSeq
<1>12. ts \in 0 .. (TimestampMod - 1)
  <2>1. header.timestamp + n \in Nat
    <3>1. n \in Nat  BY <1>5
    <3>2. header.timestamp \in Nat  BY <1>8, Moduli
    <3> QED BY <3>1, <3>2
  <2>2. \A a \in Nat, m \in Nat \ {0} : a % m \in 0 .. (m - 1)  OBVIOUS
  <2> QED BY <2>1, <2>2, Moduli
<1> HIDE DEF seq, ts
<1>13. Stamped \in Headers  BY <1>4, <1>8, <1>9 DEF Headers
<1>14. header' \in Headers  BY <1>4, <1>8, <1>10, <1>11, <1>12 DEF Headers
<1>15. /\ Stamped.payload_type = header.payload_type
       /\ Stamped.sequence_number = header.sequence_number
       /\ Stamped.timestamp = header.timestamp
  BY <1>9
<1>16. /\ header'.payload_type = header.payload_type
       /\ header'.sequence_number = seq /\ header'.timestamp = ts
  BY <1>10
<1> QED BY <1>1, <1>3, <1>7, <1>13, <1>14, <1>15, <1>16 DEF seq, ts, n

LEMMA ClockTicks ==
  ASSUME StreamTypes, Clock, SendFrame
  PROVE  InStepAt(Stamped, sent) /\ Clock'
<1> DEFINE n == Len(Frame)
<1>1. /\ sent < Len(recording) /\ sent' = sent + n /\ UNCHANGED recording
      /\ Stamped.sequence_number = header.sequence_number
      /\ Stamped.timestamp = header.timestamp
      /\ header'.sequence_number = NextSeq(header.sequence_number)
      /\ header'.timestamp = (header.timestamp + n) % TimestampMod
  BY SendEffect
<1>2. Len(recording) \in Nat  BY RecordingLength
<1>3. sent # Len(recording)  BY <1>1, <1>2
<1>4. InStepAt(header, sent)  BY <1>3 DEF Clock
<1>5. InStepAt(Stamped, sent)  BY <1>1, <1>4 DEF InStepAt
<1>6. n = FrameSamples \/ sent + n = Len(recording)  BY <1>1, ThisFrame
<1> HIDE DEF n
<1>7. CASE sent + n = Len(recording)
  <2>1. (sent = Len(recording))'  BY <1>1, <1>7
  <2> QED BY <1>5, <2>1 DEF Clock
<1>8. CASE n = FrameSamples
  <2> DEFINE q == sent \div FrameSamples
             s == StartSeq + q
             t == StartTimestamp + sent
  <2>1. sent \in Nat /\ FrameSamples \in Nat \ {0}  BY SizesAreNatural DEF StreamTypes
  <2>2. /\ sent % FrameSamples = 0
        /\ header.sequence_number = s % SeqMod /\ header.timestamp = t % TimestampMod
    BY <1>4 DEF InStepAt
  <2>3. (sent + FrameSamples) % FrameSamples = 0 /\ (sent + FrameSamples) \div FrameSamples = q + 1
    BY <2>1, <2>2, NextMultiple
  <2>4. q \in Int  BY <2>1
  <2>5. StartSeq \in Nat /\ StartTimestamp \in Nat  BY StreamAssumption, Moduli
  <2> HIDE DEF q
  <2>6. s \in Int /\ t \in Int /\ s + 1 = StartSeq + (q + 1)
        /\ t + FrameSamples = StartTimestamp + (sent + FrameSamples)
    BY <2>1, <2>4, <2>5
  <2> HIDE DEF s, t
  <2>7. ((s % SeqMod) + 1) % SeqMod = (s + 1) % SeqMod  BY <2>6, Moduli, WrapLater
  <2>8. ((t % TimestampMod) + FrameSamples) % TimestampMod = (t + FrameSamples) % TimestampMod
    BY <2>1, <2>6, Moduli, WrapLater
  <2>9. sent' = sent + FrameSamples  BY <1>1, <1>8
  <2>10. header'.sequence_number = (StartSeq + (sent' \div FrameSamples)) % SeqMod
    <3>1. header'.sequence_number = ((s % SeqMod) + 1) % SeqMod
      BY <1>1, <2>2 DEF NextSeq
    <3> QED BY <2>3, <2>6, <2>7, <2>9, <3>1
  <2>11. header'.timestamp = (StartTimestamp + sent') % TimestampMod
    <3>1. header'.timestamp = ((t % TimestampMod) + FrameSamples) % TimestampMod
      BY <1>1, <1>8, <2>2
    <3> QED BY <2>6, <2>8, <2>9, <3>1
  <2>12. sent' % FrameSamples = 0  BY <2>3, <2>9
  <2>13. InStepAt(header, sent)'  BY <2>10, <2>11, <2>12 DEF InStepAt
  <2> QED BY <1>5, <2>13 DEF Clock
<1> QED BY <1>6, <1>7, <1>8

\* Nothing a later frame adds changes what is to be heard of an earlier one.
LEMMA CarriedOn ==
  ASSUME NEW p, Carried(p), StreamTypes, sent' \in Nat, sent <= sent',
         header'.payload_type = header.payload_type, recording' = recording,
         \A i \in 1 .. sent : heard'[i] = heard[i]
  PROVE  Carried(p)'
<1> DEFINE n == FrameLength(p.first)
           type == header.payload_type
           played == DecodeSlot(type, p.payload)
<1>1. /\ p.header \in Headers /\ p.header.payload_type = type
      /\ p.first \in Nat /\ n > 0 /\ p.first + n <= sent
      /\ InStepAt(p.header, p.first)
      /\ p.payload \in Seq(Bytes) /\ Len(p.payload) <= SlotBytes
      /\ p.bytes = Serialize(p.header, p.payload, MaxDatagramBytes)
      /\ PlaysFrom(type, p.first, n, played)
  BY DEF Carried
<1>2. FrameLength(p.first)' = n  BY DEF FrameLength
<1>3. n \in Int
  <2>1. FrameSamples \in Nat /\ Len(recording) \in Nat  BY SizesAreNatural, RecordingLength
  <2> QED BY <1>1, <2>1 DEF FrameLength, Smaller
<1>4. InStepAt(p.header, p.first)'  BY <1>1 DEF InStepAt
<1> HIDE DEF n, played
<1>5. sent \in Nat  BY RecordingLength DEF StreamTypes
<1>6. p.first + n <= sent'  BY <1>1, <1>3, <1>5
<1>7. \A i \in 1 .. n : p.first + i \in 1 .. sent  BY <1>1, <1>3, <1>5
<1>8. \A i \in 1 .. n : heard'[p.first + i] = heard[p.first + i]  BY <1>7
<1>9. PlaysFrom(type, p.first, n, played)'
  <2>1. type' = type  OBVIOUS
  <2>2. n' = n  BY <1>2 DEF n
  <2>3. played' = played  BY <2>1 DEF played, DecodeSlot
  <2>4. \A i \in 1 .. n : IF type = PayloadTypePcmu THEN CloseUlaw(heard'[p.first + i], played[i])
                          ELSE played[i] = heard'[p.first + i]
    BY <1>1, <1>8 DEF PlaysFrom
  <2>5. \A i \in 1 .. FrameSamples :
          i > n + (IF type = PayloadTypeAdpcm THEN n % 2 ELSE 0) => played[i] = 0
    BY <1>1 DEF PlaysFrom
  <2> HIDE DEF type
  <2> QED BY <2>1, <2>2, <2>3, <2>4, <2>5 DEF PlaysFrom
<1> QED BY <1>1, <1>2, <1>4, <1>6, <1>9 DEF Carried, played, n

LEMMA HeardGrows ==
  ASSUME StreamTypes, SendFrame
  PROVE  LET given == FrameHeard(header.payload_type, Frame, adpcm_state) IN
         /\ heard' \in Seq(Samples) /\ Len(heard') = sent'
         /\ \A i \in 1 .. sent : heard'[i] = heard[i]
         /\ \A i \in 1 .. Len(Frame) : heard'[sent + i] = given[i]
<1> DEFINE given == FrameHeard(header.payload_type, Frame, adpcm_state)
           n == Len(Frame)
<1>1. sent < Len(recording) /\ sent' = sent + n /\ heard' = heard \o given
  BY SendEffect
<1>2. Frame \in Seq(Samples) /\ n \in Nat  BY <1>1, ThisFrame
<1>3. header.payload_type \in PayloadTypes /\ adpcm_state \in AdpcmStates
  BY DEF StreamTypes, Headers
<1>4. given \in Seq(Samples) /\ Len(given) = n
  <2> DEFINE type == header.payload_type
  <2>1. type \in PayloadTypes  BY <1>3
  <2> HIDE DEF type
  <2>2. /\ FrameHeard(type, Frame, adpcm_state) \in Seq(Samples)
        /\ Len(FrameHeard(type, Frame, adpcm_state)) = n
    BY <1>2, <1>3, <2>1, HeardFrame
  <2> QED BY <2>2 DEF type
<1> HIDE DEF given, n
<1>5. heard \in Seq(Samples) /\ Len(heard) = sent /\ sent \in Nat
  BY RecordingLength DEF StreamTypes
<1>6. /\ heard \o given \in Seq(Samples) /\ Len(heard \o given) = Len(heard) + Len(given)
      /\ \A i \in 1 .. Len(heard) + Len(given) :
           (heard \o given)[i] = IF i <= Len(heard) THEN heard[i] ELSE given[i - Len(heard)]
  BY <1>4, <1>5, ConcatProperties
<1>7. /\ heard' \in Seq(Samples) /\ Len(heard') = sent + n
      /\ \A i \in 1 .. sent + n : heard'[i] = IF i <= sent THEN heard[i] ELSE given[i - sent]
  BY <1>1, <1>4, <1>5, <1>6
<1>8. \A i \in 1 .. sent : heard'[i] = heard[i]
  <2>1. \A i \in 1 .. sent : i \in 1 .. sent + n /\ i <= sent  BY <1>2, <1>5
  <2> QED BY <1>7, <2>1
<1>9. \A i \in 1 .. n : heard'[sent + i] = given[i]
  <2>1. \A i \in 1 .. n : sent + i \in 1 .. sent + n /\ ~(sent + i <= sent) /\ (sent + i) - sent = i
    BY <1>2, <1>5
  <2> QED BY <1>7, <2>1
<1> QED BY <1>1, <1>7, <1>8, <1>9 DEF given, n

LEMMA NewIsCarried ==
  ASSUME StreamTypes, Clock, SendFrame, NEW p, p = NewPacket
  PROVE  Carried(p)'
<1> DEFINE type == header.payload_type
           n == Len(Frame)
           given == FrameHeard(type, Frame, adpcm_state)
           played == DecodeSlot(type, p.payload)
<1>1. /\ sent < Len(recording) /\ sent' = sent + n /\ UNCHANGED recording
      /\ Stamped \in Headers /\ Stamped.payload_type = type /\ header'.payload_type = type
  BY SendEffect
<1>2. p.header = Stamped /\ p.payload = Made /\ p.first = sent
      /\ p.bytes = Serialize(p.header, p.payload, MaxDatagramBytes)
  BY DEF NewPacket
<1>3. sent \in Nat  BY RecordingLength DEF StreamTypes
<1>4. /\ Frame \in Seq(Samples) /\ n = FrameLength(sent)
      /\ n \in 1 .. FrameSamples /\ n \in Nat
  BY <1>1, ThisFrame
<1>5. type \in PayloadTypes /\ adpcm_state \in AdpcmStates  BY DEF StreamTypes, Headers
<1>6. p.payload = EncodePayload(type, Frame, adpcm_state)  BY <1>2 DEF Made
<1>7. \A i \in 1 .. n : heard'[sent + i] = given[i]  BY HeardGrows
<1> HIDE DEF type
<1>8. FrameSamples \in Nat  BY SizesAreNatural
<1>9. Len(Frame) <= FrameSamples  BY <1>4, <1>8
<1>10. p.payload \in Seq(Bytes) /\ Len(p.payload) <= SlotBytes
  BY <1>4, <1>5, <1>6, <1>9, FrameFits
<1>11. Plays(type, given, played)
  <2>1. Plays(type, FrameHeard(type, Frame, adpcm_state),
              DecodeSlot(type, EncodePayload(type, Frame, adpcm_state)))
    BY <1>4, <1>5, <1>9, FramePlays
  <2> QED BY <1>6, <2>1, Zenon
<1>12. Len(given) = n  BY <1>4, <1>5, HeardFrame
<1> HIDE DEF given, n, played
<1>13. InStepAt(Stamped, sent)  BY ClockTicks
<1>14. InStepAt(p.header, p.first)'
  <2>1. InStepAt(p.header, p.first)  BY <1>2, <1>13
  <2> QED BY <2>1 DEF InStepAt
<1>15. FrameLength(p.first)' = n
  <2>1. FrameLength(p.first)' = FrameLength(p.first)  BY <1>1 DEF FrameLength
  <2> QED BY <1>2, <1>4, <2>1
<1>16. PlaysFrom(header.payload_type, p.first, FrameLength(p.first),
                 DecodeSlot(header.payload_type, p.payload))'
  <2>1. \A i \in 1 .. n : IF type = PayloadTypePcmu THEN CloseUlaw(heard'[p.first + i], played[i])
                          ELSE played[i] = heard'[p.first + i]
    <3>1. \A i \in 1 .. n : IF type = PayloadTypePcmu THEN CloseUlaw(given[i], played[i])
                            ELSE played[i] = given[i]
      BY <1>11, <1>12 DEF Plays
    <3> QED BY <1>2, <1>7, <3>1
  <2>2. \A i \in 1 .. FrameSamples :
          i > n + (IF type = PayloadTypeAdpcm THEN n % 2 ELSE 0) => played[i] = 0
    BY <1>11, <1>12 DEF Plays
  <2>3. DecodeSlot(header.payload_type, p.payload)' = played
    BY <1>1 DEF DecodeSlot, played
  <2> QED BY <1>1, <1>15, <2>1, <2>2, <2>3 DEF PlaysFrom
<1>17. p.first \in Nat /\ n > 0 /\ p.first + n <= sent'  BY <1>1, <1>2, <1>3, <1>4, <1>8
<1> QED BY <1>1, <1>2, <1>10, <1>14, <1>15, <1>16, <1>17 DEF Carried

LEMMA SendStep == StreamInv /\ SendFrame => StreamInv'
<1> SUFFICES ASSUME StreamInv, SendFrame PROVE StreamInv'
  OBVIOUS
<1>1. StreamTypes /\ Clock /\ OnTheWire /\ PlayedLast  BY DEF StreamInv
<1>2. /\ sent < Len(recording) /\ sent' = sent + Len(Frame)
      /\ wire' = wire \cup {NewPacket} /\ first_packet' = FALSE
      /\ adpcm_state' \in AdpcmStates /\ header' \in Headers
      /\ header'.payload_type = header.payload_type
      /\ recording' = recording /\ outcome' = outcome /\ decoded' = decoded
  BY <1>1, SendEffect
<1>3. /\ heard' \in Seq(Samples) /\ Len(heard') = sent'
      /\ \A i \in 1 .. sent : heard'[i] = heard[i]
  BY <1>1, HeardGrows
<1>4. Len(recording) \in Nat /\ sent \in Nat  BY <1>1, RecordingLength DEF StreamTypes
<1>5. Len(Frame) \in Nat /\ sent + Len(Frame) <= Len(recording)
  <2>1. FrameSamples \in Nat  BY SizesAreNatural
  <2> QED BY <1>1, <1>2, <2>1, ThisFrame
<1>6. sent' \in 0 .. Len(recording) /\ sent <= sent' /\ sent' \in Nat  BY <1>2, <1>4, <1>5
<1>7. StreamTypes'
  <2>1. first_packet' \in BOOLEAN  BY <1>2
  <2>2. recording \in Recordings /\ outcome \in {"sending", "sent", "failed"}
    BY <1>1 DEF StreamTypes
  <2> QED BY <1>2, <1>3, <1>6, <2>1, <2>2 DEF StreamTypes
<1>8. Clock'  BY <1>1, ClockTicks
<1>9. OnTheWire'
  <2> SUFFICES ASSUME NEW p \in wire'  PROVE Carried(p)'
    BY DEF OnTheWire
  <2>1. CASE p \in wire
    <3>1. Carried(p)  BY <1>1, <2>1 DEF OnTheWire
    <3> QED BY <1>1, <1>2, <1>3, <1>6, <3>1, CarriedOn
  <2>2. CASE p = NewPacket  BY <1>1, <2>2, NewIsCarried
  <2> QED BY <1>2, <2>1, <2>2
<1>10. PlayedLast'
  <2>1. wire \subseteq wire'  BY <1>2
  <2> QED BY <1>1, <1>2, <2>1 DEF PlayedLast
<1> QED BY <1>7, <1>8, <1>9, <1>10 DEF StreamInv

LEMMA StopStep ==
  StreamInv /\ (SendFails \/ SendingEnds \/ UNCHANGED vars) => StreamInv'
<1> SUFFICES ASSUME StreamInv, SendFails \/ SendingEnds \/ UNCHANGED vars  PROVE StreamInv'
  OBVIOUS
<1>1. /\ UNCHANGED <<recording, sent, first_packet, header, adpcm_state, wire, heard, decoded>>
      /\ outcome' \in {outcome, "sent", "failed"}
  BY DEF SendFails, SendingEnds, vars, sender
<1>2. StreamTypes /\ Clock /\ OnTheWire /\ PlayedLast  BY DEF StreamInv
<1>3. StreamTypes'
  <2>1. outcome' \in {"sending", "sent", "failed"}  BY <1>1, <1>2 DEF StreamTypes
  <2> QED BY <1>1, <1>2, <2>1 DEF StreamTypes
<1>4. Clock'  BY <1>1, <1>2 DEF Clock, InStepAt
<1>5. OnTheWire'
  <2> SUFFICES ASSUME NEW p \in wire  PROVE Carried(p)'
    BY <1>1 DEF OnTheWire
  <2>1. Carried(p)  BY <1>2 DEF OnTheWire
  <2>2. sent \in Nat  BY <1>2, RecordingLength DEF StreamTypes
  <2> QED BY <1>1, <1>2, <2>1, <2>2, CarriedOn
<1>6. PlayedLast'  BY <1>1, <1>2 DEF PlayedLast
<1> QED BY <1>3, <1>4, <1>5, <1>6 DEF StreamInv

LEMMA SenderStays ==
  ASSUME StreamInv, UNCHANGED sender
  PROVE  StreamTypes' /\ Clock' /\ OnTheWire'
<1>1. UNCHANGED <<recording, sent, first_packet, header, adpcm_state, wire, heard, outcome>>
  BY DEF sender
<1>2. StreamTypes /\ Clock /\ OnTheWire  BY DEF StreamInv
<1>3. StreamTypes'  BY <1>1, <1>2 DEF StreamTypes
<1>4. Clock'  BY <1>1, <1>2 DEF Clock, InStepAt
<1>5. OnTheWire'
  <2> SUFFICES ASSUME NEW p \in wire  PROVE Carried(p)'
    BY <1>1 DEF OnTheWire
  <2>1. Carried(p)  BY <1>2 DEF OnTheWire
  <2>2. sent \in Nat  BY <1>2, RecordingLength DEF StreamTypes
  <2> QED BY <1>1, <1>2, <2>1, <2>2, CarriedOn
<1> QED BY <1>3, <1>4, <1>5

\* A datagram of the sender's plays as its payload.
LEMMA OwnArrives ==
  ASSUME StreamInv, NEW p \in wire, Arrives(p.bytes, p.first)
  PROVE  StreamInv'
<1> DEFINE b == p.bytes
           type == p.header.payload_type
           samples == DecodeSlot(type, p.payload)
<1>1. /\ UNCHANGED sender
      /\ decoded' = [first |-> p.first,
                     samples |-> DecodeSlot(Parse(Received(b)).header.payload_type,
                                            Stored(Parse(Received(b)).payload))]
  BY DEF Arrives
<1>2. StreamTypes' /\ Clock' /\ OnTheWire' /\ wire' = wire
  <2>1. UNCHANGED sender  BY <1>1
  <2>2. StreamTypes' /\ Clock' /\ OnTheWire'  BY <2>1, SenderStays
  <2> QED BY <2>1, <2>2 DEF sender
<1>3. Carried(p)  BY DEF StreamInv, OnTheWire
<1>4. /\ p.header \in Headers /\ p.payload \in Seq(Bytes) /\ Len(p.payload) <= SlotBytes
      /\ b = Serialize(p.header, p.payload, MaxDatagramBytes)
  BY <1>3 DEF Carried
<1>5. /\ Parse(b) = [header |-> p.header, payload |-> p.payload]
      /\ Received(b) = b /\ Stored(p.payload) = p.payload
  <2> DEFINE h == p.header
             m == p.payload
  <2>1. h \in Headers /\ m \in Seq(Bytes) /\ Len(m) <= SlotBytes
        /\ b = Serialize(h, m, MaxDatagramBytes)
    BY <1>4
  <2> HIDE DEF h, m, b
  <2>2. LET c == Serialize(h, m, MaxDatagramBytes) IN
        /\ Parse(c) = [header |-> h, payload |-> m] /\ Received(c) = c /\ Stored(m) = m
    BY <2>1, Delivered
  <2>3. Parse(b) = [header |-> h, payload |-> m] /\ Received(b) = b /\ Stored(m) = m
    BY <2>1, <2>2
  <2> QED BY <2>3 DEF h, m
<1> HIDE DEF b
<1>6. Parse(Received(b)).header.payload_type = type /\ Stored(Parse(Received(b)).payload) = p.payload
  BY <1>5
<1>7. decoded' = [first |-> p.first, samples |-> samples]  BY <1>1, <1>6
<1>8. samples \in Seq(Samples) /\ Len(samples) = FrameSamples
  <2> DEFINE m == p.payload
  <2>1. m \in Seq(Bytes) /\ type \in PayloadTypes  BY <1>4 DEF Headers
  <2> HIDE DEF m, type
  <2>2. DecodeSlot(type, m) \in Seq(Samples) /\ Len(DecodeSlot(type, m)) = FrameSamples
    BY <2>1, AnySlot
  <2> QED BY <2>2 DEF m
<1>9. decoded'.first = p.first /\ decoded'.samples = samples  BY <1>7
<1> HIDE DEF samples
<1>10. PlayedLast'
  <2>1. decoded'.samples \in Seq(Samples) /\ Len(decoded'.samples) = FrameSamples
    BY <1>8, <1>9
  <2>2. \E q \in wire' : decoded'.first = q.first
                         /\ decoded'.samples = DecodeSlot(q.header.payload_type, q.payload)
    BY <1>2, <1>9 DEF samples, type
  <2> QED BY <2>1, <2>2 DEF PlayedLast
<1> QED BY <1>2, <1>10 DEF StreamInv

\* A stray that parse accepts plays as something, for a frame.
LEMMA StrayArrives ==
  ASSUME StreamInv, NEW bytes \in Strays, Arrives(bytes, -1)
  PROVE  StreamInv'
<1> DEFINE b == Received(bytes)
           type == Parse(b).header.payload_type
           payload == Stored(Parse(b).payload)
           samples == DecodeSlot(type, payload)
<1>1. UNCHANGED sender /\ WellFormed(b) /\ decoded' = [first |-> -1, samples |-> samples]
  BY DEF Arrives
<1>2. StreamTypes' /\ Clock' /\ OnTheWire'
  <2>1. UNCHANGED sender  BY <1>1
  <2> QED BY <2>1, SenderStays
<1>3. SlotBytes \in Nat /\ MaxDatagramBytes \in Nat  BY SizesAreNatural
<1>4. bytes \in Seq(Bytes)  BY StreamAssumption DEF Bytes
<1>5. b \in Seq(Bytes)  BY <1>3, <1>4, PrefixBytes DEF Received
<1> HIDE DEF b
<1>6. type \in PayloadTypes /\ Parse(b).payload \in Seq(Bytes)  BY <1>1, <1>5, AnyDatagram
<1>7. payload \in Seq(Bytes)
  <2> DEFINE m == Parse(b).payload
  <2>1. m \in Seq(Bytes)  BY <1>6
  <2> HIDE DEF m
  <2>2. Prefix(m, SlotBytes) \in Seq(Bytes)  BY <1>3, <2>1, PrefixBytes
  <2> QED BY <2>2 DEF m, Stored
<1> HIDE DEF type, payload
<1>8. samples \in Seq(Samples) /\ Len(samples) = FrameSamples  BY <1>6, <1>7, AnySlot
<1>9. decoded'.first = -1 /\ decoded'.samples = samples  BY <1>1
<1> HIDE DEF samples
<1>10. PlayedLast'  BY <1>8, <1>9 DEF PlayedLast
<1> QED BY <1>2, <1>10 DEF StreamInv

LEMMA StreamInductive == StreamSpec => []StreamInv
<1>1. StreamInv /\ [StreamNext]_vars => StreamInv'
  <2> SUFFICES ASSUME StreamInv, [StreamNext]_vars  PROVE StreamInv'
    OBVIOUS
  <2>1. CASE SendFrame  BY <2>1, SendStep
  <2>2. CASE SendFails  BY <2>2, StopStep
  <2>3. CASE SendingEnds  BY <2>3, StopStep
  <2>4. CASE \E p \in wire : Arrives(p.bytes, p.first)  BY <2>4, OwnArrives
  <2>5. CASE \E bytes \in Strays : Arrives(bytes, -1)  BY <2>5, StrayArrives
  <2>6. CASE UNCHANGED vars  BY <2>6, StopStep
  <2> QED BY <2>1, <2>2, <2>3, <2>4, <2>5, <2>6 DEF StreamNext
<1> QED BY <1>1, StreamStarts, PTL DEF StreamSpec
-----------------------------------------------------------------------------
(* The properties of the run RtpStream. *)

\* The types; whatever arrives and is accepted plays for one frame of 16-bit
\* samples, whoever sent it.
THEOREM StreamTypeCorrect == StreamSpec => []StreamTypeOK
<1>1. StreamInv => StreamTypeOK
  <2> SUFFICES ASSUME StreamInv PROVE StreamTypeOK
    OBVIOUS
  <2>1. StreamTypes /\ OnTheWire /\ PlayedLast  BY DEF StreamInv
  <2>2. sent \in Nat  BY <2>1, RecordingLength DEF StreamTypes
  <2>3. ASSUME NEW p \in wire  PROVE p.first \in 0 .. (sent - 1) /\ p.bytes \in Seq(0 .. 255)
    <3> DEFINE h == p.header
               m == p.payload
               n == FrameLength(p.first)
    <3>1. /\ h \in Headers /\ m \in Seq(Bytes) /\ Len(m) <= SlotBytes
          /\ p.first \in Nat /\ n > 0 /\ p.first + n <= sent
          /\ p.bytes = Serialize(h, m, MaxDatagramBytes)
      BY <2>1 DEF OnTheWire, Carried
    <3>2. n \in Int
      <4>1. FrameSamples \in Nat /\ Len(recording) \in Nat
        BY <2>1, SizesAreNatural, RecordingLength
      <4> QED BY <3>1, <4>1 DEF FrameLength, Smaller
    <3> HIDE DEF h, m, n
    <3>3. Serialize(h, m, MaxDatagramBytes) \in Seq(Bytes)  BY <3>1, Delivered
    <3>4. p.first \in 0 .. (sent - 1)  BY <2>2, <3>1, <3>2
    <3> QED BY <3>1, <3>3, <3>4 DEF Bytes
  <2>4. /\ decoded # Nothing => Len(decoded.samples) = FrameSamples
        /\ \A i \in DOMAIN decoded.samples : decoded.samples[i] \in Samples
    <3>1. CASE decoded = Nothing  BY <3>1 DEF Nothing
    <3>2. CASE decoded # Nothing
      <4>1. decoded.samples \in Seq(Samples) /\ Len(decoded.samples) = FrameSamples
        BY <2>1, <3>2 DEF PlayedLast
      <4>2. \A i \in DOMAIN decoded.samples : decoded.samples[i] \in Samples  BY <4>1
      <4> QED BY <4>1, <4>2
    <3> QED BY <3>1, <3>2
  <2> QED BY <2>1, <2>3, <2>4 DEF StreamTypeOK, StreamTypes
<1> QED BY <1>1, StreamInductive, PTL

\* A packet of any codec plays as the samples it was made from, whatever the
\* network did to the others and however long the stream.
THEOREM PlayedCorrect == StreamSpec => []PlayedAsSent
<1>1. StreamInv => PlayedAsSent
  <2> DEFINE first == decoded.first
             n == Smaller(FrameSamples, Len(recording) - first)
             type == header.payload_type
             played == decoded.samples
  <2> SUFFICES ASSUME StreamInv, first >= 0, NEW i \in 1 .. FrameSamples
               PROVE  /\ i <= n => IF type = PayloadTypePcmu
                                     THEN CloseUlaw(heard[first + i], played[i])
                                     ELSE played[i] = heard[first + i]
                      /\ i > n + (IF type = PayloadTypeAdpcm THEN n % 2 ELSE 0) => played[i] = 0
    BY DEF PlayedAsSent
  <2>1. decoded # Nothing /\ first # -1
    <3>1. Nothing.first = -1  BY DEF Nothing
    <3> QED BY <3>1
  <2>2. PICK p \in wire : first = p.first /\ played = DecodeSlot(p.header.payload_type, p.payload)
    BY <2>1 DEF StreamInv, PlayedLast
  <2>3. Carried(p)  BY DEF StreamInv, OnTheWire
  <2>4. PlaysFrom(type, first, n, played)
    <3>1. /\ p.header.payload_type = type
          /\ PlaysFrom(type, p.first, FrameLength(p.first), DecodeSlot(type, p.payload))
      BY <2>3 DEF Carried
    <3>2. FrameLength(p.first) = n  BY <2>2 DEF FrameLength
    <3> HIDE DEF first, n, type, played
    <3> QED BY <2>2, <3>1, <3>2
  <2>5. n \in Int
    <3>1. FrameSamples \in Nat /\ Len(recording) \in Nat /\ p.first \in Nat
      BY <2>3, SizesAreNatural, RecordingLength DEF StreamInv, Carried
    <3> QED BY <2>2, <3>1 DEF Smaller
  <2> HIDE DEF first, n, type, played
  <2>6. i \in Nat /\ i >= 1  BY SizesAreNatural
  <2>7. i <= n => i \in 1 .. n  BY <2>5, <2>6
  <2> QED BY <2>4, <2>7 DEF PlaysFrom
<1> QED BY <1>1, StreamInductive, PTL

\* Whatever the sender hands to the socket, the receiver parses to what it was made
\* from, and nothing of it is cut.
THEOREM ParsedCorrect == StreamSpec => []ParsedAsSent
<1>1. StreamInv => ParsedAsSent
  <2> SUFFICES ASSUME StreamInv, NEW p \in wire
               PROVE  /\ WellFormed(p.bytes) /\ Len(p.bytes) <= MaxDatagramBytes
                      /\ Parse(p.bytes) = [header |-> p.header, payload |-> p.payload]
                      /\ Len(p.payload) <= SlotBytes
    BY DEF ParsedAsSent
  <2> DEFINE h == p.header
             m == p.payload
  <2>1. /\ h \in Headers /\ m \in Seq(Bytes) /\ Len(m) <= SlotBytes
        /\ p.bytes = Serialize(h, m, MaxDatagramBytes)
    BY DEF StreamInv, OnTheWire, Carried
  <2> HIDE DEF h, m
  <2>2. LET b == Serialize(h, m, MaxDatagramBytes) IN
        /\ WellFormed(b) /\ Len(b) <= MaxDatagramBytes
        /\ Parse(b) = [header |-> h, payload |-> m]
    BY <2>1, Delivered
  <2>3. /\ WellFormed(p.bytes) /\ Len(p.bytes) <= MaxDatagramBytes
        /\ Parse(p.bytes) = [header |-> h, payload |-> m] /\ Len(m) <= SlotBytes
    BY <2>1, <2>2
  <2> QED BY <2>3 DEF h, m
<1> QED BY <1>1, StreamInductive, PTL

\* Sequence numbers and timestamps stay in step with the position, past any number
\* of wraps of either.
THEOREM TimestampCorrect == StreamSpec => []TimestampFollowsSequence
<1>1. StreamInv => TimestampFollowsSequence
  BY DEF StreamInv, OnTheWire, Carried, InStepAt, TimestampFollowsSequence
<1> QED BY <1>1, StreamInductive, PTL
=============================================================================
