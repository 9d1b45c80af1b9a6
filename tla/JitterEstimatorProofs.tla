----------------------- MODULE JitterEstimatorProofs ------------------------
(***************************************************************************)
(* Proofs about JitterEstimator, for every gain, margin and frame size and *)
(* any number of estimates: what the network's delays differ by bounds the *)
(* estimate and the depth, as long as the sender's clock does not wrap.    *)
(***************************************************************************)
EXTENDS JitterEstimator, TLAPS

\* The run does not reach the wrap of the sender's clock, which the estimator takes
\* for a delay.
NoWrap == StartTimestamp + LastIndex * FrameSamples < TimestampMod

\* The delay of the packet before, recovered from its two times.
LastDelay == prev_arrival_samples - (prev_rtp_timestamp - StartTimestamp)

EstimatorTypes ==
  /\ have_prev_arrival \in BOOLEAN
  /\ prev_rtp_timestamp \in Int /\ prev_arrival_samples \in Int
  /\ jitter_estimate \in Nat /\ scale \in Nat \ {0}
  /\ fastest \in 0 .. MaxDelay /\ slowest \in 0 .. MaxDelay
  /\ target_depth_ms \in MinTargetMs .. MaxTargetMs

Before ==
  ~have_prev_arrival => /\ fastest = MaxDelay /\ slowest = 0
                        /\ jitter_estimate = 0 /\ target_depth_ms = MinTargetMs

DelaysSeen == have_prev_arrival => fastest <= LastDelay /\ LastDelay <= slowest

EstimatorInv ==
  EstimatorTypes /\ Before /\ DelaysSeen /\ JitterWithinSpread /\ DepthWithinSpread
-----------------------------------------------------------------------------
LEMMA Parameters ==
  /\ Gain \in Nat \ {0} /\ Margin \in Nat \ {0} /\ SamplesPerMs \in Nat \ {0}
  /\ FrameSamples \in Nat \ {0} /\ MinTargetMs \in Nat /\ MaxTargetMs \in Nat
  /\ MinTargetMs <= MaxTargetMs /\ TimestampMod \in Nat \ {0}
  /\ StartTimestamp \in Nat /\ StartTimestamp < TimestampMod
  /\ LastIndex \in Nat /\ MaxDelay \in Nat
  BY EstimatorAssumption

LEMMA ClampType ==
  ASSUME NEW x \in Int
  PROVE  Clamp(x) \in MinTargetMs .. MaxTargetMs
  BY Parameters DEF Clamp, Smaller, Larger

LEMMA ClampGrows ==
  ASSUME NEW x \in Int, NEW y \in Int, x <= y
  PROVE  Clamp(x) <= Clamp(y)
  BY Parameters DEF Clamp, Smaller, Larger

\* A quotient grows with what is divided, and does not change when both are made
\* finer.
LEMMA QuotientGrows ==
  ASSUME NEW a \in Nat, NEW b \in Nat, NEW m \in Nat \ {0}, a <= b
  PROVE  a \div m <= b \div m
<1> DEFINE p == a \div m
           r == a % m
           q == b \div m
           t == b % m
<1>1. r \in 0 .. (m - 1) /\ p \in Int /\ a = m * p + r  OBVIOUS
<1>2. t \in 0 .. (m - 1) /\ q \in Int /\ b = m * q + t  OBVIOUS
<1> HIDE DEF p, r, q, t
<1>3. p <= q
  <2> SUFFICES ASSUME q + 1 <= p  PROVE FALSE
    BY <1>1, <1>2
  <2>1. m * (q + 1) <= m * p  BY <1>1, <1>2
  <2>2. m * (q + 1) = m * q + m  BY <1>2
  <2>3. m * q \in Int /\ m * p \in Int  BY <1>1, <1>2
  <2> QED BY <1>1, <1>2, <2>1, <2>2, <2>3
<1> QED BY <1>3 DEF p, q

LEMMA FinerQuotient ==
  ASSUME NEW a \in Nat, NEW s \in Nat \ {0}, NEW m \in Nat \ {0}
  PROVE  (a * s) \div (s * m) = a \div m
<1> DEFINE q == a \div m
           r == a % m
           k == s * m
           u == s * r
           b == a * s
<1>1. r \in 0 .. (m - 1) /\ q \in Int /\ a = m * q + r  OBVIOUS
<1> HIDE DEF q, r
<1>2. k \in Nat \ {0} /\ u \in Nat /\ b \in Nat  BY <1>1
<1>3. u < k
  <2>1. s * r < s * m  BY <1>1
  <2> QED BY <2>1
<1>4. b = k * q + u
  <2>1. (m * q + r) * s = (s * m) * q + s * r  BY <1>1
  <2> QED BY <1>1, <2>1
<1> HIDE DEF k, u, b
<1>5. b \div k = q  BY <1>1, <1>2, <1>3, <1>4
<1> QED BY <1>5 DEF b, k, q

LEMMA ThisTimestamp ==
  ASSUME NoWrap, NEW n \in Indices
  PROVE  Timestamp(n) = StartTimestamp + n * FrameSamples
<1>1. n \in Nat /\ n <= LastIndex  BY Parameters DEF Indices
<1>2. n * FrameSamples <= LastIndex * FrameSamples /\ n * FrameSamples \in Nat
      /\ LastIndex * FrameSamples \in Nat
  BY <1>1, Parameters
<1> DEFINE t == StartTimestamp + n * FrameSamples
<1>3. t \in Nat /\ t < TimestampMod  BY <1>2, Parameters DEF NoWrap
<1> HIDE DEF t
<1>4. t % TimestampMod = t  BY <1>3, Parameters
<1> QED BY <1>4 DEF t, Timestamp

\* A new delay widens what has been seen, and lies in it.
LEMMA Widens ==
  ASSUME EstimatorInv, NEW delay \in Delays,
         fastest' = Smaller(fastest, delay), slowest' = Larger(slowest, delay)
  PROVE  /\ fastest' \in 0 .. MaxDelay /\ slowest' \in 0 .. MaxDelay
         /\ fastest' <= delay /\ delay <= slowest'
         /\ fastest' <= fastest /\ slowest <= slowest'
         /\ ~have_prev_arrival => fastest' = delay /\ slowest' = delay
<1>1. fastest \in 0 .. MaxDelay /\ slowest \in 0 .. MaxDelay /\ delay \in 0 .. MaxDelay
  BY DEF EstimatorInv, EstimatorTypes, Delays
<1>2. ~have_prev_arrival => fastest = MaxDelay /\ slowest = 0  BY DEF EstimatorInv, Before
<1> QED BY <1>1, <1>2, Parameters DEF Smaller, Larger

LEMMA FirstStep ==
  ASSUME NoWrap, EstimatorInv, NEW n \in Indices, NEW delay \in Delays,
         FirstArrival(Timestamp(n), Arrival(n, delay)),
         fastest' = Smaller(fastest, delay), slowest' = Larger(slowest, delay)
  PROVE  EstimatorInv'
<1>1. /\ ~have_prev_arrival /\ have_prev_arrival' = TRUE
      /\ prev_rtp_timestamp' = Timestamp(n) /\ prev_arrival_samples' = Arrival(n, delay)
      /\ UNCHANGED <<jitter_estimate, target_depth_ms, updates, scale, rfc_estimate>>
  BY DEF FirstArrival, Remember
<1>2. /\ fastest' \in 0 .. MaxDelay /\ slowest' \in 0 .. MaxDelay
      /\ fastest' = delay /\ slowest' = delay /\ delay \in Nat
  BY <1>1, Widens, Parameters DEF Delays
<1>3. jitter_estimate = 0 /\ target_depth_ms = MinTargetMs /\ scale \in Nat \ {0}
  BY <1>1 DEF EstimatorInv, Before, EstimatorTypes
<1> DEFINE base == n * FrameSamples
<1>4. base \in Nat  BY Parameters DEF Indices
<1>5. Timestamp(n) = StartTimestamp + base /\ Arrival(n, delay) = base + delay
  BY ThisTimestamp DEF Arrival
<1> HIDE DEF base
<1>6. prev_rtp_timestamp' \in Int /\ prev_arrival_samples' \in Int
      /\ prev_arrival_samples' - (prev_rtp_timestamp' - StartTimestamp) = delay
  BY <1>1, <1>2, <1>4, <1>5, Parameters
<1>7. EstimatorTypes'
  <2>1. target_depth_ms \in MinTargetMs .. MaxTargetMs  BY DEF EstimatorInv, EstimatorTypes
  <2>2. have_prev_arrival' \in BOOLEAN  BY <1>1
  <2>3. jitter_estimate' \in Nat /\ scale' \in Nat \ {0}  BY <1>1, <1>3
  <2>4. target_depth_ms' \in MinTargetMs .. MaxTargetMs  BY <1>1, <2>1
  <2> QED BY <1>2, <1>6, <2>2, <2>3, <2>4 DEF EstimatorTypes
<1>8. Before'  BY <1>1 DEF Before
<1>9. DelaysSeen'
  <2>1. LastDelay' = delay  BY <1>6 DEF LastDelay
  <2>2. fastest' <= delay /\ delay <= slowest'  BY <1>2
  <2> QED BY <2>1, <2>2 DEF DelaysSeen
<1>10. Spread' = 0  BY <1>1, <1>2 DEF Spread
<1>11. JitterWithinSpread'
  <2>1. jitter_estimate' = 0 /\ scale' \in Nat  BY <1>1, <1>3
  <2>2. \A z \in Nat : 0 <= 0 * z  OBVIOUS
  <2>3. 0 <= 0 * scale'  BY <2>1, <2>2, Zenon
  <2> QED BY <1>10, <2>1, <2>3 DEF JitterWithinSpread
<1>12. DepthWithinSpread'
  <2> DEFINE x == (Margin * 0) \div SamplesPerMs
  <2>1. x \in Int  BY Parameters
  <2> HIDE DEF x
  <2>2. Clamp(x) \in MinTargetMs .. MaxTargetMs  BY <2>1, ClampType
  <2>3. target_depth_ms' \in MinTargetMs .. MaxTargetMs /\ target_depth_ms' <= Clamp(x)
    BY <1>1, <1>3, <2>2, Parameters
  <2> QED BY <1>10, <2>3 DEF DepthWithinSpread, x, Clamp
<1> QED BY <1>7, <1>8, <1>9, <1>11, <1>12 DEF EstimatorInv

\* The pacing cancels: a difference is one of two delays.
LEMMA DifferenceOfDelays ==
  ASSUME NoWrap, EstimatorInv, NEW n \in Indices, NEW delay \in Delays
  PROVE  Difference(Timestamp(n), Arrival(n, delay)) = delay - LastDelay
         /\ LastDelay \in Int /\ delay \in Int
<1> DEFINE base == n * FrameSamples
<1>1. base \in Nat /\ delay \in Nat  BY Parameters DEF Indices, Delays
<1>2. Timestamp(n) = StartTimestamp + base /\ Arrival(n, delay) = base + delay
  BY ThisTimestamp DEF Arrival
<1>3. prev_arrival_samples \in Int /\ prev_rtp_timestamp \in Int
  BY DEF EstimatorInv, EstimatorTypes
<1> HIDE DEF base
<1>4. ((base + delay) - prev_arrival_samples) - ((StartTimestamp + base) - prev_rtp_timestamp)
        = delay - (prev_arrival_samples - (prev_rtp_timestamp - StartTimestamp))
  BY <1>1, <1>3, Parameters
<1> QED BY <1>1, <1>2, <1>3, <1>4, Parameters DEF Difference, LastDelay

\* Decay leaves room for exactly one difference within the spread.
LEMMA SmoothWithin ==
  ASSUME NEW j \in Nat, NEW s \in Nat \ {0}, NEW d \in Nat, NEW x \in Nat, NEW y \in Nat,
         j <= x * s, x <= y, d <= y
  PROVE  Smooth(j, s * d) \in Nat /\ Smooth(j, s * d) <= y * (Gain * s)
<1> DEFINE g == Gain - 1
           w == y * s
<1>1. g \in Nat /\ w \in Nat /\ Gain = g + 1  BY Parameters
<1>2. x * s <= y * s /\ s * d <= y * s /\ x * s \in Nat /\ s * d \in Nat  OBVIOUS
<1>3. j <= w /\ s * d <= w  BY <1>2
<1> HIDE DEF g
<1>4. y * (Gain * s) = g * w + w
  <2>1. y * ((g + 1) * s) = g * (y * s) + y * s  BY <1>1
  <2> QED BY <1>1, <2>1
<1> HIDE DEF w
<1>5. g * j <= g * w /\ g * j \in Nat /\ g * w \in Nat  BY <1>1, <1>3
<1>6. Smooth(j, s * d) = g * j + s * d  BY DEF Smooth, g
<1> QED BY <1>1, <1>2, <1>3, <1>4, <1>5, <1>6

LEMMA UpdateStep ==
  ASSUME NoWrap, EstimatorInv, NEW n \in Indices, NEW delay \in Delays,
         UpdateEstimate(Timestamp(n), Arrival(n, delay)),
         fastest' = Smaller(fastest, delay), slowest' = Larger(slowest, delay)
  PROVE  EstimatorInv'
<1> DEFINE d == Abs(Difference(Timestamp(n), Arrival(n, delay)))
           x == Spread
           y == slowest' - fastest'
           j == jitter_estimate
           jn == jitter_estimate'
           sn == scale'
           depth == (Margin * y) \div SamplesPerMs
<1>1. /\ have_prev_arrival /\ have_prev_arrival' = TRUE
      /\ prev_rtp_timestamp' = Timestamp(n) /\ prev_arrival_samples' = Arrival(n, delay)
      /\ sn = Gain * scale
      /\ jn = Smooth(j, scale * d)
      /\ target_depth_ms' = Clamp(TargetMs(jn, sn))
  BY DEF UpdateEstimate, Remember
<1>2. /\ fastest' \in 0 .. MaxDelay /\ slowest' \in 0 .. MaxDelay
      /\ fastest' <= delay /\ delay <= slowest'
      /\ fastest' <= fastest /\ slowest <= slowest'
  BY Widens
<1>3. /\ j \in Nat /\ scale \in Nat \ {0} /\ fastest \in 0 .. MaxDelay /\ slowest \in 0 .. MaxDelay
      /\ fastest <= LastDelay /\ LastDelay <= slowest
      /\ j <= x * scale
  BY <1>1 DEF EstimatorInv, EstimatorTypes, DelaysSeen, JitterWithinSpread
<1>4. /\ Difference(Timestamp(n), Arrival(n, delay)) = delay - LastDelay
      /\ LastDelay \in Int /\ delay \in Int
  BY DifferenceOfDelays
<1>5. x = slowest - fastest  BY <1>1 DEF Spread
<1>6. d = IF delay - LastDelay < 0 THEN -(delay - LastDelay) ELSE delay - LastDelay
  BY <1>4 DEF Abs
<1> HIDE DEF d, x
<1>7. x \in Nat /\ y \in Nat /\ d \in Nat /\ x <= y /\ d <= y
  BY <1>2, <1>3, <1>4, <1>5, <1>6, Parameters
<1>8. y = Spread'  BY <1>1 DEF Spread
<1> HIDE DEF y
<1>9. jn \in Nat /\ jn <= y * (Gain * scale)
  <2>1. Smooth(j, scale * d) \in Nat /\ Smooth(j, scale * d) <= y * (Gain * scale)
    BY <1>3, <1>7, SmoothWithin
  <2> QED BY <1>1, <2>1
<1>10. sn \in Nat \ {0} /\ jn <= y * sn  BY <1>1, <1>3, <1>9, Parameters
<1>11. JitterWithinSpread'
  BY <1>8, <1>10 DEF JitterWithinSpread
<1> HIDE DEF jn, sn, j
<1>12. TargetMs(jn, sn) \in Int /\ TargetMs(jn, sn) <= depth /\ depth \in Int
  <2> DEFINE a == Margin * jn
             b == (Margin * y) * sn
             m == sn * SamplesPerMs
             c == Margin * y
  <2>1. a \in Nat /\ b \in Nat /\ m \in Nat \ {0} /\ c \in Nat
    BY <1>7, <1>9, <1>10, Parameters
  <2>2. a <= b
    <3>1. Margin * jn <= Margin * (y * sn)  BY <1>7, <1>9, <1>10, Parameters
    <3>2. Margin * (y * sn) = (Margin * y) * sn  BY <1>7, <1>10, Parameters
    <3> QED BY <3>1, <3>2
  <2>3. TargetMs(jn, sn) = a \div m  BY DEF TargetMs
  <2>4. b = c * sn  OBVIOUS
  <2>5. depth = c \div SamplesPerMs  OBVIOUS
  <2>6. m = sn * SamplesPerMs  OBVIOUS
  <2> HIDE DEF a, b, c, m, depth
  <2>7. a \div m <= b \div m  BY <2>1, <2>2, QuotientGrows
  <2>8. b \div m = depth  BY <1>10, <2>1, <2>4, <2>5, <2>6, FinerQuotient, Parameters
  <2>9. a \div m \in Int /\ depth \in Int  BY <2>1, <2>5, Parameters
  <2> QED BY <2>3, <2>7, <2>8, <2>9
<1>13. DepthWithinSpread'
  <2> DEFINE t == TargetMs(jn, sn)
  <2>1. t \in Int /\ t <= depth /\ depth \in Int  BY <1>12
  <2>2. target_depth_ms' = Clamp(t)  BY <1>1
  <2> HIDE DEF t, depth
  <2>3. Clamp(t) \in MinTargetMs .. MaxTargetMs /\ Clamp(t) <= Clamp(depth)
    BY <2>1, ClampType, ClampGrows
  <2>4. Clamp((Margin * Spread) \div SamplesPerMs)' = Clamp(depth)
    BY <1>8 DEF Clamp, depth
  <2> QED BY <2>2, <2>3, <2>4 DEF DepthWithinSpread
<1>14. EstimatorTypes'
  <2>1. Timestamp(n) \in Int /\ Arrival(n, delay) \in Int
    <3>1. n * FrameSamples \in Nat /\ n \in Nat  BY Parameters DEF Indices
    <3>2. Timestamp(n) = StartTimestamp + n * FrameSamples  BY ThisTimestamp
    <3> QED BY <1>4, <3>1, <3>2, Parameters DEF Arrival
  <2>2. have_prev_arrival' \in BOOLEAN  BY <1>1
  <2>3. jitter_estimate' \in Nat /\ scale' \in Nat \ {0}  BY <1>9, <1>10 DEF jn, sn
  <2>4. target_depth_ms' \in MinTargetMs .. MaxTargetMs  BY <1>13 DEF DepthWithinSpread
  <2> QED BY <1>1, <1>2, <2>1, <2>2, <2>3, <2>4 DEF EstimatorTypes
<1>15. Before'  BY <1>1 DEF Before
<1>16. DelaysSeen'
  <2>1. LastDelay' = delay
    <3> DEFINE base == n * FrameSamples
    <3>1. base \in Nat  BY Parameters DEF Indices
    <3>2. Timestamp(n) = StartTimestamp + base /\ Arrival(n, delay) = base + delay
      BY ThisTimestamp DEF Arrival
    <3> HIDE DEF base
    <3>3. (base + delay) - ((StartTimestamp + base) - StartTimestamp) = delay
      BY <1>4, <3>1, Parameters
    <3> QED BY <1>1, <3>2, <3>3 DEF LastDelay
  <2> QED BY <1>2, <2>1 DEF DelaysSeen
<1> QED BY <1>11, <1>13, <1>14, <1>15, <1>16 DEF EstimatorInv

LEMMA EstimatorInductive == ASSUME NoWrap PROVE EstimatorSpec => []EstimatorInv
<1>1. EstimatorInit => EstimatorInv
  <2> SUFFICES ASSUME EstimatorInit PROVE EstimatorInv
    OBVIOUS
  <2>1. /\ have_prev_arrival = FALSE /\ prev_rtp_timestamp = 0 /\ prev_arrival_samples = 0
        /\ jitter_estimate = 0 /\ scale = 1 /\ target_depth_ms = MinTargetMs
        /\ fastest = MaxDelay /\ slowest = 0
    BY DEF EstimatorInit
  <2>2. EstimatorTypes /\ Before /\ DelaysSeen
    <3>1. /\ MaxDelay \in 0 .. MaxDelay /\ 0 \in 0 .. MaxDelay
          /\ MinTargetMs \in MinTargetMs .. MaxTargetMs
      BY Parameters
    <3>2. 0 \in Int /\ 0 \in Nat /\ 1 \in Nat \ {0} /\ FALSE \in BOOLEAN  OBVIOUS
    <3>3. EstimatorTypes  BY <2>1, <3>1, <3>2, Zenon DEF EstimatorTypes
    <3> QED BY <2>1, <3>3 DEF Before, DelaysSeen
  <2>3. Spread = 0  BY <2>1 DEF Spread
  <2>4. JitterWithinSpread  BY <2>1, <2>3 DEF JitterWithinSpread
  <2>5. DepthWithinSpread
    <3> DEFINE x == (Margin * 0) \div SamplesPerMs
    <3>1. x \in Int  BY Parameters
    <3> HIDE DEF x
    <3>2. Clamp(x) \in MinTargetMs .. MaxTargetMs  BY <3>1, ClampType
    <3>3. target_depth_ms \in MinTargetMs .. MaxTargetMs /\ target_depth_ms <= Clamp(x)
      BY <2>1, <3>2, Parameters
    <3> QED BY <2>3, <3>3 DEF DepthWithinSpread, x
  <2> QED BY <2>2, <2>4, <2>5 DEF EstimatorInv
<1>2. EstimatorInv /\ [EstimatorNext]_vars => EstimatorInv'
  <2> SUFFICES ASSUME EstimatorInv, [EstimatorNext]_vars PROVE EstimatorInv'
    OBVIOUS
  <2>1. ASSUME NEW n \in Indices, NEW delay \in Delays, Arrive(n, delay)
        PROVE  EstimatorInv'
    BY <2>1, FirstStep, UpdateStep DEF Arrive
  <2>2. CASE UNCHANGED vars
    BY <2>2 DEF EstimatorInv, EstimatorTypes, Before, DelaysSeen, LastDelay, JitterWithinSpread,
                DepthWithinSpread, Spread, Clamp, vars
  <2> QED BY <2>1, <2>2 DEF EstimatorNext
<1> QED BY <1>1, <1>2, PTL DEF EstimatorSpec

\* However many packets are lost, repeated or overtaken, the estimate stays within
\* what the delays of those that came differ by.
THEOREM JitterCorrect == ASSUME NoWrap PROVE EstimatorSpec => []JitterWithinSpread
  BY EstimatorInductive, PTL DEF EstimatorInv

\* So does the depth playout runs at, times the margin, and in its range.
THEOREM DepthCorrect == ASSUME NoWrap PROVE EstimatorSpec => []DepthWithinSpread
  BY EstimatorInductive, PTL DEF EstimatorInv
=============================================================================
