-------------------------- MODULE JitterEstimator --------------------------
(***************************************************************************)
(* JitterBuffer::update_jitter_estimate: the running jitter of RFC 3550    *)
(* 6.4.1 and the playout depth taken from it.  The estimate is a double in *)
(* the code; here it is exact, kept as a whole number of scale-ths of a    *)
(* sample, which every update makes Gain times finer.  Packet n is sent at *)
(* n * FrameSamples and carries that time on the sender's clock, which     *)
(* started at StartTimestamp and wraps at TimestampMod.  Each may arrive   *)
(* after any delay up to MaxDelay, again, or never.                        *)
(***************************************************************************)
EXTENDS Integers

CONSTANTS
  Gain,             \* 16
  Margin,           \* 4, times the estimate
  SamplesPerMs,     \* kSampleRateHz / 1000
  MinTargetMs, MaxTargetMs,
  FrameSamples,
  TimestampMod,     \* 2^32
  StartTimestamp,   \* drawn at random by the sender
  LastIndex,        \* bound: packets 0 .. LastIndex
  MaxDelay,         \* bound: the network's delay, in samples
  MaxUpdates        \* bound: estimates made

ASSUME EstimatorAssumption ==
  /\ {Gain, Margin, SamplesPerMs, FrameSamples} \subseteq Nat \ {0}
  /\ MinTargetMs \in Nat /\ MaxTargetMs \in Nat /\ MinTargetMs <= MaxTargetMs
  /\ TimestampMod \in Nat \ {0} /\ StartTimestamp \in 0 .. (TimestampMod - 1)
  /\ {LastIndex, MaxDelay, MaxUpdates} \subseteq Nat

VARIABLES
  have_prev_arrival, prev_rtp_timestamp, prev_arrival_samples,
  jitter_estimate,     \* times scale
  target_depth_ms,
  updates, scale,      \* Gain to the number of updates
  rfc_estimate,        \* history: the estimate of RFC 3550 A.8, scaled alike
  fastest, slowest     \* history: the delays seen

vars == <<have_prev_arrival, prev_rtp_timestamp, prev_arrival_samples,
          jitter_estimate, target_depth_ms, updates, scale, rfc_estimate, fastest, slowest>>

Indices == 0 .. LastIndex
Delays == 0 .. MaxDelay
Timestamp(n) == (StartTimestamp + n * FrameSamples) % TimestampMod
Arrival(n, delay) == n * FrameSamples + delay

Smaller(a, b) == IF a < b THEN a ELSE b
Larger(a, b) == IF a > b THEN a ELSE b
Abs(x) == IF x < 0 THEN -x ELSE x

EstimatorInit ==
  /\ have_prev_arrival = FALSE /\ prev_rtp_timestamp = 0 /\ prev_arrival_samples = 0
  /\ jitter_estimate = 0 /\ rfc_estimate = 0 /\ updates = 0 /\ scale = 1
  /\ target_depth_ms = MinTargetMs
  /\ fastest = MaxDelay /\ slowest = 0
-----------------------------------------------------------------------------
\* Faults: the sender's clock left out, no decay, and no cap on the depth.
ArrivalGap(ts, arrival) == arrival - prev_arrival_samples
Accumulate(j, d) == Gain * j + d
Uncapped(ms) == Larger(ms, MinTargetMs)

\* D(i,j) = (Rj - Ri) - (Sj - Si), each difference taken in int64_t.
Difference(ts, arrival) ==
  (arrival - prev_arrival_samples) - (ts - prev_rtp_timestamp)

\* j + (d - j) / Gain on the next finer scale, d as yet unscaled.
Smooth(j, d) == (Gain - 1) * j + d

Clamp(ms) == Smaller(Larger(ms, MinTargetMs), MaxTargetMs)

\* static_cast<int>(4.0 * jitter_ms), for an estimate of j / s samples
TargetMs(j, s) == (Margin * j) \div (s * SamplesPerMs)

\* A.8 differences the transit times in 32 bits: sender and receiver wrap alike.
RfcDifference(ts, arrival) ==
  LET d == Difference(ts, arrival) % TimestampMod
  IN  IF d < TimestampMod \div 2 THEN d ELSE d - TimestampMod

Remember(ts, arrival) ==
  /\ prev_rtp_timestamp' = ts /\ prev_arrival_samples' = arrival
  /\ have_prev_arrival' = TRUE

FirstArrival(ts, arrival) ==
  /\ ~have_prev_arrival
  /\ Remember(ts, arrival)
  /\ UNCHANGED <<jitter_estimate, target_depth_ms, updates, scale, rfc_estimate>>

UpdateEstimate(ts, arrival) ==
  /\ have_prev_arrival /\ updates < MaxUpdates
  /\ scale' = Gain * scale
  /\ jitter_estimate' = Smooth(jitter_estimate, scale * Abs(Difference(ts, arrival)))
  /\ target_depth_ms' = Clamp(TargetMs(jitter_estimate', scale'))
  /\ updates' = updates + 1
  /\ rfc_estimate' = (Gain - 1) * rfc_estimate + scale * Abs(RfcDifference(ts, arrival))
  /\ Remember(ts, arrival)

Arrive(n, delay) ==
  /\ \/ FirstArrival(Timestamp(n), Arrival(n, delay))
     \/ UpdateEstimate(Timestamp(n), Arrival(n, delay))
  /\ fastest' = Smaller(fastest, delay) /\ slowest' = Larger(slowest, delay)

EstimatorNext == \E n \in Indices, delay \in Delays : Arrive(n, delay)

EstimatorSpec == EstimatorInit /\ [][EstimatorNext]_vars
-----------------------------------------------------------------------------
(* Properties *)

Spread == IF have_prev_arrival THEN slowest - fastest ELSE 0

\* The estimate never exceeds the spread of the delays the network has shown, and
\* so is zero on a path of constant delay, however many packets are lost,
\* repeated or reordered: the pacing of the sender cancels out of D
\* (jitter_buffer.cpp:20-25).  It holds while the sender's clock has not wrapped.
JitterWithinSpread == jitter_estimate <= Spread * scale

\* The depth playout runs at is never more than the margin times that spread calls
\* for, nor outside its range, whatever the history of the estimate.
DepthWithinSpread ==
  /\ target_depth_ms \in MinTargetMs .. MaxTargetMs
  /\ target_depth_ms <= Clamp((Margin * Spread) \div SamplesPerMs)

\* Claimed at jitter_buffer.cpp:16-19: this is the RFC's own algorithm of A.8.
MatchesRfc == jitter_estimate = rfc_estimate
=============================================================================
