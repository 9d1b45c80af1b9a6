\* Four packets of a clock that does not wrap, up to five arrivals; a gain of 2
\* lets the decay show within them.
CONSTANTS
  Gain = 2
  Margin = 4
  SamplesPerMs = 1
  MinTargetMs = 2
  MaxTargetMs = 10
  FrameSamples = 5
  TimestampMod = 64
  StartTimestamp = 40
  LastIndex = 3
  MaxDelay = 4
  MaxUpdates = 4
SPECIFICATION EstimatorSpec
CHECK_DEADLOCK FALSE
INVARIANTS JitterWithinSpread DepthWithinSpread
