\* The same packets, the sender clock wrapping under the second.
CONSTANTS
  Gain = 2
  Margin = 4
  SamplesPerMs = 1
  MinTargetMs = 2
  MaxTargetMs = 10
  FrameSamples = 5
  TimestampMod = 64
  StartTimestamp = 60
  LastIndex = 3
  MaxDelay = 4
  MaxUpdates = 4
SPECIFICATION EstimatorSpec
CHECK_DEADLOCK FALSE
INVARIANTS MatchesRfc
