\* Ten packets across the wrap of eight sequence numbers, six arrivals.
CONSTANTS
  SeqMod = 8
  StartSeq = 5
  LastIndex = 9
  MaxReceived = 6
  Capacity = 2
  FrameSamples = 1
  TargetDepths = {1}
  MinTarget = 1
  MaxConcealments = 1
  ClockMod = 1000
  DisablePlcFade = FALSE
  CollectStats = FALSE
  Times = {9}
  NoPacket = NoPacket
  Silence = Silence
SPECIFICATION TrackedSpec
CHECK_DEADLOCK FALSE
INVARIANTS FollowsNewest GapsAreMissing CountersCoverStream SameReordered
PROPERTY SilentBeyondHorizon
