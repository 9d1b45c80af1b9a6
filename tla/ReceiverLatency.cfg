\* --collect-stats with a playout thread that wakes late.
CONSTANTS
  SeqMod = 8
  Capacity = 2
  FrameSamples = 1
  TargetDepths = {1}
  MinTarget = 1
  MaxConcealments = 1
  ClockMod = 100
  DisablePlcFade = FALSE
  CollectStats = TRUE
  StartSeq = 7
  LastIndex = 2
  Times = {0, 1, 2, 3, 4, 5}
  MaxReceived = 2
  NoPacket = NoPacket
  Silence = Silence
  RingCapacity = 2
  IdleTimeout = 1
  TrafficEnd = 3
  MaxClock = 5
SPECIFICATION ReceiverSpec
INVARIANTS LatencyIsTimeHeld
CHECK_DEADLOCK FALSE
