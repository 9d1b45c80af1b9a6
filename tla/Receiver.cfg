\* Three datagrams, a ring that refuses the second frame of a burst, an idle timeout
\* shorter than a frame, and time for the stream to end while packets still come.
CONSTANTS
  SeqMod = 8
  Capacity = 2
  FrameSamples = 1
  TargetDepths = {1}
  MinTarget = 1
  MaxConcealments = 1
  ClockMod = 100
  DisablePlcFade = FALSE
  CollectStats = FALSE
  StartSeq = 7
  LastIndex = 2
  Times = {0, 1, 2, 3}
  MaxReceived = 3
  NoPacket = NoPacket
  Silence = Silence
  RingCapacity = 2
  IdleTimeout = 0
  TrafficEnd = 2
  MaxClock = 3
SPECIFICATION FairReceiverSpec
INVARIANTS ReceiverTypeOK WavIsTimeline NothingLeftInRing
PROPERTIES EndsDrained AllThreadsExit
CHECK_DEADLOCK FALSE
