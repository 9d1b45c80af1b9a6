\* A stream that wraps the sequence space after three packets, a ring of four.
CONSTANTS
  SeqMod = 16
  Capacity = 4
  FrameSamples = 1
  TargetDepths = {1, 2}
  MinTarget = 1
  MaxConcealments = 2
  ClockMod = 1000
  DisablePlcFade = FALSE
  CollectStats = FALSE
  StartSeq = 13
  LastIndex = 6
  Times = {0, 9}
  MaxReceived = 4
  NoPacket = NoPacket
  Silence = Silence
SPECIFICATION FairSpec
INVARIANTS TypeOK SlotsInWindow PacketsAccounted NeverPastFrontier FirstFrameIsReal
PROPERTIES ConcealmentFades ImplementsPlayoutWindow DrainsWhenEnded
