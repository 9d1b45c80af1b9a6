\* Both wraps fall inside the longer recordings.
CONSTANTS
  FieldBase = 4
  FrameSamples = 4
  FrameMs = 1
  MaxDatagramBytes = 24
  SlotBytes = 10
  StartSeq = 14
  StartTimestamp = 250
  Ssrc = 201
  Recordings <- Swings
  Strays <- Others
SPECIFICATION StreamSpec
CHECK_DEADLOCK FALSE
INVARIANTS StreamTypeOK PlayedAsSent ParsedAsSent TimestampFollowsSequence
