\* Three packets, every knob turned on, sockets that may fail.
CONSTANTS
  Loss = TRUE
  Reorder = TRUE
  Jitter = TRUE
  Dup = TRUE
  SocketMayFail = TRUE
  MaxPackets = 3
SPECIFICATION FairImpairSpec
CHECK_DEADLOCK FALSE
INVARIANTS StraightPacketsInOrder ForwardedIsSent
PROPERTIES ImpairEnds
