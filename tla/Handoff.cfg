\* Nine frames, two laps and more of a ring of three usable slots.
CONSTANTS
  Capacity = 4
  MaxFrames = 9
  Items = {0, 1, 2, 3, 4, 5, 6, 7, 8}
  Torn = Torn
  MaxPushes = 9
SPECIFICATION FairHandoffSpec
CHECK_DEADLOCK FALSE
INVARIANTS RingTypeOK RaceFree SamplesInOrder NothingLeftBehind
PROPERTIES ImplementsFifo MainExits
