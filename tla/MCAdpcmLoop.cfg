\* Twelve samples are enough to drive the step index to its upper end.
CONSTANTS
  Inputs <- EdgeInputs
  MaxSamples = 12
SPECIFICATION LoopSpec
CHECK_DEADLOCK FALSE
INVARIANTS AdpcmTypeOK InStep Tracks
