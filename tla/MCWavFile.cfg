\* Half a byte: sizes and sample rates below 65536, samples of 8 bits.
CONSTANTS
  FieldBase = 16
  Riff <- RiffId
  Wave <- WaveId
  FmtId <- FmtLetters
  DataId <- DataLetters
  SampleRate = 8000
  Recordings <- Written
  Chunks <- Files
SPECIFICATION WavSpec
CHECK_DEADLOCK FALSE
INVARIANTS ReadsBack AcceptsExactly
PROPERTY ReadEnds
