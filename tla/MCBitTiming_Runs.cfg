SPECIFICATION Spec
CONSTANTS
  Classes <- TimedClasses
  Outcomes <- OneOutcome
  MaxRounds = 8
  NumTxtBuffers = 2
  SizeMod = 1073741824
  Timings <- FourTimings
INVARIANTS
  ConformingDutPasses
  SequenceMatchesFrame
  MinimalDurations
