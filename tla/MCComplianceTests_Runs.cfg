SPECIFICATION Spec
CONSTANTS
  Classes <- AllClasses
  Outcomes <- TwoOutcomes
  MaxRounds = 8
  NumTxtBuffers = 2
INVARIANTS
  MonitorAgrees
  ReadsWhatWasReceived
  CountersAsChecked
  NothingLeftToSend
