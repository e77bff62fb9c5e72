SPECIFICATION Spec
CONSTANTS
  Classes <- OnlyClass_8_5_7
  Outcomes <- OneOutcome
  MaxRounds = 2
  NumTxtBuffers = 3
INVARIANT SentInOrderOfCalls
