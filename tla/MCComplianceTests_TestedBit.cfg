SPECIFICATION Spec
CONSTANTS
  Classes <- OnlyClass_8_1_4
  Outcomes <- OneOutcome
  MaxRounds = 2
  NumTxtBuffers = 2
INVARIANT LosesOnTestedBit
