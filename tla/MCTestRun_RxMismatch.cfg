SPECIFICATION Spec
CONSTANTS
  DutVersion = "CanFdEna"
  Matches <- VariantMatchType
  Elem = {1, 2}
  Checks = {"rx"}
  Returns = {"FinishElemTest"}
  MaxSteps = 2
\* A test ends, and the simulation with it.
CHECK_DEADLOCK FALSE
INVARIANT MismatchFailsTheTest
