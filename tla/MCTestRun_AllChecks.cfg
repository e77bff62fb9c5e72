SPECIFICATION Spec
CONSTANTS
  DutVersion = "CanFdEna"
  Matches <- VariantMatchType
  Elem = {1, 2}
  Checks = {"rx", "no_rx", "rec", "tec"}
  Returns = {"FinishElemTest", "false"}
  MaxSteps = 2
\* A test ends, and the simulation with it.
CHECK_DEADLOCK FALSE
INVARIANT TypeOK
INVARIANT VectorForEachVariant
INVARIANT OnlyFailuresSkipTests
INVARIANT DutOnInElemTest
INVARIANT NoUnfinishedTestPasses
PROPERTY EachRunsOnce
PROPERTY ImplementsVerdict
PROPERTY RunEndsUnlessReported
