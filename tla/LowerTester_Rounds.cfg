\* Frames of three ticks, a DUT that sees the bus two ticks late, three rounds.
SPECIFICATION Spec
CONSTANTS
  FrameLen = 3
  InputDelay = 2
  MaxRounds = 3
\* The test ends after its last round.
CHECK_DEADLOCK FALSE
INVARIANTS
  TypeOK
  MonitorInSync
  DriverInSync
  CleanBetweenRounds
  PassedIffExpected
PROPERTIES
  TimeoutOnlyWithoutFrame
  RoundEnds
