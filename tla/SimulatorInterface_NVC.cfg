SPECIFICATION Spec
CONSTANTS
  Name = {base, demo}
  None = None
  Build = "NVC_VHPI"
  MaxRequests = 4
\* The simulation ends.
CHECK_DEADLOCK FALSE
INVARIANTS
  TypeOK
  OneTestThread
  RightTest
  ClockSurvivesHandover
PROPERTY TestEnds
