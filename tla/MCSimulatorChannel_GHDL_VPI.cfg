\* Instance for the GHDL_VPI build.
SPECIFICATION Spec
CONSTANTS
  Cmd <- MCCmd
  Reads <- MCReads
  WithDataIn <- MCWithDataIn
  WithDataIn2 <- MCWithDataIn2
  WithMessage <- MCWithMessage
  Data = {d1, d2}
  Answer = {a1, a2}
  Garbage = Garbage
  None = None
  Build = "GHDL_VPI"
INVARIANT TypeOK
INVARIANT QuietBetweenRequests
INVARIANT OperandsOfTheCall
INVARIANT ResultOfTheCall
PROPERTY FieldsStableWhileRequested
PROPERTY FourPhase
PROPERTY CallsReturn
PROPERTY ImplementsBlockingCalls
