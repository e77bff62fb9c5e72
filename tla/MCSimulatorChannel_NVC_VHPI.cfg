\* Instance for the NVC_VHPI build.
SPECIFICATION Spec
CONSTANTS
  Cmd <- MCCmd
  Reads <- MCReads
  WithDataIn <- MCWithDataIn
  WithDataIn2 <- MCWithDataIn2
  WithMessage <- MCWithMessage
  Data = {d1, d2}
  Answer = {a1, a2}
  Garbage = Garbage
  None = None
  Build = "NVC_VHPI"
INVARIANT ReadReturnsTheAnswer
