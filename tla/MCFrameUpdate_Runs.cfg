SPECIFICATION Spec
CONSTANTS
  Contents <- MCContents
\* A test sends its frames and ends.
CHECK_DEADLOCK FALSE
INVARIANTS
  StuffBitsWhereReceived
  StuffCountAsReceived
  CrcAsReceived
  UpdatedAsBuilt
