CONSTANTS
  MaxBits = 9
  WBits = 9
  LitBufSize = 100
  OutputChunk = 90
  Nothing = Nothing
  Refused = Refused
  Jobs <- MCJobs
  Harmed <- MCHarmed
SPECIFICATION Spec
CHECK_DEADLOCK FALSE
INVARIANTS PictureComesBack CutIsRefusedOrWhole
