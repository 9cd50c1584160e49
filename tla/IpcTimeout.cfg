SPECIFICATION FairSpec
CONSTANTS
  MaxRuns = 1
  MaxStrays = 0
  MaxDeaths = 0
  MayHang = TRUE
CHECK_DEADLOCK FALSE
PROPERTY TimeoutEndsInvoke
