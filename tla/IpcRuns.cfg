SPECIFICATION FairSpec
CONSTANTS
  MaxRuns = 2
  MaxStrays = 1
  MaxDeaths = 1
  MayHang = TRUE
INVARIANTS TypeOK TranscriptExplainsReceipt OwnResultUnlessAbandoned NoInvokeBeforeHandshake
PROPERTIES EveryRunEnds NoAdapterIsLeft
CHECK_DEADLOCK FALSE
