CONSTANTS
  s1 = s1
  g1 = g1
  g2 = g2
  Garbage = Garbage
  NoReceipt = NoReceipt
  NoEmitter = NoEmitter
  Live = Live
  Emitters <- OneShimTwoThreads
  Shims <- TheShim
  Bodies <- LiveBodies
  Conforming <- LiveConforming
  ThreadBodies <- OfThreads
  PromptLists <- Prompts
  Directories <- Listings
  HasFcntl = TRUE
  MaxThreadCalls = 1
  MaxReplacements = 1
  MaxCalls = 2
  MaxWriteErrors = 0
  MaxCrashes = 0
  MaxPowerLosses = 0
SPECIFICATION LiveSpec
SYMMETRY SymmetryThreads
INVARIANTS TypeOK LockExclusive ChainUnbroken ReturnedOnLedger NoSequenceReuse LiveTypeOK EmittedIsAccepted AlarmsHaveACause AuditVouches ShimLeavesNoGap ShimReceiptsNameTheWeights
PROPERTIES ImplementsHashChain
CHECK_DEADLOCK FALSE
