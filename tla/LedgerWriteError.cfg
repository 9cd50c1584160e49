CONSTANTS
  e1 = e1
  e2 = e2
  b1 = b1
  Garbage = Garbage
  NoReceipt = NoReceipt
  NoEmitter = NoEmitter
  Emitters <- TwoEmitters
  Bodies <- OneBody
  HasFcntl = TRUE
  MaxCalls = 1
  MaxWriteErrors = 1
  MaxCrashes = 0
  MaxPowerLosses = 0
SPECIFICATION Spec
INVARIANT NoDuplicateSeq
CHECK_DEADLOCK FALSE
