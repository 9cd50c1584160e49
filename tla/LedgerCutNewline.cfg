CONSTANTS
  e1 = e1
  e2 = e2
  b1 = b1
  Garbage = Garbage
  NoReceipt = NoReceipt
  NoEmitter = NoEmitter
  Emitters <- TwoEmitters
  Bodies <- OneBody
  HasFcntl = TRUE
  MaxCalls = 2
  MaxWriteErrors = 0
  MaxCrashes = 1
  MaxPowerLosses = 0
SPECIFICATION Spec
INVARIANT ReturnedOnLedger
CHECK_DEADLOCK FALSE
