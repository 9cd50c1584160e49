CONSTANTS
  e1 = e1
  e2 = e2
  b1 = b1
  Garbage = Garbage
  NoReceipt = NoReceipt
  NoEmitter = NoEmitter
  Emitters <- TwoEmitters
  Bodies <- OneBody
  HasFcntl = TRUE
  MaxCalls = 2
  MaxWriteErrors = 1
  MaxCrashes = 2
  MaxPowerLosses = 1
SPECIFICATION FairSpec
INVARIANTS ChainUpToDamage
PROPERTIES DamageIsTerminal EveryCallEnds
CHECK_DEADLOCK FALSE
