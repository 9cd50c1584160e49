CONSTANTS
  m1 = m1
  m2 = m2
  Models <- BothModels
  NoModel = NoModel
  Garbage = Garbage
  NoReceipt = NoReceipt
  Routes <- AllRoutes
  Requests = {q1, q2}
  Deployments <- BothGateways
  EmitCanFail = TRUE
  MaxSwaps = 1
SPECIFICATION Spec
SYMMETRY RequestSymmetry
INVARIANTS TypeOK NoCompletionUnreceipted OneReceiptPerCompletion OwnReceiptsNameTheModel
CHECK_DEADLOCK FALSE
