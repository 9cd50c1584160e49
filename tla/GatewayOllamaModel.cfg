CONSTANTS
  m1 = m1
  m2 = m2
  Models <- BothModels
  NoModel = NoModel
  Garbage = Garbage
  NoReceipt = NoReceipt
  Routes <- AllRoutes
  Requests = {q1}
  Deployments <- OnlyMap
  EmitCanFail = FALSE
  MaxSwaps = 0
SPECIFICATION Spec
INVARIANT ReceiptsNameTheModel
CHECK_DEADLOCK FALSE
