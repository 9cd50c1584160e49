CONSTANTS
  b1 = b1
  b2 = b2
  b3 = b3
  Garbage = Garbage
  NoReceipt = NoReceipt
  Bodies <- AllBodies
  Conforming <- GoodBodies
  Cases <- MCCases
SPECIFICATION Spec
CHECK_DEADLOCK FALSE
INVARIANTS TypeOK VerdictIsRight SurvivorsVouch
