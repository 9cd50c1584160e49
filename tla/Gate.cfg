CONSTANTS
  MaxLanes = 2
  MaxFixtures = 3
  LocalTimes = {0, 1, 2}
  Spellings <- WholeZulu
  Capabilities = {a, b}
  NoGrant = NoGrant
  ExpectedSeams = {"SEAM-012", "SEAM-013"}
  TelemetrySeam = "SEAM-013"
  OtherSeams = {"SEAM-099"}
  MaxSeams = 3
  RequiredPaths = {projects, models}
  OtherPaths = {home}
SPECIFICATION Spec
CHECK_DEADLOCK FALSE
INVARIANTS TypeOK GreenMeansModelPlane GreenMeansDenyByDefault GreenMeansLawfulExamples GreenMeansWorkspaceOps ValidatorsAgree FogEvidence
