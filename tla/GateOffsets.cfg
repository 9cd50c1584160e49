CONSTANTS
  MaxLanes = 1
  MaxFixtures = 1
  LocalTimes = {0, 1}
  Spellings <- SeveralSpellings
  Capabilities = {a, b}
  NoGrant = NoGrant
  ExpectedSeams = {"SEAM-012", "SEAM-013"}
  TelemetrySeam = "SEAM-013"
  OtherSeams = {"SEAM-099"}
  MaxSeams = 2
  RequiredPaths = {projects, models}
  OtherPaths = {home}
SPECIFICATION Spec
CHECK_DEADLOCK FALSE
INVARIANT GreenMeansDenyByDefault
