SPECIFICATION Spec
CONSTANTS
  r1 = r1
  r2 = r2
  r3 = r3
  Runs = {r1, r2, r3}
  MaxPushes = 3
  Others <- NoOthers
  SecretSet = TRUE
  Spaced = FALSE
  DirectRuns = {}
  MaxFaults = 3
  None = None
CHECK_DEADLOCK FALSE
INVARIANTS ImagesTrue
PROPERTIES DoneIsLive UpgradeBackedUp
SYMMETRY Symmetry
