SPECIFICATION Spec
CONSTANTS
  r1 = r1
  r2 = r2
  r3 = r3
  Runs = {r1, r2, r3}
  MaxPushes = 2
  Others <- NoOthers
  SecretSet = FALSE
  Spaced = FALSE
  DirectRuns = {r3}
  MaxFaults = 2
  None = None
CHECK_DEADLOCK FALSE
INVARIANTS OneAtATime
SYMMETRY Symmetry
