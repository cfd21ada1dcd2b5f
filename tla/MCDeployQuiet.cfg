SPECIFICATION FairSpec
CONSTANTS
  r1 = r1
  r2 = r2
  r3 = r3
  Runs = {r1, r2}
  MaxPushes = 2
  Others <- MCOthers
  SecretSet = TRUE
  Spaced = TRUE
  DirectRuns = {}
  MaxFaults = 0
  None = None
CHECK_DEADLOCK FALSE
PROPERTIES NoOpWhenCurrent StartedIsDeployed
