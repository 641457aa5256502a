SPECIFICATION MCSpec
CHECK_DEADLOCK FALSE
CONSTANTS
  Processes = {p1, p2}
  NoOwner = NoOwner
  TTL = 2
  RENEW = 1
  MaxSkew = 0
  Faults = {"pool"}
  MaxTime = 5
  MaxFailures = 1
  MaxCrashes = 1
PROPERTIES
  EveryRoundEnds
  JobKeeps
