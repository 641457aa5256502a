SPECIFICATION FairSpec
CHECK_DEADLOCK FALSE
CONSTANTS
  Processes = {p1}
  NoOwner = NoOwner
  TTL = 2
  RENEW = 1
  MaxSkew = 0
  Faults = {"error"}
  MaxTime = 4
  MaxFailures = 1
  MaxCrashes = 0
PROPERTIES
  JobKeepsRunning
