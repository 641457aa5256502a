SPECIFICATION MCSpec
SYMMETRY MCSymmetry
CHECK_DEADLOCK FALSE
CONSTANTS
  Replicas = {r1, r2}
  MaxRound = 2
  MaxFailures = 1
  MaxRestarts = 0
  NoOwner = NoOwner
  TTL = 2
  RENEW = 1
  MaxSkew = 1
  Faults = {"pool", "error"}
  MaxTime = 5
  MaxLockFailures = 1
  MaxCrashes = 1
INVARIANTS
  TypeOK
  NothingLeftBehind
  NextRoundReady
  OnlyFinishedCommitted
  Exclusive
  SoonExpired
