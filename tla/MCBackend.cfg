SPECIFICATION MCSpec
SYMMETRY MCSymmetry
CHECK_DEADLOCK FALSE
CONSTANTS
  c1 = c1
  c2 = c2
  c3 = c3
  Calls = {c1, c2, c3}
  Wallets = {"alice", "bob"}
  Rounds = {"r1"}
  Instances = {"i1", "i2"}
  NoOne = NoOne
  NoSquare = NoSquare
  Deploys = {"d1", "d2", "d3"}
  PayerOf <- MCPayerOf
  DeployRound <- MCDeployRound
  Mask <- MCMask
  Attempts = 2
  MaxIngestionFailures = 1
  MaxMinerChanges = 0
  Known = {}
  Log <- MCLog
  Workers = {c1, c2}
  Recovery = "recovery"
  PageLimit = 1
  MaxPages = 2
  MaxIndexerFailures = 0
  MaxCrashes = 1
  MaxLost = 1
  maxCount = 2
  windowMs = 3
  MaxTime = 8
  MaxAdmitted = 9
  RedisConfigured = TRUE
  signInCount = 2
  signInWindowMs = 1
  MaxSignInTime = 3
  MaxSignIns = 4
  RetentionMs = 2
  SignIns = {c1, c2}
  Challenges = {"challenge"}
  MaxSessions = 3
  MaxAuthFailures = 1
  Sockets = {"s1", "s2"}
  InstanceOf <- MCInstanceOf
  Sessions = {"n1", "n2"}
  WalletOf <- MCWalletOf
  Kinds = {"authenticate", "send_message", "announce"}
  MaxPerWindow = 1
  MaxAttempts = 2
  MaxChatFailures = 2
  Tabs = {"t1", "t2", "t3"}
  TabWallet <- MCTabWallet
  TabInstance <- MCTabInstance
  MaxReactionFailures = 1
INVARIANTS
  TypeOK
  RecordedOnce
  LimitsHold
  SessionsAreChains
  SpokenOnce
PROPERTIES
  NothingTakenBack
