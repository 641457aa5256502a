SPECIFICATION FairSpec
CHECK_DEADLOCK FALSE
CONSTANTS
  ADMIN_FEE = 2500
  MOTHERLODE_FEE = 5000
  DENOMINATOR_BPS = 10000
  Miners = {alice, bob}
  Squares = {s1, s2}
  Crank = crank
  Collector = collector
  NoRandomness = NoRandomness
  ROUND_DURATION_SECONDS = 1
  INTERMISSION_SECONDS = 1
  CLAIM_WINDOW_SECONDS = 3
  BOT_CHECKPOINT_WINDOW_SECONDS = 1
  VRF_TIMEOUT_SECONDS = 1
  CHECKPOINT_FEE = 1
  MinerRent = 1
  RoundRent = 20
  TreasuryRent = 3
  InitialWallet <- MCInitialWallet
  MinerFunds = 10
  CrankFunds = 20
  FundAmounts = {7}
  DeployAmounts = {3}
  U64_MAX = 1000
  I64_MAX = 99
  MaxRound = 1
  MaxNonce = 1
  MaxTime = 4
PROPERTIES
  EveryBetIsSettled
