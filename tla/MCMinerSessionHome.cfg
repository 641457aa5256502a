SPECIFICATION FairSpec
CHECK_DEADLOCK FALSE
CONSTANTS
  Calls = {c1, c2}
  Squares = {s1}
  AMOUNT = 2
  PAYOUT = 5
  CHECKPOINT_FEE = 1
  Opening = 8
  MaxRound = 2
  RowsSeen = {"missing", "undecided", "losing", "winning"}
  MaxDeploys = 2
  MaxFailures = 1
PROPERTIES
  MoneyComesHome
