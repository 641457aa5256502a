SPECIFICATION Spec
SYMMETRY MCSymmetry
CHECK_DEADLOCK FALSE
CONSTANTS
  Calls = {c1, c2}
  Squares = {s1, s2}
  AMOUNT = 2
  PAYOUT = 5
  CHECKPOINT_FEE = 1
  Opening = 9
  MaxRound = 2
  RowsSeen = {}
  MaxDeploys = 2
  MaxFailures = 1
INVARIANTS
  TypeOK
  EverySquarePaidOnce
  HomeIsSettled
PROPERTIES
  ImplementsCustody
