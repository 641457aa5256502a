SPECIFICATION Spec
CHECK_DEADLOCK FALSE
CONSTANTS
  NoOne = NoOne
  NoSquare = NoSquare
  NoWallet = NoWallet
PROPERTIES
  EveryCallReturns
  NothingWaitsForEver
  EveryPartCatchesUp
