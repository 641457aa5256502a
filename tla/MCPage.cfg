SPECIFICATION Spec
SYMMETRY MCSymmetry
CHECK_DEADLOCK FALSE
CONSTANTS
  a = a
  b = b
  NoWallet = NoWallet
INVARIANTS
  TypeOK
  SessionIsTheUsers
  ChatIsTrue
  GameIsTrue
PROPERTIES
  ShownIsNotTakenBack
