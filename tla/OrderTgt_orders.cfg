SPECIFICATION FairSpec
CONSTANTS
  MaxIni = 2
  QSize = 4
  TassnMod = 8
  Orders <- MCOrders
INVARIANTS SoInOrder AttachedRight Conserved
PROPERTY AllExecuted
CHECK_DEADLOCK FALSE
