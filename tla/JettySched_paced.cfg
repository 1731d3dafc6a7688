SPECIFICATION FairSpec
CONSTANTS
  MaxIni = 2
  QueueDepth = 4
  MaxFlits = 2
  MaxWrs = 3
  MaxBacklog = 3
INVARIANTS FenceSafe Contiguous SchedInv
PROPERTY QueuesDrain
CHECK_DEADLOCK FALSE
