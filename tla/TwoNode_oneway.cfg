SPECIFICATION FairSpec
INVARIANTS LandsAsPosted AckMeansDone AtomicsOnce
PROPERTIES Scheduled LinkDelivers
CONSTANTS
  MaxIni = 16
  IdleSweeps = 4
  HbmSize = 96
  Tokens = {7}
  Groups <- MCGroups
  Channels = 2
  Node = {1, 2}
  Programs <- MCPrograms
  Armed = 32
CHECK_DEADLOCK FALSE
