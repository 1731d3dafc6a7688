SPECIFICATION FairSpec
CONSTANTS
  Workload <- MixedWorkload
  MaxOut = 3
  MaxRecv = 3
  MaxTx = 1
  Backstop = 1
  CrCnt = 1
  RecvList = 2
  MaxRecvs = 2
  MaxContexts = 2
  WireMayFail = TRUE
  WaitTimesOut = TRUE
  CleanClose = TRUE
INVARIANTS
  CompletesOnce
  StatusTrue
PROPERTY
  AllComplete
CHECK_DEADLOCK FALSE
