SPECIFICATION FairSpec
CONSTANTS
  MaxIni = 2
  QSize = 4
  MaxFlits = 2
  MaxWrs = 3
  MaxBacklog = 3
  Posts <- MCPosts
INVARIANT SoAlone
PROPERTY AllIssued
CHECK_DEADLOCK FALSE
