SPECIFICATION Spec
CONSTANTS
  client = client  server = server  local = local  n0 = n0  n1 = n1
  Node = {n0, n1}  Proc = {client, server, local}
  Home <- MCHome  Jetty <- Ids  Jfc <- Ids
  Token0 <- MCToken0  TokenMod = 8  CqCap = 1  RecvCap = 3  SlotCells = 2
  Cells = {1, 2, 3, 4, 5, 6, 7, 8, 9, 10}  Programs <- OnePrograms  None = None
  Pkt <- MCPkt  Zeroed = Zeroed  Slots = 2  Wrap = 4  Ahead = 2
INVARIANTS ReceivesInOrder
CHECK_DEADLOCK FALSE
