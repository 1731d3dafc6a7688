SPECIFICATION Spec
CONSTANTS
  Dests = {1}
  TxChannels = 4
  RtxChannels = 2
  PsnMod = 4
  Window = 3
  Flits = {3}
  FifoDepth = 2
  OooModes = {TRUE, FALSE}
  MaxPkts = 5
  MaxUnacked = 3
INVARIANT WindowRight
PROPERTY SackExact
CHECK_DEADLOCK FALSE
