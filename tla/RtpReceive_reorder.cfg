SPECIFICATION FairSpec
CONSTANTS
  Peers = {1, 2}
  MaxChannels = 2
  PsnMod = 6
  BitmapBits = 3
  Window = 3
  Flits <- MCFlits
  Traffics <- MCTraffics
  MaxRepeats = 1
  MaxProvisions = 1
  OooModes = {TRUE, FALSE}
  Late = FALSE
  FirstFirst = TRUE
INVARIANTS AckTruthful OutInOrder WindowsAgree
PROPERTY AllDelivered
CHECK_DEADLOCK FALSE
