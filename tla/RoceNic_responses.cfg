SPECIFICATION Spec
INVARIANT ResponsesCome
CONSTANTS
  Qp <- MCQp
  MaxQp = 4
  PsnMod = 4
  CqCap = 6
  KeySets = {{0}}
  Programs <- MCPrograms
  MemWords = 2
CHECK_DEADLOCK FALSE
