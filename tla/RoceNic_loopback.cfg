SPECIFICATION Spec
INVARIANTS OnceInOrder AcksExact PinHonest
PROPERTY LostOnlyWhenBehind
CONSTANTS
  Qp <- MCQp
  MaxQp = 4
  PsnMod = 4
  CqCap = 6
  KeySets = {{}, {0}}
  Programs <- MCPrograms
  MemWords = 2
CHECK_DEADLOCK FALSE
