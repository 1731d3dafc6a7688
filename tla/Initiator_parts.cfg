\* The timer: two peers on channels of their own, a third on the channel of the first.
SPECIFICATION PartsSpec
CONSTANTS
  MaxIni = 2
  Win = 4
  TassnMod = 8
  Orders <- MCOrders
  Dests = {1, 2, 4}
  Channels = 3
  BaseTimeout = 2
  MaxTimeout = 5
  Settings = {0, 1, 3, 9}
  Apps = {a1, a2}
  Bg = Bg  Free = Free
  MaxTx = 2  CtrMod = 5  MaxFrames = 4
INVARIANTS ReleasedInOrder WaitBounded SaidTrue
PROPERTIES AllReleased AckBeatsTick LossDetected
CHECK_DEADLOCK FALSE
