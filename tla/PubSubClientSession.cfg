SPECIFICATION Spec
CONSTANTS
  TimeMod = 19
  KeepAlive = 5
  SocketTimeout = 2
  IdMod = 3
  LoopGap = 1
  LoopMax = 1
  AnswerMax = 1
  MaxRx = 1
  HasCallback = TRUE
  Horizon = 15
INVARIANTS
  TypeOK
  SessionAgrees
PROPERTIES
  NoFalseTimeout
