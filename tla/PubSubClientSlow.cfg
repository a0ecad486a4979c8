SPECIFICATION FairSpec
CONSTANTS
  TimeMod = 11
  KeepAlive = 1
  SocketTimeout = 1
  IdMod = 3
  LoopGap = 1
  LoopMax = 2
  AnswerMax = 0
  MaxRx = 1
  HasCallback = TRUE
  Horizon = 9
INVARIANTS
  KeepAliveHeld
  HungPeerDropped
PROPERTIES
  BlockingCallsReturn
  HungSessionEnds
