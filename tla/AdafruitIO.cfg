SPECIFICATION FairSpec
CONSTANTS
  Interval = 3
  MaxGap = 1
  ClockSize = 10
  Cap = 8
INVARIANTS
  TypeOK
  PingHeld
  AttemptsSpaced
PROPERTIES
  RunReturns
