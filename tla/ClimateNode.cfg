SPECIFICATION FairSpec
CONSTANTS
  MinInterval = 2
  Interval = 4
  KeepAlive = 4
  Expiry = 6
  MaxGap = 1
  ClockSize = 9
INVARIANTS
  ReportSound
  KeptWhileRead
PROPERTIES
  ReportsGoOn
