SPECIFICATION FairSpec
CHECK_DEADLOCK FALSE
CONSTANTS
  Pins = {3, 5}
  Requests = {r1, r2}
  MaxFaults = 3
INVARIANTS
  ToldTruly
  AttributesCurrent
PROPERTIES
  DashboardCatchesUp
  ImplementsPins
