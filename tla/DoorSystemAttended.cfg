SPECIFICATION AttendedSpec
CONSTANTS
  Detector = detector
  Relays = {outlet, camera}
  Interval = 1
  MaxQueue = 2
  MaxFaults = 2
INVARIANTS
  TypeOK
PROPERTIES
  TopicsFollowDoor
  OutletsFollowDoor
