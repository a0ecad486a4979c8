SPECIFICATION MCSpec
CONSTANTS
  Detector = detector
  Relays = {outlet, camera}
  Interval = 1
  MaxQueue = 2
  MaxFaults = 2
  MaxCommands = 3
PROPERTIES
  ImplementsAlarm
