SPECIFICATION Spec
CONSTANTS
  Feeds = {"lamp", "motor"}
  QosOf <- MCQosOf
  MaxSent <- MCMaxSent
  MaxSlots = 2
  IdSize = 4
  MaxTries = 2
  MaxCalls = 2
  MaxConnects = 1
  MaxWire = 2
INVARIANTS
  CallbackDataStable
  GivenIsLast
PROPERTIES
  PublishedIsTaken
  ImplementsMail
