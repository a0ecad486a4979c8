SPECIFICATION Spec
CONSTANTS
  Radix = 8
  MaxPacket = 16
  Messages <- MCMessages
  Texts <- MCTexts
  MaxSent = 2
  Cuts = {6}
INVARIANTS
  WritesStayInside
  DeliveredIntact
  AcksMatch
  WrittenAsMeant
  PublishedIsReceivable
