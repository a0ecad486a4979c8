SPECIFICATION PacketSpec
CONSTANTS
  MaxBuffer = 150
  DataLen = 100
  Topics <- MCTopics
  Payloads <- MCPayloads
INVARIANTS
  BuiltInBuffer
  GetsPayload
  SmallerIsWhole
  DataHandled
