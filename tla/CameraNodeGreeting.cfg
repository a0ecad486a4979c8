SPECIFICATION Spec
CONSTANTS
  Viewers = {ann, bob}
  BufferSize = 2
  MaxLen = 3
INVARIANTS
  NewClientGreeted
