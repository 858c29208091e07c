SPECIFICATION Spec
CONSTANTS
  Size = 4
  Byte = {x, y}
  NoByte = NoByte
INVARIANTS AssertionsHold
PROPERTIES IsQueue
