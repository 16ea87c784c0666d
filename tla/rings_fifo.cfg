SPECIFICATION Spec
CONSTANTS
  Byte <- MCByte
  Size = 4
  CounterSize = 6
  MaxData = 3
CHECK_DEADLOCK FALSE
INVARIANT TypeOK
PROPERTY IsFifo
