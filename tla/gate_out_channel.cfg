SPECIFICATION Spec
CONSTANTS
  e1 = e1
  e2 = e2
  TickAddr = TickAddr
  TickTail = 7
  Preamble <- TwoBytes
  Size = 16
  CounterSize = 32
  FragSize = 7
  Junk <- Junks
  Exbs <- TwoExbs
  Packet <- Packets
  MaxPackets = 2
  MaxTicks = 1
  Orders <- Both
CHECK_DEADLOCK FALSE
INVARIANTS TypeOK WellFormed
PROPERTY IsChannel
