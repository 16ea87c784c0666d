SPECIFICATION Spec
CONSTANTS
  e1 = e1
  e2 = e2
  TickAddr = TickAddr
  TickTail = 7
  Preamble <- TwoBytes
  Size = 16
  CounterSize = 32
  FragSize = 7
  Junk <- Zeros
  Exbs <- TwoExbs
  Packet <- Responses
  MaxPackets = 2
  MaxTicks = 0
  Orders <- Disorderly
CHECK_DEADLOCK FALSE
INVARIANT FromItsSender
