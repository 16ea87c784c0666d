SPECIFICATION Spec
CONSTANTS
  a = a
  b = b
  c = c
  Nobody = Nobody
  Short = Short
  NPipes = 2
  Lsb <- Bytes
  High <- Uppers
  Sizes <- One
  Exbs <- Devices
  Matrices <- Swap
  MaxCommands = 2
  MaxFragments = 1
  MaxReceived = 0
  FifoCap = 2
  ChipFails = FALSE
  MayHang = FALSE
  MayReset = FALSE
CHECK_DEADLOCK FALSE
PROPERTY NotDefinedIsTrue
