SPECIFICATION FairSpec
CONSTANTS
  a = a
  b = b
  c = c
  Nobody = Nobody
  Short = Short
  NPipes = 2
  Lsb <- Bytes
  High <- Uppers
  Sizes <- UpToTwo
  Exbs <- Devices
  Matrices <- All
  MaxCommands = 2
  MaxFragments = 2
  MaxReceived = 1
  FifoCap = 2
  ChipFails = TRUE
  MayHang = TRUE
  MayReset = TRUE
CHECK_DEADLOCK FALSE
INVARIANTS TypeOK MatrixIsHeard SentToAddresseeAtFirst SenderIsRightAtFirst OutcomeIsTrueUnreceived
PROPERTY ThreadsGoOn
