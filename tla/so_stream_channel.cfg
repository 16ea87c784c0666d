SPECIFICATION Spec
CONSTANTS
  Preamble <- TwoBytes
  Size = 8
  CounterSize = 13
  Junk <- Junks
  Frame <- Frames
  Noise <- Noises
  MaxFrames = 2
CHECK_DEADLOCK FALSE
INVARIANT TypeOK
PROPERTY IsChannel
