CONSTANTS
  Requests <- Ordinary
  OtherData <- Spelt
  Configs <- OneUnit
  ReadSizes = {3}
  RxCap = 12
  ReturnCodes = {0, 2}
  InterFrameUs = 0
  BaudRate = 115200
  TickUs = 2000
  Timeout = 2
  NoiseBytes = {255}
  NoiseAt = {7}
  Slow = FALSE
  Impatient = FALSE
  MaxFrames = 2
  MaxNoise = 1
  MaxStarts = 1
SPECIFICATION FairSpec
INVARIANTS Authentic NothingMissed NeverWedged
PROPERTIES BufferDrains StopReturns
