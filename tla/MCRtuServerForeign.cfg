CONSTANTS
  Requests <- Foreign
  OtherData <- Two
  Configs <- NoEcho
  ReadSizes = {3}
  RxCap = 256
  ReturnCodes = {0, 2}
  InterFrameUs = 0
  BaudRate = 115200
  TickUs = 2000
  Timeout = 2
  NoiseBytes = {255}
  NoiseAt = {7}
  Slow = FALSE
  Impatient = FALSE
  MaxFrames = 2
  MaxNoise = 0
  MaxStarts = 1
SPECIFICATION Spec
INVARIANT NothingMissed

