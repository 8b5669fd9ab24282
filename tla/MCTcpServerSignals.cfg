CONSTANTS
  Conns = {c1, c2}
  Cap = 2
  SlowConns = {c1, c2}
  Signals = TRUE
  MaxFrames = 1
  MaxStarts = 2
SPECIFICATION FairSpec
PROPERTIES StopReturns Served
