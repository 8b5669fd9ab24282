CONSTANTS
  Conns = {c1, c2}
  Cap = 2
  SlowConns = {}
  Signals = FALSE
  MaxFrames = 1
  MaxStarts = 1
SPECIFICATION Spec
INVARIANT StopReportsDown
