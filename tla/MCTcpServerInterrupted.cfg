CONSTANTS
  Conns = {c1, c2}
  Cap = 2
  SlowConns = {}
  Signals = TRUE
  MaxFrames = 1
  MaxStarts = 1
SPECIFICATION Spec
INVARIANT CalledWhenReadable
