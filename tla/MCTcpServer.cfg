CONSTANTS
  Conns = {c1, c2, c3}
  Cap = 2
  SlowConns = {}
  Signals = FALSE
  MaxFrames = 1
  MaxStarts = 1
SYMMETRY Symmetric
SPECIFICATION Spec
INVARIANTS TypeOK StopClosesAll LinkAgrees SlotsExact CalledWhenReadable
PROPERTY HealthyKept
