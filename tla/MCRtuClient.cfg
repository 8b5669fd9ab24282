CONSTANTS
  t1 = t1
  t2 = t2
  c1 = c1
  c2 = c2
  port = port
  symlink = symlink
  Threads = {t1, t2}
  Ctxs = {c1, c2}
  Paths = {port, symlink}
  realpath <- Symlinked
  Bauds = {0, 19200}
  Units = {1, 2}
  Requests <- Reads
  InterFrame <- Delays
  Handoff <- Handoffs
  T35 <- T35Ticks
  DefaultHandoff = 2
  LocalEcho = FALSE
  MaxCalls = 4
  MaxQuiet = 2
  DisconnectWhileQueued = FALSE
SYMMETRY Symmetric
SPECIFICATION Spec
INVARIANTS TypeOK RefcntExact SettingsShared Silence ContextAlive
PROPERTY ServesInTurn
