CONSTANTS
  t1 = t1
  t2 = t2
  c1 = c1
  c2 = c2
  port = port
  symlink = symlink
  Threads = {t1, t2}
  Ctxs = {c1}
  Paths = {port}
  realpath <- OnePath
  Bauds = {0}
  Units = {0, 1}
  Requests <- Mixed
  InterFrame <- Delays
  Handoff <- Handoffs
  T35 <- T35Ticks
  DefaultHandoff = 1
  LocalEcho = TRUE
  MaxCalls = 3
  MaxQuiet = 1
  DisconnectWhileQueued = FALSE
SPECIFICATION FairSpec
INVARIANT FreshReply
PROPERTY ImplementsService
