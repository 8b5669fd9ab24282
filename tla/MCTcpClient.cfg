CONSTANTS
  Threads = {t1, t2}
  Units = {1, 2}
  MaxTid = 2
  MaxCalls = 4
  MaxBuffered = 1
  DisconnectWhileQueued = FALSE
SPECIFICATION FairSpec
INVARIANTS TypeOK OwnReply TrustedStream OneInFlight NoDestroyedMutex
PROPERTIES ClosedForCause ImplementsService
