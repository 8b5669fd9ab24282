CONSTANTS
  Fds = {3, 4, 5}
  MaxTid = 3
  Requests <- Calls
  MaxStarts = 2
SPECIFICATION FairSpec
INVARIANTS LinkExact LockAlive TidsDistinct RoundTrip
PROPERTIES ClosesOwnOnly StopReturns Reconnects
