\* Keeps, failed writes and a stop, each thread going on when it can.
CONSTANTS
  World = World
  Players = {p1}
  Workers = {w1, w2}
  Host = Host
  Restoring = TRUE
  CanFail = TRUE
  FileFails = FALSE
  PowerFails = FALSE
  Stops = TRUE
  MaxKeeps = 3
  MaxCrashes = 0
SPECIFICATION FairSpec
INVARIANT OneWriter
PROPERTIES LaterKept StopReturns
CHECK_DEADLOCK FALSE
