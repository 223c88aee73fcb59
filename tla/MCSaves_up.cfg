\* Captures, writes that fail, crashes with and without the power.
CONSTANTS
  World = World
  Players = {p1}
  Workers = {w1, w2}
  Host = Host
  Restoring = FALSE
  CanFail = TRUE
  FileFails = TRUE
  PowerFails = TRUE
  Stops = FALSE
  MaxKeeps = 2
  MaxCrashes = 2
SPECIFICATION Spec
SYMMETRY Alike
INVARIANTS NeverTorn ReportedStays
PROPERTY UnreadStays
CHECK_DEADLOCK FALSE
