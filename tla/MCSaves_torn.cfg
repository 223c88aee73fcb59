\* A stop that finds the flag clear while the task looks again, and a crash.
CONSTANTS
  World = World
  Players = {p1}
  Workers = {w1, w2}
  Host = Host
  Restoring = TRUE
  CanFail = FALSE
  FileFails = FALSE
  PowerFails = FALSE
  Stops = TRUE
  MaxKeeps = 3
  MaxCrashes = 1
SPECIFICATION Spec
SYMMETRY Alike
INVARIANT NeverTorn
CHECK_DEADLOCK FALSE
