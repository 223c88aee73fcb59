CONSTANTS
  Connections = {c1, c2}
  Server = Server
  Loopback = TRUE
  MaxSessions = 1
  MaxAdmitted = 1
  Held = 2
  MostRecords = 1
  Piece = 1
  Speakers = {"client"}
  MostSent <- One
SPECIFICATION Spec
INVARIANT WithinBounds
CHECK_DEADLOCK FALSE
SYMMETRY Alike
