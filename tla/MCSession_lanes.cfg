CONSTANTS
  Connections = {c1}
  Server = Server
  Loopback = FALSE
  MaxSessions = 1
  MaxAdmitted = 1
  Held = 2
  MostRecords = 1
  Piece = 2
  Speakers = {"server"}
  MostSent <- Some
SPECIFICATION FairSpec
INVARIANTS OwnersStory OneEpoch EventsKept FramesFirst RejectionArrives
CHECK_DEADLOCK FALSE
PROPERTY Settles
