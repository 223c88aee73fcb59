SPECIFICATION LiveSpec
CONSTANTS
  Entities = {1, 2}
  Player = 2
  Components = {1}
  OwnOnly = {}
  Value = {a, b}
  None = None
  Interest = FALSE
  StatePeriod = 2
  Phase = 0
  ResendAfter = 1
  RecordRoom = 1
  RecordBudget = 1
  MappingBudget = 1
  DeclarationCost = 1
  DeclaredPerPublish = 2
  ServerMapped = 2
  ClientMapped = 2
  MostUnacknowledged = 2
  OwnedPriority = 10
  AckBits = 8
  SentWindow = 8
  LastNet = 5
  HeardInput = FALSE
  MaxTick = 12
  MaxWrites = 1
  WriteUntil = 6
  LoseUntil = 6
  Refusals = FALSE
  Late = TRUE
CHECK_DEADLOCK FALSE
INVARIANTS NothingUnmapped OwnedIsPlayer SettledIsShown
PROPERTIES
  Converges
