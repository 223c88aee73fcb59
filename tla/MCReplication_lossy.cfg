SPECIFICATION MCSpec
CONSTANTS
  Entities = {1}
  Player = 1
  Components = {1, 2}
  OwnOnly = {}
  Value = {a, b}
  None = None
  Interest = FALSE
  StatePeriod = 1
  Phase = 0
  ResendAfter = 2
  RecordRoom = 1
  RecordBudget = 1
  MappingBudget = 2
  DeclarationCost = 1
  DeclaredPerPublish = 2
  ServerMapped = 2
  ClientMapped = 2
  MostUnacknowledged = 2
  OwnedPriority = 10
  AckBits = 1
  SentWindow = 2
  LastNet = 2
  HeardInput = TRUE
  MaxTick = 5
  MaxWrites = 1
  WriteUntil = 4
  LoseUntil = 5
  Refusals = TRUE
  Late = TRUE
CHECK_DEADLOCK FALSE
INVARIANTS
  TypeOK
  HeldIsShown
  WholeIsWhole
PROPERTIES
  NeverOlder
