SPECIFICATION MCSpec
CONSTANTS
  Entities = {1, 2, 3}
  Player = 1
  Components = {1}
  OwnOnly = {}
  Value = {a}
  None = None
  Interest = TRUE
  StatePeriod = 1
  Phase = 0
  ResendAfter = 1
  RecordRoom = 1
  RecordBudget = 2
  MappingBudget = 2
  DeclarationCost = 1
  DeclaredPerPublish = 2
  ServerMapped = 2
  ClientMapped = 2
  MostUnacknowledged = 2
  OwnedPriority = 10
  AckBits = 2
  SentWindow = 3
  LastNet = 3
  HeardInput = FALSE
  MaxTick = 3
  MaxWrites = 2
  WriteUntil = 2
  LoseUntil = 3
  Refusals = FALSE
  Late = FALSE
CHECK_DEADLOCK FALSE
INVARIANTS
  NeverEnded
  NoOrphan
