CONSTANTS
    index = index
    read = read
    decode = decode
    bake = bake
    Workers = {w1}
    Host = Host
    Tasks = {index, read, decode, bake}
    NoTask = NoTask
    ParentOf <- Parents
    Owners <- BothOwners
    OwnerOf <- Names
    PriorityOf <- Urgency
    MayCritical = {}
    Quota <- TwoEach
    MostPending = 2
    MostInFlight = 1
    FailFast <- JobsFailFast
    Planned = 2
    CanFail = TRUE
SPECIFICATION FairSpec
INVARIANTS NothingOutlived Counted AllRetired
PROPERTY Quits
CHECK_DEADLOCK FALSE
