CONSTANTS
    a = a
    b = b
    c1 = c1
    c2 = c2
    NoId = NoId
    Ids = {a, b}
    MaximumAssets = 4
    Requesters = {c1, c2}
    BudgetBytes = 3
    Bytes <- Size
    Catalogs <- Revised
    MaxCatalogs = 2
    MaxRequests = 2
    MaxHandles = 1
SPECIFICATION Spec
CHECK_DEADLOCK FALSE
SYMMETRY Symmetric
INVARIANTS InterestCounted BudgetKept HandlesName NothingWaits
PROPERTIES MovedTogether
