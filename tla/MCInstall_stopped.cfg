CONSTANTS
    a = a
    b = b
    c = c
    d = d
    game1 = game1
    game2 = game2
    x = x
    y = y
    Compositions = {a, b, c, d}
    NoComposition = NoComposition
    Builds = {game1, game2}
    NoBuild = NoBuild
    BuildsOf <- Names
    Blobs = {x, y}
    BlobsOf <- Within
    Retained = 2
    Channel <- Offered
    MaxSequence = 1
    MaxFailures = 2
SPECIFICATION Spec
SYMMETRY Alike
CHECK_DEADLOCK FALSE
INVARIANTS KeptWhole RetainedApart
PROPERTY SequenceFollows
