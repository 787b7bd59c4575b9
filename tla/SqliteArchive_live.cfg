SPECIFICATION FairSpec
CONSTANTS
    c1 = c1
    c2 = c2
    c3 = c3
    p = p
    q = q
    x = x
    y = y
    Conn <- Both
    Path = {p}
    Data = {x, y}
    MaxChunks = 2
    Content <- TwoChunks
    None = None
    Missing = Missing
    Damaged = Damaged
    Fails = Fails
    Writers <- Both
    BulkWriters = {}
    MixesImmediate = FALSE
    ReadsInBulk = FALSE
    GoesOnAfterThrow = FALSE
INVARIANTS
    NeverTorn
PROPERTIES
    WriteEnds
