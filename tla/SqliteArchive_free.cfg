SPECIFICATION Spec
CONSTANTS
    c1 = c1
    c2 = c2
    c3 = c3
    p = p
    q = q
    x = x
    y = y
    Conn <- Both
    Path = {p}
    Data = {x, y}
    MaxChunks = 1
    Content <- RawOrLz4
    None = None
    Missing = Missing
    Damaged = Damaged
    Fails = Fails
    Writers <- Both
    BulkWriters <- First
    MixesImmediate = TRUE
    ReadsInBulk = TRUE
    GoesOnAfterThrow = TRUE
INVARIANTS
    TypeOK
    NothingHeld
