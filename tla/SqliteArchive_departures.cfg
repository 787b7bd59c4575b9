\* Each of these properties fails; TLC stops at the first, so check one at a time.
SPECIFICATION Spec
CONSTANTS
    c1 = c1
    c2 = c2
    c3 = c3
    p = p
    q = q
    x = x
    y = y
    Conn <- Three
    Path = {p, q}
    Data = {x, y}
    MaxChunks = 1
    Content <- RawOrLz4
    None = None
    Missing = Missing
    Damaged = Damaged
    Fails = Fails
    Writers <- First
    BulkWriters = {}
    MixesImmediate = FALSE
    ReadsInBulk = FALSE
    GoesOnAfterThrow = FALSE
PROPERTIES
    ListsAll
    \* ReadsAsked
