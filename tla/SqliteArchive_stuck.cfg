SPECIFICATION PatientSpec
CONSTANTS
    c1 = c1
    c2 = c2
    c3 = c3
    p = p
    q = q
    x = x
    y = y
    Conn <- Both
    Path = {p}
    Data = {x, y}
    MaxChunks = 1
    Content <- Single
    None = None
    Missing = Missing
    Damaged = Damaged
    Fails = Fails
    Writers <- Both
    BulkWriters <- First
    MixesImmediate = FALSE
    ReadsInBulk = TRUE
    GoesOnAfterThrow = FALSE
PROPERTIES
    WriteEnds
