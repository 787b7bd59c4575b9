SPECIFICATION Spec
CONSTANTS
    x = x
    y = y
    Path <- FramePaths
    CallerPath <- FramePaths
    Value = {x, y}
    Missing = Missing
    Damaged = Damaged
    NoReply = NoReply
    Synced = Synced
    None = None
    MaxPending = 1
    OthersRace = FALSE
    ReadsTypedClosed = TRUE
    WriterOutlives = TRUE
INVARIANTS
    TypeOK
    Cataloged
    FramesFound
PROPERTIES
    YieldsStored
    AppendKeeps
SYMMETRY ContentsAlike
CHECK_DEADLOCK FALSE
