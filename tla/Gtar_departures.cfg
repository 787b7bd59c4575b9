\* Each of these properties fails; TLC stops at the first, so check one at a time.
SPECIFICATION Spec
CONSTANTS
    x = x
    y = y
    Path <- AllPaths
    CallerPath <- AllPaths
    Value = {x}
    Missing = Missing
    Damaged = Damaged
    NoReply = NoReply
    Synced = Synced
    None = None
    MaxPending = 1
    OthersRace = TRUE
    ReadsTypedClosed = TRUE
    WriterOutlives = TRUE
INVARIANTS
    AllFramesFound
    \* ClosedThrows
    \* Cataloged
    \* StaticRecordsExist
    \* WritersEndWell
PROPERTIES
    \* AppendKeeps
CHECK_DEADLOCK FALSE
