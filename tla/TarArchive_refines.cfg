SPECIFICATION FairObservedSpec
CONSTANTS
    a = a
    b = b
    Zero = Zero
    Magic = Magic
    Uninit = Uninit
    NoReply = NoReply
    Synced = Synced
    Missing = Missing
    Damaged = Damaged
    NoStr = ""
    Str <- MCStr
    Path <- MCPaths
    TooLong <- MCTooLong
    Byte <- MCByte
    Content <- MCContent
    InitialFiles <- MCFiles
    Minus = {}
    SizeLimit = 100
    Radix = 8
    MaxCells = 9
INVARIANTS
    TypeOK
    PositionCoherent
    BufferAtEnd
    ExtentsInside
    IndexMatchesFile
PROPERTIES
    RecordsKept
    ScanAdvances
    ScanEnds
    ImplementsArchive
