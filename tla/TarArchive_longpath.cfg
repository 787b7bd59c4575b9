SPECIFICATION ObservedSpec
CONSTANTS
    a = a
    b = b
    Zero = Zero
    Magic = Magic
    Uninit = Uninit
    NoReply = NoReply
    Synced = Synced
    Missing = Missing
    Damaged = Damaged
    NoStr = ""
    Str <- MCStr
    Path <- LongPaths
    TooLong = {}
    Byte <- MCByte
    Content <- FewContents
    InitialFiles = {}
    Minus = {}
    SizeLimit = 100
    Radix = 8
    MaxCells = 12
INVARIANTS
    ReopenReadsBack
