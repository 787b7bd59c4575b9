\* Each of these properties fails; TLC stops at the first, so check one at a time.
SPECIFICATION ObservedSpec
CONSTANTS
    a = a
    b = b
    Zero = Zero
    Magic = Magic
    Uninit = Uninit
    NoReply = NoReply
    Synced = Synced
    Missing = Missing
    Damaged = Damaged
    NoStr = ""
    Str <- MCStr
    Path <- ShortPaths
    TooLong = {}
    Byte <- MCByte
    Content <- BigContent
    Minus <- MCMinus
    InitialFiles <- MinusFiles
    SizeLimit = 4
    Radix = 2
    MaxCells = 12
PROPERTIES
    ScanAdvances
    IntactReadsBack
INVARIANTS
    ReopenReadsBack
