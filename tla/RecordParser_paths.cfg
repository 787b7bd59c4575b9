SPECIFICATION ParserSpec
CONSTANTS
    Directory <- Directories
    MaxDirectories = 4
INVARIANTS
    ReadsBack
    Normal
    IndexReadsBack
CHECK_DEADLOCK FALSE
