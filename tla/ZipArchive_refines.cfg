SPECIFICATION ObservedSpec
CONSTANTS
    p1 = p1
    p2 = p2
    a = a
    b = b
    p = p
    s = s
    bad = bad
    Zero = Zero
    Footer = Footer
    NoReply = NoReply
    Missing = Missing
    Threw = Threw
    Saved = Saved
    Unreadable = Unreadable
    Proc <- MCProc
    Path <- MCPaths
    BadPath = {bad}
    Byte = {a, b}
    Content <- MCContent
    Reach = 100
    OneWriter = TRUE
    Fails = TRUE
    MaxCells = 4
    InitialFiles <- MCFiles
INVARIANTS
    TypeOK
    IndexIsLast
PROPERTIES
    ImplementsDocument

SYMMETRY EitherProc
VIEW WithoutReply
