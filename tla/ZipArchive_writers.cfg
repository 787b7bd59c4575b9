SPECIFICATION ObservedSpec
CONSTANTS
    p1 = p1
    p2 = p2
    a = a
    b = b
    p = p
    s = s
    bad = bad
    Zero = Zero
    Footer = Footer
    NoReply = NoReply
    Missing = Missing
    Threw = Threw
    Saved = Saved
    Unreadable = Unreadable
    Proc <- MCProc
    Path <- MCPaths
    BadPath = {bad}
    Byte = {a, b}
    Content <- MCContent
    Reach = 100
    OneWriter = FALSE
    Fails = FALSE
    MaxCells = 4
    InitialFiles <- MCFiles
PROPERTIES
    AppendersKeep

SYMMETRY EitherProc
VIEW WithoutReply
