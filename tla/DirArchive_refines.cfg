SPECIFICATION ObservedSpec
CONSTANTS
    p1 = p1
    p2 = p2
    a = a
    out = out
    d = d
    x = x
    Zero = Zero
    Dir = Dir
    Idle = Idle
    NoReply = NoReply
    Done = Done
    Missing = Missing
    Torn = Torn
    Threw = Threw
    Damaged = Damaged
    Proc <- MCProc
    Name = {out, d, x}
    Root <- MCRoot
    Path <- MCPaths
    Byte = {a, Zero}
    Content <- MCContent
    OneWriter = TRUE
    Fails = TRUE
    MaxNames = 2
    InitialNodes <- MCNodes
INVARIANTS
    TypeOK
PROPERTIES
    SearchFinds
    ImplementsRegisters
SYMMETRY EitherProc
VIEW WithoutReply
