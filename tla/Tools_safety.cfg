SPECIFICATION ObservedSpec
CONSTANTS
    p1 = p1
    p2 = p2
    n1 = n1
    n2 = n2
    n3 = n3
    r = r
    s = s
    v = v
    w = w
    e = e
    None = None
    Proc <- MCProc
    Base <- MCBase
    Path = {r, s}
    Value = {v, w, e}
    Empty = e
    CatJobs <- MCCatJobs
    FixJobs <- MCFixJobs
    Apart = TRUE
    MaxTemps = 3
    MaxRuns = 3
    InitialFiles <- MCFiles
INVARIANTS
    TypeOK
    NothingLeftOver
PROPERTIES
    OutputWhole
    CatMakesOutput
SYMMETRY EitherProc
CHECK_DEADLOCK FALSE
