\* Each of these properties fails; TLC stops at the first, so check one at a time.
SPECIFICATION ObservedSpec
CONSTANTS
    p1 = p1
    p2 = p2
    n1 = n1
    n2 = n2
    n3 = n3
    r = r
    s = s
    v = v
    w = w
    e = e
    None = None
    Proc <- MCProc
    Base <- MCBase
    Path = {r, s}
    Value = {v, w, e}
    Empty = e
    CatJobs <- MCCatJobs
    FixJobs <- MCFixJobs
    Apart = FALSE
    MaxTemps = 3
    MaxRuns = 3
    InitialFiles <- MCFiles
PROPERTIES
    FixMakesOutput
    \* OutputWholeAlways
    \* RaisedMakesNothing
    \* CatMakesOutput
SYMMETRY EitherProc
CHECK_DEADLOCK FALSE
