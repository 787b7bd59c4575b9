\* A program that has used freed memory has no next step.
SPECIFICATION Spec
CONSTANTS
    Handle = {h1, h2, h3, h4}
    Shim = {s1, s2, s3}
    Null = Null
INVARIANTS
    TypeOK
    NoUseAfterFree
    CountIsHolders
PROPERTIES
    FreedByLastOwner
CHECK_DEADLOCK FALSE
