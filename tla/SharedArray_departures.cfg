\* This property fails: a shim without a target does not survive its first release.
SPECIFICATION Spec
CONSTANTS
    Handle = {h1, h2}
    Shim = {s1}
    Null = Null
PROPERTIES
    FreedByLastOwnerAlways
