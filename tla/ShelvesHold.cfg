SPECIFICATION Spec
CONSTANTS
    Folders = {f1, f2, f3}
    Docs = {d1, d2, d3}
    Deepest = 4
    None = None
    Unsaid = Unsaid
SYMMETRY IdentitySymmetry
INVARIANT TypeOK
INVARIANT NoLoops
INVARIANT GroupsStand
PROPERTY NothingLetOut
CHECK_DEADLOCK FALSE
