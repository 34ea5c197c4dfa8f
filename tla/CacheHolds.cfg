SPECIFICATION Spec
CONSTANTS
    Devices = {1, 2}
    Window = 1
    a = a
    Others = {a}
    r1 = r1
    r2 = r2
    Rows = {r1, r2}
    All = All
    None = None
    MaxLines = 4
    MaxAt = 3
    Mishaps = {}
    MaxCrashes = 1
SYMMETRY RowSymmetry
CHECK_DEADLOCK FALSE
INVARIANT TypeOK
 
 
