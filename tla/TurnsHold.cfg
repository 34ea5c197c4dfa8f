SPECIFICATION Spec
CONSTANTS
    Tasks = {t1, t2, t3}
    MaxWords = 2
    Crossed = FALSE
    None = None
SYMMETRY TaskSymmetry
INVARIANT TypeOK
INVARIANT PartsStandInTheirWhole
 
PROPERTY LaterTurnsKeepTheirWords
CHECK_DEADLOCK FALSE
