SPECIFICATION FairSpec
CONSTANTS
    Machines = {1, 2}
    b1 = b1
    b2 = b2
    Blocks = {b1, b2}
    None = None
    Fast = {2}
    MaxEdits = 2
    MaxSettles = 1
    MaxNotes = 2
    Mishaps = {}
    MaxMishaps = 0
CHECK_DEADLOCK FALSE
PROPERTY Converges
