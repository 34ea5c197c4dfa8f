SPECIFICATION Spec
CONSTANTS
    o = o
    p = p
    None = None
    Machines = {o, p}
    Owner = o
    FirstUp = {"store", "stamp"}
    MaxEdits = 3
    MaxSettles = 1
    MaxWrites = 12
    Drifting = {"doc"}
    Mishaps = {"settled_late"}
    MaxMishaps = 1
PROPERTY NothingTakenBack
CHECK_DEADLOCK FALSE
