SPECIFICATION FairSpec
CONSTANTS
    o = o
    p = p
    None = None
    Machines = {o, p}
    Owner = o
    FirstUp = {"store", "stamp"}
    MaxEdits = 2
    MaxSettles = 1
    MaxWrites = 9
    Drifting = {"doc"}
    Mishaps = {"look", "crash", "cut", "broken", "lost_answer", "drift", "lag", "deleted_whole"}
    MaxMishaps = 1
INVARIANT TypeOK
INVARIANT FallsSilent
PROPERTY NothingTakenBack
PROPERTY AskedOnlyOverTwo
PROPERTY HistoryGoesFirst
PROPERTY Converges
CHECK_DEADLOCK FALSE
