SPECIFICATION FairToKeepers
CONSTANTS
    o = o
    k = k
    l = l
    Owner = o
    Keepers = {k, l}
    SegmentSize = 2
    MaxEvents = 3
    Mishaps = {"crash", "emptied"}
    MaxMishaps = 1
INVARIANT FolderIsAHistory
PROPERTY HandedOn
CHECK_DEADLOCK FALSE
