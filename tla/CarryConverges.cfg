SPECIFICATION FairSpec
CONSTANTS
    o = o
    k = k
    Owner = o
    Keepers = {k}
    SegmentSize = 2
    MaxEvents = 4
    Mishaps = {"crash", "emptied", "set_back", "rotated_under_a_push", "emptied_in_a_round"}
    MaxMishaps = 1
INVARIANT TypeOK
INVARIANT CopiesAreHistories
PROPERTY CopiesGrow
PROPERTY Converges
PROPERTY TakenBack
CHECK_DEADLOCK FALSE
