SPECIFICATION FairSpec
CONSTANTS
    w1 = w1
    w2 = w2
    None = None
    Half = Half
    Writers = {w1, w2}
    Signers = {w1}
    SegmentMax = 2
    Mishaps = {"crash", "write_fails", "clock_set_back", "crash_after_rename_alone"}
    MaxMishaps = 1
    MaxTime = 2
    MaxLines = 5
    MaxSegments = 4
    MaxBatch = 2
INVARIANT TypeOK
INVARIANT StampsGrow
INVARIANT ClosedCountItself
INVARIANT SealsAnswer
PROPERTY CallsEnd
