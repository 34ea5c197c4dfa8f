SPECIFICATION Spec
CONSTANTS
    w1 = w1
    w2 = w2
    None = None
    Half = Half
    Writers = {w1, w2}
    Signers = {w1, w2}
    SegmentMax = 2
    Mishaps = {"crash", "crash_after_rename", "write_fails", "read_fails", "open_overlaps", "crash_after_rename_alone"}
    MaxMishaps = 2
    MaxTime = 1
    MaxLines = 6
    MaxSegments = 4
    MaxBatch = 2
SYMMETRY WriterSymmetry
INVARIANT Durable
INVARIANT Contiguous
PROPERTY ClosedStay
 
