\* The walk hypercall may fail and leave the CR3 values in answer_cr3.
CONSTANTS
    Cr3s = {4096, 5242880}
    tot_pages = 1280
    TOP_CR3_SIZE = 0
    RECENT_WALK_SIZE = 2
    THRESHOLD = 1
    TIMES = 1
    MaxSnapshot = 2
    MaxSwap = 2
    ULongMod = 16777216
    WalkMayFail = TRUE
SPECIFICATION Spec
CONSTRAINT CountBound
INVARIANT NoInflatedDiff
CHECK_DEADLOCK FALSE
