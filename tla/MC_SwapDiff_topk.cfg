\* TOP_CR3_SIZE 2: the ranking loop of lines 95-105 with two distinct CR3s.
CONSTANTS
    Cr3s = {4096, 8192}
    tot_pages = 1280
    TOP_CR3_SIZE = 2
    RECENT_WALK_SIZE = 2
    THRESHOLD = 1
    TIMES = 1
    MaxSnapshot = 2
    MaxSwap = 2
    ULongMod = 16777216
    WalkMayFail = FALSE
SPECIFICATION Spec
CONSTRAINT CountBound
INVARIANT TopKConsistent
CHECK_DEADLOCK FALSE
