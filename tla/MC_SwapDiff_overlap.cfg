\* TOP_CR3_SIZE 1 with walks that succeed: an address space can be in
\* top_cr3 and in the recent part of the watch list at once.
CONSTANTS
    Cr3s = {4096, 8192}
    tot_pages = 1280
    TOP_CR3_SIZE = 1
    RECENT_WALK_SIZE = 1
    THRESHOLD = 1
    TIMES = 1
    MaxSnapshot = 1
    MaxSwap = 2
    ULongMod = 16777216
    WalkMayFail = FALSE
SPECIFICATION Spec
CONSTRAINT CountBound
INVARIANT NoInflatedDiff
CHECK_DEADLOCK FALSE
