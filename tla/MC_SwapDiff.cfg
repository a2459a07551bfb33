\* The build of swap_calculate.c: TOP_CR3_SIZE 0, TIMES 1; walks succeed.
CONSTANTS
    Cr3s = {4096, 5242880}
    tot_pages = 1280
    TOP_CR3_SIZE = 0
    RECENT_WALK_SIZE = 2
    THRESHOLD = 1
    TIMES = 1
    MaxSnapshot = 2
    MaxSwap = 2
    ULongMod = 16777216
    WalkMayFail = FALSE
SPECIFICATION Spec
CONSTRAINT CountBound
INVARIANTS TypeOK TrueIncreases
PROPERTY DetectorRefinement
CHECK_DEADLOCK FALSE
