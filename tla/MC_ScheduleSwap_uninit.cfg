\* The init hypercall may fail; line 79 does not look at ret.
CONSTANTS
    THRESHOLD = 200
    SAMPLE_TIMES = 2
    SHOW_TIMES = 3
    Deltas = {0, 150}
    SwapCounts = {0, 512}
    MaxAry = 2
    ULongMod = 16777216
SPECIFICATION Spec
INVARIANT NoCallOnUnsetChannel
CHECK_DEADLOCK FALSE
