\* THRESHOLD as built (200); three ticks per cycle, two loud ticks to report.
CONSTANTS
    THRESHOLD = 200
    SAMPLE_TIMES = 2
    SHOW_TIMES = 3
    Deltas = {0, 150}
    SwapCounts = {0, 512}
    MaxAry = 2
    ULongMod = 16777216
SPECIFICATION Spec
INVARIANTS TypeOK ChannelReleasedOnExit ReportOncePerCycle
PROPERTY CycleEnds
CHECK_DEADLOCK FALSE
