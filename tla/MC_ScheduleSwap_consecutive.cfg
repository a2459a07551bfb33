\* Policy CONTINUE with a debounce of two consecutive loud ticks.
CONSTANTS
    THRESHOLD = 200
    SAMPLE_TIMES = 2
    SHOW_TIMES = 3
    Deltas = {0, 150}
    SwapCounts = {0, 512}
    MaxAry = 2
    ULongMod = 16777216
SPECIFICATION Spec
PROPERTY ReportIffConfirmed
CHECK_DEADLOCK FALSE
