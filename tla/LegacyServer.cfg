CONSTANTS
    NData = 1
    BufSize = 3
    MaxBurst = 2
    MaxCommands = 3
    MaxTriggers = 2
SPECIFICATION FairSpec
CHECK_DEADLOCK FALSE
INVARIANTS TypeOK SegmentsWhole CounterObeyed
PROPERTIES ReadingReleasesBusy
