CONSTANTS
    NBits = 4
    Runs = 3
    NWords = 2
    MaxDelay = 2
    Tries = 2
    FifoBound = 1
    Hardware <- MCHardware
SPECIFICATION FairSpec
CHECK_DEADLOCK FALSE
INVARIANTS TypeOK SoundCardPasses FaultFound RowsMeasured PhaseIsPosition
PROPERTIES ProcedureEnds
