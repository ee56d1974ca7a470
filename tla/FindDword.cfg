CONSTANTS
    Dword = {d1, EOD}
    EOD = EOD
    Capacity = 5
SPECIFICATION LoopSpec
INVARIANT LoopFindsSubevent
CHECK_DEADLOCK FALSE
