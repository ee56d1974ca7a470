CONSTANTS
    SFP = {0}
    EOD = EOD
    MaxPayload = 9
    EventSize = 1
    Events = 2
    FifoBound = 2
    MaxBoxDeaths = 1
    MaxSubDeaths = 0
    MaxDaqDeaths = 0
SPECIFICATION FairSpec
PROPERTIES RestartedIndependently
CHECK_DEADLOCK FALSE
