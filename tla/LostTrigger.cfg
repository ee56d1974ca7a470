CONSTANTS
    EOD = EOD
    MaxPayload = 6
    EventSize = 1
    EodRun = 1
    nevents = 2
    MaxTriggers = 2
    FifoBound = 2
SPECIFICATION FairSpec
PROPERTIES UnblockLeadsToReadout
CHECK_DEADLOCK FALSE
