CONSTANTS
    SFP = {0}
    EOD = EOD
    MaxPayload = 5
    EventSize = 2
    Events = 3
    FifoBound = 3
    MaxBoxDeaths = 1
    MaxSubDeaths = 1
    MaxDaqDeaths = 1
SPECIFICATION FairSpec
INVARIANTS TypeOK LockstepKept InOrder DamageBounded
PROPERTIES AnsweredUnlessLost
CHECK_DEADLOCK FALSE
