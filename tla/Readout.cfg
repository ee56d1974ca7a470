CONSTANTS
    EOD = EOD
    MaxPayload = 6
    EventSize = 2
    EodRun = 2
    nevents = 2
    MaxTriggers = 2
    FifoBound = 2
SPECIFICATION FairSpec
INVARIANTS TypeOK EventsInStep QuietReadout EndToEnd
PROPERTIES ReadoutEnds BuildersImplemented ProxyImplemented
CHECK_DEADLOCK FALSE
