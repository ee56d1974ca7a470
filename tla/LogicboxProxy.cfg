CONSTANTS
    Client = {c1, c2}
    Word = {w1, w2}
    MaxPayload = 2
    FifoBound = 2
    MaxArrivals = 2
    MaxTriggers = 1
SPECIFICATION FairSpec
INVARIANT DumpsLoseNothing
PROPERTIES EveryCommandAnswered
CHECK_DEADLOCK FALSE
