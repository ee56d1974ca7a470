CONSTANTS
    SFP = {s0}
    Data = {d1, d2}
    EOD = EOD
    MaxPayload = 4
    MaxWords = 6
    MaxFragment = 3
    Fragment <- MCFragment
SPECIFICATION FairSpec
INVARIANTS Lockstep BufferFits AnswerIsSubevent NothingLost
PROPERTIES EveryRequestAnswered
