CONSTANTS
    NChannels = 2
    LastLink = 1
    HeaderSize = 2
    PageSize = 8
    RdhSize = 2
    MaxUnits = 2
    Intact <- MCIntact
    Damaged <- MCDamaged
SPECIFICATION FairSpec
CHECK_DEADLOCK FALSE
INVARIANTS TypeOK AlwaysExpecting InOrder FirstLinkAsWritten InPlace
PROPERTIES PageEnds
