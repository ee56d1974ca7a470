CONSTANTS
    NChannels = 2
    LastLink = 1
    HeaderSize = 2
    PageSize = 8
    RdhSize = 2
    MaxUnits = 2
    Intact <- MCIntact
    Damaged <- MCDamaged
SPECIFICATION Spec
CHECK_DEADLOCK FALSE
INVARIANTS DigitsOfOwnLink
