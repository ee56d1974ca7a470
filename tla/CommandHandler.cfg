CONSTANTS
    Cabled = {0}
    Burst = 2
    LastMode = 1
    FifoBound = 1
    MaxCommands = 3
    MaxDeaths = 1
SPECIFICATION Spec
INVARIANTS NormalWhenIdle NoTestWordsLeft SoundCardPasses NumbersFresh
CHECK_DEADLOCK FALSE
