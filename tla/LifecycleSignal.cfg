CONSTANTS
    Loop = Loop
    Feed = Feed
    Hook = Hook
    Nobody = Nobody
    s1 = s1
    s2 = s2
    Symbols <- MCSymbols
    MaxCancelled = 0
    OwnExecutor = TRUE
SPECIFICATION SignalSpec
PROPERTY StoppedBotsEnd
CHECK_DEADLOCK FALSE
