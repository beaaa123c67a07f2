CONSTANTS
    Loop = Loop
    Feed = Feed
    Hook = Hook
    Nobody = Nobody
    s1 = s1
    s2 = s2
    Symbols <- MCSymbols
    MaxCancelled = 1
    OwnExecutor = TRUE
SPECIFICATION FairSpec
INVARIANTS CleanStopIsClean NothingIsOrphaned
PROPERTIES FlattenFailureIsKept StopsAreCarriedOut
CHECK_DEADLOCK FALSE
