CONSTANTS
    s1 = s1
    Symbols <- MCSymbols
    All = All
    NoBaseline = NoBaseline
    NoState = NoState
    TornState = TornState
    NoDay = NoDay
    Tasks = {t1}
    Durations = {1, 2}
    MaxTime = 1
    MaxDay = 1
    Equities = {1, 2}
    SlippageAfter = 1
    OutageAfter = 2
    EscalateAfter = 1
    PreviewAfter = 1
    MarkAllowsReduce = TRUE
    OperatorResets = TRUE
    HaltSources = {"guard_failure"}
    MaxFaults = 1
    SaveFaults = {"torn", "stale", "fails"}
SPECIFICATION HaltSpec
INVARIANTS PausesAreHonoured DailyLossHolds
PROPERTIES HaltsOutliveRestart LateHaltsMarkOrders
