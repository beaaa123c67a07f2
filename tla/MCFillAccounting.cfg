CONSTANTS
    c1 = c1
    c2 = c2
    v1 = v1
    v2 = v2
    Keys <- MCKeys
    Payloads <- MCPayloads
    Quantity <- MCQuantity
    MaxFilled = 2
    NoRow = NoRow
    EchoesClientId = TRUE
    Owned = {v1}
    Foreign = {v2}
    Client <- MCClient
    Side <- MCSide
    Plan <- MCPlan
    Opening <- MCOpening
    FillLimit = 2
    MaxTime = 1
    None = None
SPECIFICATION AccountSpec
INVARIANTS NothingCountedTwice CompleteHasEveryFill CompleteIsExact CoveredReceiptsHold NoFillIsLockedOut
