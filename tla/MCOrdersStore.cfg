CONSTANTS
    id1 = id1
    id2 = id2
    small = small
    large = large
    NoRow = NoRow
    Keys <- MCKeys
    Payloads <- MCPayloads
    Quantity <- MCQuantity
    MaxFilled = 2
    EchoesClientId = FALSE
SPECIFICATION StoreSpec
INVARIANTS OrderIdsUnique
PROPERTIES ReceiptsOnlyGrow ReservationsSurvive
