CONSTANTS
    c1 = c1
    v1 = v1
    small = small
    large = large
    NoRow = NoRow
    NoOrder = NoOrder
    NoAnswer = NoAnswer
    Callers = {w1}
    ClientIds <- MCClientIds
    Keys <- MCKeys
    VenueId <- MCVenueId
    Payloads <- MCSmall
    Quantity <- MCSmallQuantity
    MaxFilled = 1
    MaxAttempts = 2
    DriftMax = 2
    StoreFails = FALSE
    EchoesClientId = TRUE
SPECIFICATION LiveReconSpec
PROPERTIES OverlookedOrdersEscalate EscalationIsJustified EndedOrdersAreRecorded GhostsAreCleared
