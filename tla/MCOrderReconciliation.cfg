CONSTANTS
    c1 = c1
    v1 = v1
    small = small
    large = large
    NoRow = NoRow
    NoOrder = NoOrder
    NoAnswer = NoAnswer
    Callers = {w1}
    ClientIds <- MCClientIds
    Keys <- MCKeys
    VenueId <- MCVenueId
    Payloads <- MCLarge
    Quantity <- MCLargeQuantity
    MaxFilled = 2
    MaxAttempts = 1
    DriftMax = 1
    StoreFails = TRUE
    EchoesClientId = TRUE
SPECIFICATION ReconSpec
PROPERTY WritersObserve
