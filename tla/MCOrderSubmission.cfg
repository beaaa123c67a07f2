CONSTANTS
    c1 = c1
    v1 = v1
    small = small
    large = large
    NoRow = NoRow
    NoOrder = NoOrder
    Callers = {w1, w2}
    ClientIds <- MCClientIds
    Keys <- MCKeys
    VenueId <- MCVenueId
    Payloads <- MCPayloads
    Quantity <- MCQuantity
    MaxFilled = 2
    MaxAttempts = 2
    StoreFails = TRUE
    EchoesClientId = TRUE
SPECIFICATION Spec
SYMMETRY CallerSymmetry
INVARIANTS AtMostOneSubmission IntentBeforeOrder ReceiptsAreTrue SuccessIsReal
PROPERTIES ImplementsContract
