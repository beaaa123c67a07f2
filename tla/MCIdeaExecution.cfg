CONSTANTS
    o1 = o1
    o2 = o2
    r1 = r1
    r2 = r2
    Openers = {o1}
    Reducers = {r1, r2}
    Target <- MCTarget
    Quantity <- MCQuantity
    Cycle = Cycle
    Others = {lane}
    Operators = {"cancel", "mark", "store"}
    MaxCrashes = 1
    None = None
SPECIFICATION ExecSpec
INVARIANTS OneOrderPerIdea JournalMatchesAudit PositionsAreSound
PROPERTY LedgerIsKept
