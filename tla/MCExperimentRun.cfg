CONSTANTS
    p1 = p1
    p2 = p2
    Procs <- MCProcs
    manager = manager
    author = author
    Runs <- MCRuns
    Managers = {manager}
    Bars <- MCBars
    ScoredFrom = 0
    Cadence = 1
    Cap = 3
    Prices = {1, 2}
    MaxCalls = 3
    None = None
SPECIFICATION RunSpec
INVARIANTS SpendStaysUnderCap CommittedTurnsAreNotResent ReadingsFindNoBreach AccountsAreSound
SYMMETRY MCSymmetry
CHECK_DEADLOCK FALSE
