CONSTANTS
    o1 = o1
    o2 = o2
    r1 = r1
    r2 = r2
    Openers = {o1, o2}
    Reducers = {}
    Target <- MCNoTarget
    Quantity <- MCUnits
    Cycle = Cycle
    Others = {lane}
    Operators = {}
    MaxCrashes = 1
    None = None
SPECIFICATION FairExecSpec
PROPERTIES FilledReceiptsAreRecorded ExpiredIdeasAreAttributed ApprovedIdeasAreHandled
