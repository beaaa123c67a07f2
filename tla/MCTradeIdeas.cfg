CONSTANTS
    d1 = d1
    d2 = d2
    Ideas <- MCIdeas
    Lanes = {l1}
    Revisions <- MCRevisions
    Budgets <- MCBudgets
    Losses = {2}
    MaxDay = 1
    None = None
    Unknown = Unknown
SYMMETRY Symmetric
SPECIFICATION Spec
PROPERTIES ApprovalsFitTheEnvelope MachineActsInBounds BreachEndsAutonomy
CHECK_DEADLOCK FALSE
