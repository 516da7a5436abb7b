SPECIFICATION Spec
CONSTANTS
    Procs = {p1}
    Commands <- MCAll
    Configs <- MCOneSymbol
    NoConfig = NoConfig
    Days <- MCTwoDays
    Outcomes = {"closed"}
    PlanStatuses = {"planned"}
    Faults = {"crash"}
    Confirmations = {FALSE}
    EvaluateAt = FALSE
    Lookbacks <- MCLookback
PROPERTY
    BlockIsHeeded
