SPECIFICATION FairSpec
CONSTANTS
    Procs = {p1}
    Commands <- MCTimerOnly
    Configs <- MCOneSymbol
    NoConfig = NoConfig
    Days <- MCTwoDays
    Outcomes = {"closed", "partial"}
    PlanStatuses = {"planned"}
    Faults = {}
    Confirmations = {FALSE}
    EvaluateAt = FALSE
    Lookbacks <- MCLookback
PROPERTY
    BlockIsLifted
