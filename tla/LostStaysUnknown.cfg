SPECIFICATION FairSpec
CONSTANTS
    Procs = {p1, p2}
    Commands <- MCRunAndReconcile
    Configs <- MCOneSymbol
    NoConfig = NoConfig
    Days <- MCTwoDays
    Outcomes = {"closed"}
    PlanStatuses = {"planned"}
    Faults = {"lost"}
    Confirmations = {FALSE}
    EvaluateAt = FALSE
    Lookbacks <- MCLookback
PROPERTY
    BlockIsLifted
