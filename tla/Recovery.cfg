SPECIFICATION FairSpec
CONSTANTS
    Procs = {p1, p2}
    Commands <- MCRunAndReconcile
    Configs <- MCOneSymbol
    NoConfig = NoConfig
    Days = {1}
    Outcomes = {"closed", "partial"}
    PlanStatuses = {"planned"}
    Faults = {"crash", "timeout", "in_flight", "fetch_error"}
    Confirmations = {FALSE}
    EvaluateAt = FALSE
    Lookbacks <- MCLookback
PROPERTY
    BlockIsLifted
