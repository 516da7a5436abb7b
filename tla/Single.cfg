SPECIFICATION Spec
CONSTANTS
    Procs = {p1}
    Commands <- MCAll
    Configs <- MCWeekly
    NoConfig = NoConfig
    Days <- MCTwoWeeks
    Outcomes = {"closed", "canceled", "partial"}
    PlanStatuses = {"planned", "blocked"}
    Faults = {"crash", "lost", "late_error"}
    Confirmations = {TRUE, FALSE}
    EvaluateAt = FALSE
    Lookbacks <- MCLookback
PROPERTIES
    FirstSellConfirmed
    BlockedWhileUnresolved
    ResolvedStays
