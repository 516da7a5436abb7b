SPECIFICATION Spec
CONSTANTS
    Procs = {p1}
    Commands <- MCTimerOnly
    Configs <- MCOneSymbol
    NoConfig = NoConfig
    Days = {1}
    Outcomes = {"closed"}
    PlanStatuses = {"planned"}
    Faults = {"crash"}
    Confirmations = {FALSE}
    EvaluateAt = FALSE
    Lookbacks <- MCLookback
INVARIANT
    OrdersTracked
