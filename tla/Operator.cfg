SPECIFICATION Spec
CONSTANTS
    Procs = {p1, p2}
    Commands <- MCRunAndReconcile
    Configs <- MCTwoSymbols
    NoConfig = NoConfig
    Days = {1}
    Outcomes = {"closed", "partial"}
    PlanStatuses = {"planned", "skipped"}
    Faults = {"timeout", "in_flight", "reject", "fetch_error"}
    Confirmations = {FALSE}
    EvaluateAt = FALSE
    Lookbacks <- MCLookback
INVARIANTS
    LedgerBeforeExchange
    OrdersTracked
    ResolvedIsFinal
    CompletedIsSettled
PROPERTY
    FillsWithOrders
