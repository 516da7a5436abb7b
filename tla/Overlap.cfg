SPECIFICATION Spec
CONSTANTS
    Procs = {p1, p2}
    Commands <- MCRuns
    Configs <- MCOneSymbol
    NoConfig = NoConfig
    Days <- MCTwoDays
    Outcomes = {"closed"}
    PlanStatuses = {"planned"}
    Faults = {}
    Confirmations = {FALSE}
    EvaluateAt = TRUE
    Lookbacks <- MCLookback
SYMMETRY MCSymmetry
INVARIANTS
    TypeOK
    NoDoubleSell
    NoDateSoldTwice
    SimulationNeverSells
PROPERTY
    SellsOnce
