SPECIFICATION Spec
CONSTANTS
    Symbols = {1, 2}
    Settings <- MCCapped
    Market <- MCMarket
    Quotes <- MCQuotes
    Accounts <- MCAccounts
    Procs = {p1}
    Shifts <- MCTimerOnly
    Ranges <- MCRanges
    Given = {}
    Moved = {1}
INVARIANT
    CycleWithinCap
CHECK_DEADLOCK FALSE
