SPECIFICATION Spec
CONSTANTS
    Symbols = {1, 2}
    Settings <- MCSettings
    Market <- MCMarket
    Quotes <- MCQuotes
    Accounts <- MCAccounts
    Procs = {p1, p2}
    Shifts <- MCShifts
    Ranges <- MCRanges
    Given = {3}
    Moved = {1}
INVARIANTS
    TypeOK
    OnSchedule
    BasisIsSnapshot
    StampedBeforeFetched
    FinishedDaysPriced
PROPERTY
    ReserveKept
