\* Two days and a bit, a day of four of the shortest ledgers; an entry that is
\* not extended would be gone after one ledger.
SPECIFICATION RailSpec
CONSTANTS
    RailKeys = {k1, k2}
    PerTx = 2
    RailPerDay = 3
    ValidUntil = 8
    Day = 4
    MinTtl = 1
    Threshold = 2
    ExtendTo = 4
    MaxFunds = 5
    MaxTime = 9
    MaxClose = 3
SYMMETRY Symmetry
INVARIANTS
    DailyLimit
