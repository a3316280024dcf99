\* Three purchases against a day that has room for two, one lost answer, failed write or death.
SPECIFICATION Spec
CONSTANTS
    Requests = {r1, r2, r3}
    Keys = {k1}
    None = None
    Total = 2
    PerDay = 5
    Funding = 4
    Reserve = 8
    MaxDay = 1
    MaxFaults = 1
SYMMETRY RequestSymmetry
INVARIANTS
    PaidIsCounted
    WithinTheDay
    SponsoredOnce
    RepeatsAreReplayed
CHECK_DEADLOCK FALSE
