\* Two requests on two sessions, with two payments, a failing call and a crash.
SPECIFICATION Spec
CONSTANTS
    Sessions = {s1, s2}
    Payments = {p1, p2}
    Requests = {r1, r2}
    None = None
    Amount <- AmountOfTwo
    Units = {1}
    Prices = {2}
    Stock = 2
    MaxMoves = 0
    MaxFaults = 1
    MaxCrashes = 1
SYMMETRY Symmetry
INVARIANTS
    ChargedOnce
    PaidIsNeverPayable
    CompletedHasItsOrder
    HeldByRequests
PROPERTIES
    OneOrderPerSettlement
CHECK_DEADLOCK FALSE
