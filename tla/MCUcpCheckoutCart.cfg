\* One session whose cart and price change until both totals are the payment's.
SPECIFICATION Spec
CONSTANTS
    Sessions = {s1}
    Payments = {p1, p2}
    Requests = {r1, r2}
    None = None
    Amount <- AmountOfTwo
    Units = {1, 2}
    Prices = {1, 2}
    Stock = 3
    MaxMoves = 3
    MaxFaults = 1
    MaxCrashes = 1
SYMMETRY Symmetry
INVARIANTS
    SettledIsAccounted
CHECK_DEADLOCK FALSE
