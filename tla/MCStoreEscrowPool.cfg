\* Two orders share the signing account and the escrow's unallocated balance.
SPECIFICATION Spec
CONSTANTS
    Orders = {o1, o2}
    TxHashes = {o1, o2}
    Accounts = {buyer, payee}
    Payee = payee
    Buyer = buyer
    NoOne = NoOne
    Price = 1
    MaxAmount = 2
    MaxArrived = 2
    ReleaseWindow = 1
    ResponseWindow = 1
    ResolveWindow = 1
    MaxTime = 1
    HoldRetries = 1
    ReleaseRetries = 1
    MaxParcels = 1
    MaxFaults = 1
    MaxCrashes = 0
SYMMETRY Symmetry
INVARIANTS
    HoldsStayFunded
CHECK_DEADLOCK FALSE
