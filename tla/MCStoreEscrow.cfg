\* One order through faults, a restart, parcels and a dispute.
SPECIFICATION FairSpec
CONSTANTS
    Orders = {o1}
    TxHashes = {o1}
    Accounts = {buyer, payee}
    Payee = payee
    Buyer = buyer
    NoOne = NoOne
    Price = 1
    MaxAmount = 2
    MaxArrived = 1
    ReleaseWindow = 1
    ResponseWindow = 1
    ResolveWindow = 1
    MaxTime = 2
    HoldRetries = 1
    ReleaseRetries = 1
    MaxParcels = 2
    MaxFaults = 2
    MaxCrashes = 1
INVARIANTS
    RecordMatchesChain
    ShippedMeansAllLeft
    HeldBeforeAnchored
PROPERTIES
    PaymentsGetHeld
    OwedReleaseHappens
CHECK_DEADLOCK FALSE
