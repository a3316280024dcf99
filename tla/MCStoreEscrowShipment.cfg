SPECIFICATION FairSpec
CONSTANTS
    Orders = {o1}
    TxHashes = {o1}
    Accounts = {buyer, payee}
    Payee = payee
    Buyer = buyer
    NoOne = NoOne
    Price = 1
    MaxAmount = 2
    MaxArrived = 1
    ReleaseWindow = 1
    ResponseWindow = 1
    ResolveWindow = 1
    MaxTime = 3
    HoldRetries = 1
    ReleaseRetries = 1
    MaxParcels = 2
    MaxFaults = 0
    MaxCrashes = 1
PROPERTIES
    ShipmentDrivesTheMoney
CHECK_DEADLOCK FALSE
