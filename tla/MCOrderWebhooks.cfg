\* One order, two generations of the app, two requests that may overlap, and
\* one upset: a death of the process, a change of the store or a failed build.
SPECIFICATION FairSpec
CONSTANTS
    Apps = {a1, a2}
    Gets = {g1, g2}
    Parcels = {p1}
    None = None
    Refunds = {"part"}
    MaxAttempts = 2
    MaxDeliveries = 1
    MaxUpsets = 1
INVARIANTS
    DeliveredInOrder
    EscrowToldOnce
    ReplacedIsIdle
PROPERTIES
    SettledIsTold
CHECK_DEADLOCK FALSE
\* Once two apps of the store ran at once the properties claim nothing more.
CONSTRAINT Separate
