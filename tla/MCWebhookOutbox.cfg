\* Two events and one endpoint; two passes of up to two rows overlap.
SPECIFICATION FairSpec
CONSTANTS
    Mandates = {m1}
    Purchases = {p1}
    Endpoints = {e1}
    Subscriptions <- RevokedAndSettled
    Passes = {d1, d2}
    None = None
    Batch = 2
    MaxAttempts = 2
    Lease = 2
    MaxFaults = 1
INVARIANTS
    LeaseProtects
    AttemptsEnd
PROPERTIES
    OwedIsSettled
CHECK_DEADLOCK FALSE
