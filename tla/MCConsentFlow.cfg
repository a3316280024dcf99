\* Two tabs of two wallets on one invitation, two starts, and one request that dies, is
\* answered late or carries what is not its own.
SPECIFICATION Spec
CONSTANTS
    Tabs = {t1, t2}
    Wallets = {w1, w2}
    Platform = platform
    Docs = {d1, d2}
    None = None
    MaxFaults = 1
SYMMETRY ConsentSymmetry
INVARIANTS
    RecordedIsAnchored
    RevocationHolds
PROPERTIES
    CompletedOnce
CHECK_DEADLOCK FALSE
