\* Two merchants, two receipts: disputes of one or of both at the same time.
SPECIFICATION Spec
CONSTANTS
    Hashes = {h1, h2}
    Merchants = {m1, m2}
    Payers = {buyer}
    NoOne = NoOne
    MaxAmount = 2
    MaxFunds = 3
    ClaimWindow = 1
    MaxTime = 3
SYMMETRY Symmetry
INVARIANTS
    LockedIsTheOpenDisputes
    GuaranteesAreBacked
    EachPaysItsOwn
    ReceiptsAreCounted
