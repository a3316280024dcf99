\* Two orders share one pool and may name either payment; the time suffices for
\* every window of an order to open and close, and a late one saturates.
SPECIFICATION FairSpec
CONSTANTS
    Orders = {o1, o2}
    TxHashes = {t1, t2}
    Accounts = {buyer, payee}
    Payee = payee
    NoOne = NoOne
    MaxAmount = 2
    MaxArrived = 2
    ReleaseWindow = 1
    ResponseWindow = 1
    ResolveWindow = 1
    MaxTime = 4
INVARIANTS
    AllocatedIsTheSumLocked
    Solvent
    PaidOnce
    OnePaymentOnePurchase
    OneRemedyAtATime
PROPERTIES
    TermsAreFinal
    KeepsItsPromise
    DisputesEnd
    OwedRefundsAreDelivered
