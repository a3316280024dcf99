------------------------- MODULE StoreEscrowProofs --------------------------
(***************************************************************************)
(* What a store's record says of its escrowed orders is true on the ledger, *)
(* for any number of orders, faults and restarts.                           *)
(***************************************************************************)
EXTENDS StoreEscrow, FiniteSetTheorems, TLAPS

Kinds == {"ship", "release"}
Calls == {"hold", "anchor"} \cup Kinds
OrderRecord ==
    [hold : {"none", "pending", "held", "failed"}, holdAttempts : Nat,
     anchor : {"none", "pending", "anchored", "failed"}, anchorAttempts : Nat,
     fulfillment : {"none", "partial", "fulfilled", "canceled"},
     release : {"none", "pending", "shipped", "released", "disputed", "failed"},
     attempts : Nat, shippedAt : BOOLEAN]
Step == [kind : {"none"} \cup Kinds, at : {"idle", "send", "sent", "settle"},
         seen : Escrow!Status]
Answer == {a \in [state : {"none", "partial", "fulfilled"}, left : Nat, owed : BOOLEAN] :
               a.owed => a.left > 0}

LedgerType ==
    /\ now \in 1..MaxTime
    /\ balance \in Int
    /\ allocated \in Int
    /\ purchase \in [Orders -> Escrow!Purchase]

TypeOK ==
    /\ LedgerType
    /\ registry \in SUBSET Orders
    /\ ghosts \in SUBSET (Calls \X Orders)
    /\ order \in [Orders -> OrderRecord]
    /\ work \in SUBSET Orders
    /\ pass \in [order : Orders \cup {NoOne},
                 at : {"idle", "hold", "held", "anchor", "anchored"}]
    /\ asking \in [Orders -> Answer]
    /\ queue \in [Orders -> Seq(Kinds)]
    /\ step \in [Orders -> Step]
    /\ timer \in [Orders -> {"none"} \cup Kinds]
    /\ platform \in [Orders -> {"open", "partial", "fulfilled", "canceled"}]

(* Nothing is under way for an order that was not placed. *)
Fresh(o) ==
    order[o].hold = "none" =>
        /\ order[o] = NoOrder
        /\ ~OnChain(o)
        /\ asking[o] = NoAnswer
        /\ step[o] = NoStep
        /\ o \notin work
        /\ pass.order # o
        /\ \A kind \in Calls : <<kind, o>> \notin ghosts

(* A purchase is on the store's own terms, and its status has its date.
   None of it is there before the hold.                                     *)
DisputedStatus == {"Disputed", "Responded", "Resolved", "Expired"}
PurchaseAgrees(o) ==
    LET p == purchase[o]
    IN  /\ IF OnChain(o) THEN p.payer = Buyer /\ p.amount = Price /\ p.tx_hash = o
                         ELSE p.shipped_at = 0 /\ p.opened_at = 0
        /\ p.status = "Shipped" => p.shipped_at > 0
        /\ p.status \in DisputedStatus => p.opened_at > 0

(* A pass that got this far left it on the ledger. *)
PassAgrees(o) ==
    pass.order = o =>
        /\ pass.at = "held" => OnChain(o)
        /\ pass.at = "anchored" => o \in registry

(* What a release step saw is still so. *)
StepAgrees(o) ==
    LET p == purchase[o]
        seen == step[o].seen
    IN  /\ step[o] # NoStep => step[o].kind \in Kinds
        /\ seen = "Shipped" => p.shipped_at > 0
        /\ seen = "Released" => p.status = "Released"
        /\ seen \in DisputedStatus => p.opened_at > 0

(* Whatever says or supposes that all of it left is right. *)
LeftAgrees(o) ==
    (\/ order[o].fulfillment = "fulfilled"
     \/ asking[o].state = "fulfilled"
     \/ step[o].kind = "ship"
     \/ <<"ship", o>> \in ghosts
     \/ purchase[o].shipped_at > 0) => platform[o] = "fulfilled"

(* The receipt waits for the hold, and a hold gives up for good. *)
MayAnchor(o) == OnChain(o) \/ order[o].hold = "failed"
AnchorAgrees(o) ==
    /\ (\/ o \in registry
        \/ <<"anchor", o>> \in ghosts
        \/ pass.order = o /\ pass.at \in {"anchor", "anchored"}) => MayAnchor(o)
    /\ order[o].hold = "failed" => order[o].holdAttempts > HoldRetries

RecordAgrees(o) ==
    LET r == order[o]
        p == purchase[o]
    IN  /\ r.hold = "held" => OnChain(o)
        /\ r.anchor = "anchored" => o \in registry
        /\ r.release = "shipped" => p.shipped_at > 0
        /\ r.release = "released" => p.status = "Released"
        /\ r.release = "disputed" => p.opened_at > 0

Agrees(o) ==
    /\ Fresh(o)
    /\ PurchaseAgrees(o)
    /\ PassAgrees(o)
    /\ StepAgrees(o)
    /\ LeftAgrees(o)
    /\ AnchorAgrees(o)
    /\ RecordAgrees(o)

IInv ==
    /\ TypeOK
    /\ \A o \in Orders : Agrees(o)
    /\ HoldsStayFunded

-----------------------------------------------------------------------------
(* The ledger: what each call of the contract does to one purchase. *)

Others(o) == \A x \in Orders \ {o} : purchase'[x] = purchase[x]
Steady == balance' - allocated' = balance - allocated

(* A purchase goes on: same terms, no date lost, a release stays. *)
Proceeds(o) ==
    LET p == purchase[o]
        q == purchase'[o]
    IN  /\ p.status # "None" /\ q.status # "None"
        /\ q.payer = p.payer /\ q.amount = p.amount /\ q.tx_hash = p.tx_hash
        /\ q.shipped_at = p.shipped_at
        /\ p.opened_at > 0 => q.opened_at > 0
        /\ p.status = "Released" => q.status = "Released"
        /\ q.status = "Shipped" => q.shipped_at > 0
        /\ q.status \in DisputedStatus => q.opened_at > 0

(* A purchase stays one through what a call writes. *)
LEMMA PurchaseUpdates ==
    ASSUME NEW p \in Escrow!Purchase, NEW status \in Escrow!Status
    PROVE  /\ \A refund, owed \in 0..MaxAmount :
                 [p EXCEPT !.status = status, !.refund = refund, !.refund_owed = owed]
                     \in Escrow!Purchase
           /\ \A t \in 0..MaxTime :
                 /\ [p EXCEPT !.status = status, !.opened_at = t] \in Escrow!Purchase
                 /\ [p EXCEPT !.status = status, !.shipped_at = t] \in Escrow!Purchase
BY DEF Escrow!Purchase

(* Closing a purchase pays out what it had allocated, and nothing else. *)
LEMMA CloseLands ==
    ASSUME LedgerType, NEW o \in Orders, PurchaseAgrees(o), OnChain(o),
           purchase[o].status # "Released",
           NEW status \in {"Released", "Resolved", "Expired"}, NEW refund \in 0..MaxAmount,
           status # "Released" => purchase[o].opened_at > 0,
           Escrow!Close(o, status, refund)
    PROVE  LedgerType' /\ Others(o) /\ Steady /\ Proceeds(o)
<1> USE StoreAssumption
<1> DEFINE owed == Escrow!Owed(o, refund)
<1>1. owed \in 0..MaxAmount
  BY DEF Escrow!Owed
<1>2. purchase \in [Orders -> Escrow!Purchase] /\ purchase[o].amount \in 0..MaxAmount
  BY DEF LedgerType, Escrow!Purchase
<1>3. /\ purchase' = [purchase EXCEPT ![o].status = status, ![o].refund = refund,
                                      ![o].refund_owed = owed]
      /\ allocated' = (allocated - purchase[o].amount) + owed
      /\ balance' = (balance - (refund - owed)) - (purchase[o].amount - refund)
      /\ now' = now
  BY DEF Escrow!Close
<1> HIDE DEF owed
<1>4. /\ purchase' \in [Orders -> Escrow!Purchase]
      /\ Others(o)
  <2>1. purchase' = [purchase EXCEPT ![o] = [purchase[o] EXCEPT
              !.status = status, !.refund = refund, !.refund_owed = owed]]
    BY <1>2, <1>3
  <2>2. status \in Escrow!Status
    BY DEF Escrow!Status, Escrow!ClosedStatus
  <2>3. [purchase[o] EXCEPT !.status = status, !.refund = refund, !.refund_owed = owed]
            \in Escrow!Purchase
    BY <1>1, <1>2, <2>2, PurchaseUpdates
  <2> QED BY <1>2, <2>1, <2>3 DEF Others
<1>5. Proceeds(o)
  BY <1>2, <1>3 DEF Proceeds, PurchaseAgrees, OnChain, Escrow!Purchase, DisputedStatus
<1> QED BY <1>1, <1>2, <1>3, <1>4, <1>5 DEF LedgerType, Steady

(* A release closes a shipped purchase for the store. *)
LEMMA ReleaseLands ==
    ASSUME LedgerType, NEW o \in Orders, PurchaseAgrees(o), Escrow!Release(o)
    PROVE  LedgerType' /\ Others(o) /\ Steady /\ Proceeds(o)
BY CloseLands, StoreAssumption DEF Escrow!Release, Escrow!MayRelease, OnChain

(* Every move of the payer, the payee, the arbiter or anyone. *)
LEMMA LedgerMoveLands ==
    ASSUME LedgerType, NEW o \in Orders, PurchaseAgrees(o),
           \/ Escrow!OpenDispute(o)
           \/ Escrow!Respond(o)
           \/ \E refund \in {0, Price} : Escrow!Resolve(o, refund)
           \/ Escrow!Expire(o)
           \/ Escrow!Release(o)
    PROVE  LedgerType' /\ Others(o) /\ Steady /\ Proceeds(o)
<1> USE StoreAssumption
<1>1. purchase \in [Orders -> Escrow!Purchase] /\ purchase[o].amount \in 0..MaxAmount
  BY DEF LedgerType, Escrow!Purchase
<1>2. CASE Escrow!OpenDispute(o)
  <2>1. /\ purchase' = [purchase EXCEPT ![o].status = "Disputed", ![o].opened_at = now]
        /\ purchase[o].status \in {"Held", "Shipped"}
        /\ UNCHANGED <<now, allocated, balance>>
    BY <1>2 DEF Escrow!OpenDispute, Escrow!MayOpenDispute, Escrow!tokenVars
  <2>2. purchase' \in [Orders -> Escrow!Purchase] /\ Others(o)
    <3>1. purchase' = [purchase EXCEPT ![o] =
                         [purchase[o] EXCEPT !.status = "Disputed", !.opened_at = now]]
      BY <1>1, <2>1
    <3>2. "Disputed" \in Escrow!Status /\ now \in 0..MaxTime
      BY DEF Escrow!Status, Escrow!OpenStatus, LedgerType
    <3>3. [purchase[o] EXCEPT !.status = "Disputed", !.opened_at = now] \in Escrow!Purchase
      BY <1>1, <3>2, PurchaseUpdates
    <3> QED BY <1>1, <3>1, <3>3 DEF Others
  <2>3. Proceeds(o)
    BY <1>1, <2>1 DEF LedgerType, Proceeds, Escrow!Purchase, DisputedStatus
  <2> QED BY <2>1, <2>2, <2>3 DEF LedgerType, Steady
<1>3. CASE Escrow!Respond(o)
  <2>1. /\ purchase' = [purchase EXCEPT ![o].status = "Responded"]
        /\ purchase[o].status = "Disputed"
        /\ UNCHANGED <<now, allocated, balance>>
    BY <1>3 DEF Escrow!Respond, Escrow!MayRespond, Escrow!tokenVars
  <2>2. purchase' \in [Orders -> Escrow!Purchase] /\ Others(o)
    BY <1>1, <2>1 DEF LedgerType, Escrow!Purchase, Escrow!Status, Escrow!OpenStatus, Others
  <2>3. Proceeds(o)
    BY <1>1, <2>1 DEF LedgerType, Proceeds, PurchaseAgrees, Escrow!Purchase, DisputedStatus
  <2> QED BY <2>1, <2>2, <2>3 DEF LedgerType, Steady
<1>4. ASSUME NEW refund \in {0, Price}, Escrow!Resolve(o, refund)
      PROVE  LedgerType' /\ Others(o) /\ Steady /\ Proceeds(o)
  BY <1>1, <1>4, CloseLands DEF Escrow!Resolve, Escrow!MayResolve, PurchaseAgrees,
                                  OnChain, DisputedStatus
<1>5. CASE Escrow!Expire(o)
  BY <1>1, <1>5, CloseLands DEF Escrow!Expire, Escrow!MayExpire, PurchaseAgrees,
                                  OnChain, DisputedStatus
<1> QED BY <1>2, <1>3, <1>4, <1>5, ReleaseLands

(* The hold of an order takes its price out of what is unallocated. *)
LEMMA HoldLands ==
    ASSUME LedgerType, NEW o \in Orders, Escrow!Hold(o, Buyer, Price, o)
    PROVE  /\ LedgerType' /\ Others(o)
           /\ ~OnChain(o)
           /\ purchase'[o] = Escrow!NewPurchase(Buyer, Price, o, "Held")
           /\ balance' - allocated' = (balance - allocated) - Price
<1> USE StoreAssumption
<1>1. /\ purchase' = [purchase EXCEPT ![o] = Escrow!NewPurchase(Buyer, Price, o, "Held")]
      /\ purchase[o].status = "None"
      /\ allocated' = allocated + Price
      /\ UNCHANGED <<now, balance>>
  BY DEF Escrow!Hold, Escrow!Record, Escrow!tokenVars
<1>2. Escrow!NewPurchase(Buyer, Price, o, "Held") \in Escrow!Purchase
  BY DEF Escrow!NewPurchase, Escrow!Purchase, Escrow!Status, Escrow!OpenStatus
<1> QED BY <1>1, <1>2 DEF LedgerType, Others, OnChain

(* mark_shipped dates a held purchase. *)
LEMMA ShipLands ==
    ASSUME LedgerType, NEW o \in Orders, PurchaseAgrees(o), Escrow!MarkShipped(o)
    PROVE  /\ LedgerType' /\ Others(o) /\ Steady
           /\ purchase[o].status = "Held"
           /\ purchase'[o] = [purchase[o] EXCEPT !.status = "Shipped", !.shipped_at = now]
<1> USE StoreAssumption
<1>1. /\ purchase' = [purchase EXCEPT ![o].status = "Shipped", ![o].shipped_at = now]
      /\ purchase[o].status = "Held"
      /\ UNCHANGED <<now, balance, allocated>>
  BY DEF Escrow!MarkShipped, Escrow!tokenVars
<1>2. purchase' = [purchase EXCEPT ![o] =
                     [purchase[o] EXCEPT !.status = "Shipped", !.shipped_at = now]]
  BY <1>1 DEF LedgerType
<1>3. "Shipped" \in Escrow!Status /\ now \in 0..MaxTime
  BY DEF Escrow!Status, Escrow!OpenStatus, LedgerType
<1>4. [purchase[o] EXCEPT !.status = "Shipped", !.shipped_at = now] \in Escrow!Purchase
  BY <1>3, PurchaseUpdates DEF LedgerType
<1> QED BY <1>1, <1>2, <1>4 DEF LedgerType, Others, Steady

-----------------------------------------------------------------------------
(* An order no part of a step is about. *)
Untouched(x) ==
    /\ order'[x] = order[x]
    /\ purchase'[x] = purchase[x]
    /\ asking'[x] = asking[x]
    /\ step'[x] = step[x]
    /\ platform'[x] = platform[x]
    /\ x \in registry' <=> x \in registry
    /\ x \in work' => x \in work
    /\ pass' = pass \/ pass'.order # x
    /\ \A kind \in Calls : <<kind, x>> \in ghosts' => <<kind, x>> \in ghosts

(* Nothing changes for an order no part of a step is about. *)
LEMMA Frame ==
    ASSUME NEW x \in Orders, Agrees(x), Untouched(x)
    PROVE  Agrees(x)'
<1>1. Fresh(x)' /\ PassAgrees(x)'
  BY DEF Agrees, Untouched, Fresh, PassAgrees, OnChain
<1>2. PurchaseAgrees(x)' /\ StepAgrees(x)' /\ RecordAgrees(x)'
  BY DEF Agrees, Untouched, PurchaseAgrees, StepAgrees, RecordAgrees, OnChain
<1>3. LeftAgrees(x)' /\ AnchorAgrees(x)'
  BY DEF Agrees, Untouched, LeftAgrees, AnchorAgrees, MayAnchor, OnChain, Calls, Kinds
<1> QED BY <1>1, <1>2, <1>3 DEF Agrees

Waiting == {o \in Orders : order[o] # NoOrder /\ ~OnChain(o)}

(* The orders still to be held are counted. *)
LEMMA WaitingIsFinite == IsFiniteSet(Waiting) /\ Cardinality(Waiting) \in Nat
BY FS_Subset, FS_CardinalityType, StoreAssumption DEF Waiting

(* A step that places no order and records no purchase keeps the pool. *)
LEMMA FundsKeep ==
    ASSUME HoldsStayFunded, Steady,
           \A x \in Orders : /\ order'[x] = NoOrder <=> order[x] = NoOrder
                             /\ purchase'[x].status = "None" <=> purchase[x].status = "None"
    PROVE  HoldsStayFunded'
<1>1. Waiting' = Waiting
  BY DEF Waiting, OnChain
<1> QED BY <1>1 DEF HoldsStayFunded, Waiting, Steady

(* A purchase recorded takes one price out of the pool and one order out of
   the queue for it.                                                        *)
LEMMA FundsDraw ==
    ASSUME HoldsStayFunded, NEW o \in Orders,
           balance' - allocated' = (balance - allocated) - Price,
           o \in Waiting, purchase'[o].status # "None", Others(o), UNCHANGED order
    PROVE  HoldsStayFunded'
<1> USE StoreAssumption
<1>1. Waiting' = Waiting \ {o}
  BY DEF Waiting, OnChain, Others
<1>2. Cardinality(Waiting \ {o}) = Cardinality(Waiting) - 1
  BY WaitingIsFinite, FS_RemoveElement
<1>3. Price * (Cardinality(Waiting) - 1) = Price * Cardinality(Waiting) - Price
  BY WaitingIsFinite
<1> QED BY <1>1, <1>2, <1>3 DEF HoldsStayFunded, Waiting

(* An order placed brings its price. *)
LEMMA FundsArrive ==
    ASSUME HoldsStayFunded, NEW o \in Orders,
           balance' - allocated' = (balance - allocated) + Price,
           order[o] = NoOrder, ~OnChain(o), order'[o] # NoOrder,
           \A x \in Orders \ {o} : order'[x] = order[x], UNCHANGED purchase
    PROVE  HoldsStayFunded'
<1> USE StoreAssumption
<1>1. Waiting' = Waiting \cup {o} /\ o \notin Waiting
  BY DEF Waiting, OnChain
<1>2. Cardinality(Waiting \cup {o}) = Cardinality(Waiting) + 1
  BY <1>1, WaitingIsFinite, FS_AddElement
<1>3. Price * (Cardinality(Waiting) + 1) = Price * Cardinality(Waiting) + Price
  BY WaitingIsFinite
<1> QED BY <1>1, <1>2, <1>3 DEF HoldsStayFunded, Waiting

(* What a step about order o has to show. *)
LEMMA StepOfOne ==
    ASSUME IInv, NEW o \in Orders, TypeOK', Agrees(o)', HoldsStayFunded',
           \A x \in Orders \ {o} : Untouched(x)
    PROVE  IInv'
BY Frame DEF IInv

(* The same when only what the store knows of a placed order changes. *)
LEMMA RecordOfOne ==
    ASSUME IInv, NEW o \in Orders, TypeOK', Agrees(o)', UNCHANGED ledgerVars,
           order'[o].hold # "none" \/ order'[o] = order[o],
           order[o].hold # "none" \/ order'[o] = order[o],
           \A x \in Orders \ {o} : Untouched(x)
    PROVE  IInv'
<1>1. /\ UNCHANGED purchase /\ Steady
      /\ \A x \in Orders : order'[x] = NoOrder <=> order[x] = NoOrder
  BY DEF ledgerVars, Steady, NoOrder, Untouched
<1>2. HoldsStayFunded'
  BY <1>1, FundsKeep DEF IInv
<1> QED BY <1>2, StepOfOne

(* It holds at the start. *)
LEMMA InitEstablishes == Init => IInv
<1> SUFFICES ASSUME Init PROVE IInv
  OBVIOUS
<1> USE StoreAssumption
<1>1. /\ purchase = [o \in Orders |-> Escrow!NoPurchase]
      /\ balance = 0 /\ allocated = 0 /\ now = 1
  BY DEF Init, Escrow!Init
<1>2. Escrow!NoPurchase \in Escrow!Purchase
  BY DEF Escrow!NoPurchase, Escrow!NewPurchase, Escrow!Purchase, Escrow!Status
<1>3. NoOrder \in OrderRecord /\ NoStep \in Step
  BY DEF NoOrder, OrderRecord, NoStep, Step, Kinds, Escrow!Status
<1>4. TypeOK
  BY <1>1, <1>2, <1>3 DEF Init, TypeOK, LedgerType, NoPass, NoAnswer, Answer
<1>5. ASSUME NEW o \in Orders PROVE Agrees(o)
  BY <1>1 DEF Init, Agrees, Fresh, PurchaseAgrees, PassAgrees, StepAgrees, LeftAgrees,
     AnchorAgrees, MayAnchor, RecordAgrees, OnChain, NoOrder, NoStep, NoPass, NoAnswer,
     DisputedStatus, Escrow!NoPurchase, Escrow!NewPurchase
<1>6. HoldsStayFunded
  <2>1. Waiting = {}
    BY DEF Init, Waiting
  <2> QED BY <1>1, <2>1, FS_EmptySet DEF HoldsStayFunded, Waiting
<1> QED BY <1>4, <1>5, <1>6 DEF IInv

-----------------------------------------------------------------------------
(* Checkout and the AnchorWorker. *)

(* An order's record stays one through what a worker writes. *)
LEMMA HoldUpdates ==
    ASSUME NEW r \in OrderRecord, NEW state \in {"pending", "held", "failed"}, NEW n \in Nat
    PROVE  [r EXCEPT !.hold = state, !.holdAttempts = n] \in OrderRecord
BY DEF OrderRecord

(* The same for an attempt to anchor. *)
LEMMA AnchorUpdates ==
    ASSUME NEW r \in OrderRecord, NEW state \in {"pending", "anchored", "failed"}, NEW n \in Nat
    PROVE  [r EXCEPT !.anchor = state, !.anchorAttempts = n] \in OrderRecord
BY DEF OrderRecord

(* A checkout brings the price and the order together. *)
LEMMA PlaceStep ==
    ASSUME IInv, NEW o \in Orders, Place(o)
    PROVE  IInv'
<1> USE StoreAssumption
<1>1. /\ order[o] = NoOrder /\ Agrees(o) /\ TypeOK
      /\ balance' = balance + Price
      /\ UNCHANGED <<now, allocated, purchase, registry, ghosts, pass, asking, queue, step,
                     timer, platform>>
      /\ work' = work \cup {o}
  BY DEF IInv, Place, Escrow!Arrive, Escrow!contractVars, releaseVars, outside
<1>2. /\ order' = [order EXCEPT ![o] = [NoOrder EXCEPT !.hold = "pending", !.anchor = "pending"]]
      /\ [NoOrder EXCEPT !.hold = "pending", !.anchor = "pending"] \in OrderRecord
  BY <1>1 DEF TypeOK, Place, OrderRecord, NoOrder
<1>3. TypeOK'
  <2>1. order' \in [Orders -> OrderRecord]
    BY <1>1, <1>2 DEF TypeOK
  <2>2. LedgerType'
    BY <1>1 DEF TypeOK, LedgerType
  <2>3. work' \in SUBSET Orders
    BY <1>1 DEF TypeOK
  <2> QED BY <1>1, <2>1, <2>2, <2>3 DEF TypeOK
<1>4. /\ \A x \in Orders \ {o} : order'[x] = order[x]
      /\ order'[o] # NoOrder
  BY <1>1, <1>2 DEF TypeOK, NoOrder
<1>5. HoldsStayFunded'
  <2>1. ~OnChain(o)
    BY <1>1 DEF Agrees, Fresh, NoOrder
  <2>2. balance' - allocated' = (balance - allocated) + Price
    BY <1>1 DEF TypeOK, LedgerType
  <2> QED BY <1>1, <1>4, <2>1, <2>2, FundsArrive DEF IInv
<1>6. Agrees(o)'
  BY <1>1, <1>2 DEF TypeOK, Agrees, Fresh, PurchaseAgrees, PassAgrees, StepAgrees, LeftAgrees,
     AnchorAgrees, MayAnchor, RecordAgrees, OnChain, NoOrder
<1>7. \A x \in Orders \ {o} : Untouched(x)
  BY <1>1, <1>4 DEF Untouched
<1> QED BY <1>3, <1>5, <1>6, <1>7, StepOfOne

(* A pass starts at the hold, or at the anchor once it is held. *)
LEMMA BeginPassStep ==
    ASSUME IInv, NEW o \in Orders, BeginPass(o)
    PROVE  IInv'
<1> USE StoreAssumption
<1>1. /\ Agrees(o) /\ TypeOK
      /\ UNCHANGED <<ledgerVars, registry, ghosts, order, asking, queue, step, timer, platform>>
      /\ o \in work /\ work' = work \ {o} /\ pass = NoPass
      /\ \/ pass' = NoPass
         \/ order[o].hold # "held" /\ pass' = [order |-> o, at |-> "hold"]
         \/ order[o].hold = "held" /\ pass' = [order |-> o, at |-> "anchor"]
  BY DEF IInv, BeginPass, chainVars, releaseVars, outside
<1>2. TypeOK'
  BY <1>1 DEF TypeOK, LedgerType, ledgerVars, NoPass
<1>3. Agrees(o)'
  BY <1>1 DEF TypeOK, Agrees, Fresh, PurchaseAgrees, PassAgrees, StepAgrees, LeftAgrees,
     AnchorAgrees, MayAnchor, RecordAgrees, OnChain, NoPass, ledgerVars
<1>4. \A x \in Orders \ {o} : Untouched(x)
  BY <1>1 DEF Untouched, NoPass, ledgerVars
<1> QED BY <1>1, <1>2, <1>3, <1>4, RecordOfOne

(* A hold that lands is this order's purchase. *)
LEMMA SendHoldStep ==
    ASSUME IInv, NEW o \in Orders, SendHold(o)
    PROVE  IInv'
<1> USE StoreAssumption
<1>1. /\ Agrees(o) /\ TypeOK
      /\ UNCHANGED <<registry, order, work, asking, queue, step, timer, platform>>
      /\ pass = [order |-> o, at |-> "hold"] /\ pass' = [order |-> o, at |-> "held"]
      /\ order[o].hold # "none"
  BY DEF IInv, SendHold, releaseVars, outside, Agrees, Fresh
<1>2. CASE UNCHANGED <<ledgerVars, ghosts>> /\ purchase[o].status # "None"
  <2>1. TypeOK'
    BY <1>1, <1>2 DEF TypeOK, LedgerType, ledgerVars
  <2>2. Agrees(o)'
    BY <1>1, <1>2 DEF TypeOK, Agrees, Fresh, PurchaseAgrees, PassAgrees, StepAgrees,
       LeftAgrees, AnchorAgrees, MayAnchor, RecordAgrees, OnChain, ledgerVars
  <2>3. \A x \in Orders \ {o} : Untouched(x)
    BY <1>1, <1>2 DEF Untouched, ledgerVars
  <2> QED BY <1>1, <1>2, <2>1, <2>2, <2>3, RecordOfOne
<1>3. CASE HoldOrder(o) /\ ghosts' = {}
  <2>1. /\ LedgerType' /\ Others(o) /\ ~OnChain(o)
        /\ purchase'[o] = Escrow!NewPurchase(Buyer, Price, o, "Held")
        /\ balance' - allocated' = (balance - allocated) - Price
    BY <1>1, <1>3, HoldLands DEF TypeOK, HoldOrder
  <2>2. TypeOK'
    BY <1>1, <1>3, <2>1 DEF TypeOK
  <2>3. purchase'[o].status # "None" /\ o \in Waiting
    BY <1>1, <2>1 DEF Escrow!NewPurchase, Waiting, NoOrder
  <2>4. HoldsStayFunded'
    BY <1>1, <2>1, <2>3, FundsDraw DEF IInv
  <2>5. Agrees(o)'
    <3>1. PurchaseAgrees(o)' /\ OnChain(o)' /\ purchase'[o].shipped_at = 0
      BY <2>1 DEF PurchaseAgrees, OnChain, Escrow!NewPurchase, DisputedStatus
    <3>2. StepAgrees(o)' /\ RecordAgrees(o)'
      BY <1>1, <2>1, <3>1 DEF Agrees, StepAgrees, RecordAgrees, PurchaseAgrees, OnChain
    <3>3. LeftAgrees(o)'
      BY <1>1, <1>3, <3>1 DEF Agrees, LeftAgrees
    <3>4. Fresh(o)' /\ PassAgrees(o)' /\ AnchorAgrees(o)'
      BY <1>1, <1>3, <3>1 DEF Agrees, Fresh, PassAgrees, AnchorAgrees, MayAnchor
    <3> QED BY <3>1, <3>2, <3>3, <3>4 DEF Agrees
  <2>6. \A x \in Orders \ {o} : Untouched(x)
    BY <1>1, <1>3, <2>1 DEF Untouched, Others
  <2> QED BY <2>2, <2>4, <2>5, <2>6, StepOfOne
<1> QED BY <1>2, <1>3 DEF SendHold, Lands

(* The hold on record is on the ledger already. *)
LEMMA RecordHeldStep ==
    ASSUME IInv, NEW o \in Orders, RecordHeld(o)
    PROVE  IInv'
<1> USE StoreAssumption
<1>1. /\ Agrees(o) /\ TypeOK
      /\ UNCHANGED <<ledgerVars, registry, ghosts, work, asking, queue, step, timer, platform>>
      /\ pass = [order |-> o, at |-> "held"]
      /\ pass' \in {NoPass, [order |-> o, at |-> "anchor"]}
      /\ order[o].hold # "none"
  BY DEF IInv, RecordHeld, ThenAnchor, chainVars, releaseVars, outside, Agrees, Fresh
<1>2. /\ order' \in [Orders -> OrderRecord]
      /\ order'[o] = [order[o] EXCEPT !.hold = "held", !.holdAttempts = @ + 1]
      /\ \A x \in Orders \ {o} : order'[x] = order[x]
  <2>1. order[o] \in OrderRecord /\ order[o].holdAttempts + 1 \in Nat
    BY <1>1 DEF TypeOK, OrderRecord
  <2>2. order' = [order EXCEPT ![o] = [order[o] EXCEPT !.hold = "held",
                                         !.holdAttempts = order[o].holdAttempts + 1]]
    BY <1>1, <2>1 DEF TypeOK, RecordHeld
  <2>3. [order[o] EXCEPT !.hold = "held", !.holdAttempts = order[o].holdAttempts + 1]
            \in OrderRecord
    BY <2>1, HoldUpdates
  <2> QED BY <1>1, <2>1, <2>2, <2>3 DEF TypeOK
<1>3. TypeOK'
  <2>1. pass' \in [order : Orders \cup {NoOne}, at : {"idle", "hold", "held", "anchor", "anchored"}]
    BY <1>1 DEF NoPass
  <2> QED BY <1>1, <1>2, <2>1 DEF TypeOK, LedgerType, ledgerVars
<1>4. Agrees(o)'
  BY <1>1, <1>2 DEF TypeOK, OrderRecord, Agrees, Fresh, PurchaseAgrees, PassAgrees, StepAgrees,
     LeftAgrees, AnchorAgrees, MayAnchor, RecordAgrees, OnChain, ledgerVars, NoPass
<1>5. \A x \in Orders \ {o} : Untouched(x)
  BY <1>1, <1>2 DEF Untouched, NoPass, ledgerVars
<1>6. order'[o].hold # "none"
  BY <1>1, <1>2 DEF TypeOK, OrderRecord
<1> QED BY <1>1, <1>3, <1>4, <1>5, <1>6, RecordOfOne

(* A call that failed may still land, and has changed nothing yet. *)
LEMMA FailedAttempt ==
    ASSUME TypeOK, NEW o \in Orders, NEW kind \in Calls, NEW done, AttemptFails(o, kind, done)
    PROVE  /\ pass.order = o /\ pass.at \in {kind, done}
           /\ UNCHANGED <<ledgerVars, registry>>
           /\ ghosts' = ghosts \/ ghosts' = ghosts \cup {<<kind, o>>}
           /\ ghosts' \in SUBSET (Calls \X Orders)
BY DEF TypeOK, AttemptFails, FailsOrGoesUnconfirmed, chainVars

(* A failed hold waits for its retry, or gives up for good and lets the anchor go. *)
LEMMA HoldFailsStep ==
    ASSUME IInv, NEW o \in Orders, HoldFails(o)
    PROVE  IInv'
<1> USE StoreAssumption
<1> DEFINE attempt == order[o].holdAttempts + 1
           again == attempt <= HoldRetries
           state == IF again THEN "pending" ELSE "failed"
<1>1. /\ Agrees(o) /\ TypeOK
      /\ UNCHANGED <<ledgerVars, registry, asking, queue, step, timer, platform>>
      /\ pass.order = o
      /\ ghosts' = ghosts \/ ghosts' = ghosts \cup {<<"hold", o>>}
      /\ ghosts' \in SUBSET (Calls \X Orders)
      /\ work' = work \/ work' = work \cup {o}
      /\ pass' = NoPass \/ (~again /\ pass' = [order |-> o, at |-> "anchor"])
  <2>1. "hold" \in Calls
    BY DEF Calls
  <2> QED BY <2>1, FailedAttempt DEF IInv, HoldFails, ThenAnchor, releaseVars, outside
<1>2. /\ order[o] \in OrderRecord /\ attempt \in Nat /\ order[o].hold # "none"
      /\ order[o].holdAttempts \in Nat /\ HoldRetries \in Nat
  BY <1>1 DEF TypeOK, OrderRecord, Agrees, Fresh
<1>3. /\ order' \in [Orders -> OrderRecord]
      /\ order'[o] = [order[o] EXCEPT !.hold = state, !.holdAttempts = attempt]
      /\ \A x \in Orders \ {o} : order'[x] = order[x]
  <2>1. order' = [order EXCEPT ![o] = [order[o] EXCEPT !.hold = state, !.holdAttempts = attempt]]
    BY <1>1, <1>2 DEF TypeOK, HoldFails
  <2>2. [order[o] EXCEPT !.hold = state, !.holdAttempts = attempt] \in OrderRecord
    BY <1>2, HoldUpdates
  <2> QED BY <1>1, <2>1, <2>2 DEF TypeOK
<1>4. TypeOK'
  <2>1. pass' \in [order : Orders \cup {NoOne}, at : {"idle", "hold", "held", "anchor", "anchored"}]
    BY <1>1 DEF NoPass
  <2>2. work' \in SUBSET Orders
    BY <1>1 DEF TypeOK
  <2> QED BY <1>1, <1>3, <2>1, <2>2 DEF TypeOK, LedgerType, ledgerVars
<1>5. /\ order'[o].hold = state /\ order'[o].holdAttempts = attempt
      /\ order'[o].fulfillment = order[o].fulfillment
      /\ order'[o].anchor = order[o].anchor
      /\ order'[o].release = order[o].release
  BY <1>2, <1>3 DEF OrderRecord
<1>6. Agrees(o)'
  <2>1. MayAnchor(o) => MayAnchor(o)'
    BY <1>1, <1>2, <1>5 DEF Agrees, AnchorAgrees, MayAnchor, OnChain, ledgerVars
  <2>2. AnchorAgrees(o)'
    BY <1>1, <1>2, <1>5, <2>1 DEF Agrees, AnchorAgrees, MayAnchor, NoPass
  <2>3. Fresh(o)' /\ PassAgrees(o)' /\ LeftAgrees(o)'
    BY <1>1, <1>5 DEF Agrees, Fresh, PassAgrees, LeftAgrees, NoPass, ledgerVars
  <2>4. PurchaseAgrees(o)' /\ StepAgrees(o)' /\ RecordAgrees(o)'
    BY <1>1, <1>5 DEF Agrees, PurchaseAgrees, StepAgrees, RecordAgrees, OnChain, ledgerVars
  <2> QED BY <2>2, <2>3, <2>4 DEF Agrees
<1>7. \A x \in Orders \ {o} : Untouched(x)
  BY <1>1, <1>3 DEF Untouched, NoPass, ledgerVars
<1> QED BY <1>1, <1>2, <1>4, <1>5, <1>6, <1>7, RecordOfOne

(* The receipt goes out after the hold. *)
LEMMA SendAnchorStep ==
    ASSUME IInv, NEW o \in Orders, SendAnchor(o)
    PROVE  IInv'
<1> USE StoreAssumption
<1>1. /\ Agrees(o) /\ TypeOK
      /\ UNCHANGED <<ledgerVars, order, work, asking, queue, step, timer, platform>>
      /\ pass = [order |-> o, at |-> "anchor"] /\ pass' = [order |-> o, at |-> "anchored"]
      /\ registry' = registry \cup {o} /\ ghosts' \in SUBSET ghosts
  BY DEF IInv, SendAnchor, Lands, releaseVars, outside
<1>2. TypeOK'
  BY <1>1 DEF TypeOK, LedgerType, ledgerVars
<1>3. Agrees(o)'
  BY <1>1 DEF TypeOK, Agrees, Fresh, PurchaseAgrees, PassAgrees, StepAgrees, LeftAgrees,
     AnchorAgrees, MayAnchor, RecordAgrees, OnChain, ledgerVars
<1>4. \A x \in Orders \ {o} : Untouched(x)
  BY <1>1 DEF Untouched, ledgerVars
<1> QED BY <1>1, <1>2, <1>3, <1>4, RecordOfOne

(* Both ways an attempt to anchor ends. *)
LEMMA AnchorEndsStep ==
    ASSUME IInv, NEW o \in Orders, RecordAnchored(o) \/ AnchorFails(o)
    PROVE  IInv'
<1> USE StoreAssumption
<1> DEFINE attempt == order[o].anchorAttempts + 1
<1>1. PICK state \in {"pending", "anchored", "failed"} :
      /\ order' = [order EXCEPT ![o].anchor = state, ![o].anchorAttempts = attempt]
      /\ state = "anchored" => pass.at = "anchored"
  <2>1. CASE RecordAnchored(o)
    <3>1. order' = [order EXCEPT ![o].anchor = "anchored", ![o].anchorAttempts = attempt]
      BY <2>1 DEF IInv, TypeOK, RecordAnchored
    <3> QED BY <2>1, <3>1 DEF RecordAnchored
  <2>2. CASE AnchorFails(o)
    BY <2>2 DEF AnchorFails
  <2> QED BY <2>1, <2>2
<1>2. /\ Agrees(o) /\ TypeOK
      /\ UNCHANGED <<ledgerVars, registry, asking, queue, step, timer, platform>>
      /\ pass.order = o /\ pass.at \in {"anchor", "anchored"} /\ pass' = NoPass
      /\ ghosts' = ghosts \/ ghosts' = ghosts \cup {<<"anchor", o>>}
      /\ ghosts' \in SUBSET (Calls \X Orders)
      /\ work' = work \/ work' = work \cup {o}
  <2>1. CASE RecordAnchored(o)
    BY <2>1 DEF IInv, TypeOK, RecordAnchored, chainVars, releaseVars, outside
  <2>2. CASE AnchorFails(o)
    <3>1. "anchor" \in Calls
      BY DEF Calls
    <3> QED BY <2>2, <3>1, FailedAttempt DEF IInv, AnchorFails, releaseVars, outside
  <2> QED BY <2>1, <2>2
<1>3. order[o] \in OrderRecord /\ attempt \in Nat /\ order[o].hold # "none"
  BY <1>2 DEF TypeOK, OrderRecord, Agrees, Fresh
<1>4. /\ order' \in [Orders -> OrderRecord]
      /\ order'[o] = [order[o] EXCEPT !.anchor = state, !.anchorAttempts = attempt]
      /\ \A x \in Orders \ {o} : order'[x] = order[x]
  <2>1. order' = [order EXCEPT ![o] =
                    [order[o] EXCEPT !.anchor = state, !.anchorAttempts = attempt]]
    BY <1>1, <1>2, <1>3 DEF TypeOK
  <2>2. [order[o] EXCEPT !.anchor = state, !.anchorAttempts = attempt] \in OrderRecord
    BY <1>3, AnchorUpdates
  <2> QED BY <1>2, <2>1, <2>2 DEF TypeOK
<1>5. TypeOK'
  <2>1. work' \in SUBSET Orders
    BY <1>2 DEF TypeOK
  <2> QED BY <1>2, <1>4, <2>1 DEF TypeOK, LedgerType, ledgerVars, NoPass
<1>6. /\ order'[o].hold = order[o].hold /\ order'[o].holdAttempts = order[o].holdAttempts
      /\ order'[o].fulfillment = order[o].fulfillment
      /\ order'[o].anchor = state
      /\ order'[o].release = order[o].release
  BY <1>3, <1>4 DEF OrderRecord
<1>7. Agrees(o)'
  <2>1. AnchorAgrees(o)'
    BY <1>2, <1>6 DEF Agrees, AnchorAgrees, MayAnchor, OnChain, ledgerVars, NoPass
  <2>2. Fresh(o)' /\ PassAgrees(o)' /\ LeftAgrees(o)'
    BY <1>2, <1>3, <1>6 DEF Agrees, Fresh, PassAgrees, LeftAgrees, NoPass, ledgerVars
  <2>3. PurchaseAgrees(o)' /\ StepAgrees(o)' /\ RecordAgrees(o)'
    BY <1>1, <1>2, <1>6 DEF Agrees, PurchaseAgrees, PassAgrees, StepAgrees, RecordAgrees,
       OnChain, ledgerVars
  <2> QED BY <2>1, <2>2, <2>3 DEF Agrees
<1>8. \A x \in Orders \ {o} : Untouched(x)
  BY <1>2, <1>4 DEF Untouched, NoPass, ledgerVars
<1> QED BY <1>2, <1>3, <1>5, <1>6, <1>7, <1>8, RecordOfOne

-----------------------------------------------------------------------------
(* What the platform says. *)

(* The same for what the platform says. *)
LEMMA FulfillmentUpdates ==
    ASSUME NEW r \in OrderRecord, NEW state \in {"none", "partial", "fulfilled", "canceled"},
           NEW release \in {"none", "pending", "shipped", "released", "disputed", "failed"}
    PROVE  /\ [r EXCEPT !.fulfillment = state] \in OrderRecord
           /\ [r EXCEPT !.fulfillment = state, !.release = release] \in OrderRecord
BY DEF OrderRecord

(* The platform's answer is taken down as it stands. *)
LEMMA AskPlatformStep ==
    ASSUME IInv, NEW o \in Orders, NEW left \in Parcels, AskPlatform(o, left)
    PROVE  IInv'
<1> USE StoreAssumption
<1>1. /\ Agrees(o) /\ TypeOK
      /\ UNCHANGED <<ledgerVars, registry, ghosts, work, pass, queue, step, timer, platform>>
      /\ order[o].hold # "none"
  BY DEF IInv, AskPlatform, chainVars, passVars, releaseVars, outside, Agrees, Fresh
<1>2. CASE /\ platform[o] \in {"partial", "fulfilled"}
           /\ asking' = [asking EXCEPT ![o] = [state |-> platform[o], left |-> left,
                                                      owed |-> FALSE]]
           /\ UNCHANGED order
  <2>1. TypeOK'
    <3>1. [state |-> platform[o], left |-> left, owed |-> FALSE] \in Answer
      BY <1>2 DEF Answer, Parcels
    <3> QED BY <1>1, <1>2, <3>1 DEF TypeOK, LedgerType, ledgerVars
  <2>2. Agrees(o)'
    BY <1>1, <1>2 DEF TypeOK, Agrees, Fresh, PurchaseAgrees, PassAgrees, StepAgrees,
       LeftAgrees, AnchorAgrees, MayAnchor, RecordAgrees, OnChain, ledgerVars
  <2>3. \A x \in Orders \ {o} : Untouched(x)
    BY <1>1, <1>2 DEF TypeOK, Untouched, ledgerVars
  <2> QED BY <1>1, <1>2, <2>1, <2>2, <2>3, RecordOfOne
<1>3. CASE order' = [order EXCEPT ![o].fulfillment = "canceled"] /\ UNCHANGED asking
  <2>1. /\ order' = [order EXCEPT ![o] = [order[o] EXCEPT !.fulfillment = "canceled"]]
        /\ order[o] \in OrderRecord
    BY <1>1, <1>3 DEF TypeOK
  <2>2. [order[o] EXCEPT !.fulfillment = "canceled"] \in OrderRecord
    BY <2>1 DEF OrderRecord
  <2>3. /\ order' \in [Orders -> OrderRecord]
        /\ order'[o] = [order[o] EXCEPT !.fulfillment = "canceled"]
        /\ \A x \in Orders \ {o} : order'[x] = order[x]
    BY <1>1, <2>1, <2>2 DEF TypeOK
  <2>4. TypeOK'
    BY <1>1, <1>3, <2>3 DEF TypeOK, LedgerType, ledgerVars
  <2>5. /\ order'[o].hold = order[o].hold /\ order'[o].holdAttempts = order[o].holdAttempts
        /\ order'[o].fulfillment = "canceled"
        /\ order'[o].anchor = order[o].anchor
        /\ order'[o].release = order[o].release
    BY <2>1, <2>3 DEF OrderRecord
  <2>6. Agrees(o)'
    BY <1>1, <1>3, <2>5 DEF Agrees, Fresh, PurchaseAgrees, PassAgrees, StepAgrees,
       LeftAgrees, AnchorAgrees, MayAnchor, RecordAgrees, OnChain, ledgerVars
  <2>7. \A x \in Orders \ {o} : Untouched(x)
    BY <1>1, <1>3, <2>3 DEF Untouched, ledgerVars
  <2> QED BY <1>1, <2>4, <2>5, <2>6, <2>7, RecordOfOne
<1> QED BY <1>2, <1>3 DEF AskPlatform

(* The loop goes on with the same answer, or is over. *)
LEMMA NextParcelIsAnswer ==
    ASSUME TypeOK, NEW o \in Orders, asking[o].left > 0
    PROVE  NextParcel(o) \in Answer /\ NextParcel(o).state \in {"none", asking[o].state}
BY DEF TypeOK, Answer, NextParcel, NoAnswer

(* A parcel recorded never says more than the platform did. *)
LEMMA RecordShipmentStep ==
    ASSUME IInv, NEW o \in Orders, RecordShipment(o)
    PROVE  IInv'
<1> USE StoreAssumption
<1> DEFINE state == ShipmentState(o)
           release == IF OwesRelease(o, state) THEN "pending" ELSE order[o].release
<1>1. /\ Agrees(o) /\ TypeOK
      /\ UNCHANGED <<ledgerVars, registry, ghosts, work, pass, queue, step, timer, platform>>
      /\ asking[o].left > 0
  BY DEF IInv, RecordShipment, chainVars, passVars, releaseVars, outside
<1>2. order[o] \in OrderRecord /\ order[o].hold # "none"
  BY <1>1 DEF TypeOK, Agrees, Fresh, NoAnswer
<1>3. /\ state \in {"none", "partial", "fulfilled", "canceled"}
      /\ state = "fulfilled" => platform[o] = "fulfilled"
      /\ release \in {"none", "pending", "shipped", "released", "disputed", "failed"}
      /\ release \in {order[o].release, "pending"}
  BY <1>1, <1>2 DEF TypeOK, Answer, OrderRecord, ShipmentState, Agrees, LeftAgrees
<1>4. /\ order' = [order EXCEPT ![o].fulfillment = state, ![o].release = release]
      /\ \/ asking' = [asking EXCEPT ![o].owed = TRUE]
         \/ asking' = [asking EXCEPT ![o] = NextParcel(o)]
  BY DEF RecordShipment
<1> HIDE DEF state, release
<1>5. /\ order' \in [Orders -> OrderRecord]
      /\ order'[o] = [order[o] EXCEPT !.fulfillment = state, !.release = release]
      /\ \A x \in Orders \ {o} : order'[x] = order[x]
  <2>1. order' = [order EXCEPT ![o] = [order[o] EXCEPT !.fulfillment = state, !.release = release]]
    BY <1>1, <1>2, <1>4 DEF TypeOK
  <2>2. [order[o] EXCEPT !.fulfillment = state, !.release = release] \in OrderRecord
    BY <1>2, <1>3, FulfillmentUpdates
  <2> QED BY <1>1, <2>1, <2>2 DEF TypeOK
<1>6. /\ asking' \in [Orders -> Answer]
      /\ asking'[o].state \in {"none", asking[o].state}
      /\ \A x \in Orders \ {o} : asking'[x] = asking[x]
  <2>1. CASE asking' = [asking EXCEPT ![o].owed = TRUE]
    <3>1. asking[o] \in Answer
      BY <1>1 DEF TypeOK
    <3>2. /\ [asking[o] EXCEPT !.owed = TRUE] \in Answer
          /\ [asking[o] EXCEPT !.owed = TRUE].state = asking[o].state
      BY <1>1, <3>1 DEF Answer
    <3>3. asking' = [asking EXCEPT ![o] = [asking[o] EXCEPT !.owed = TRUE]]
      BY <1>1, <2>1 DEF TypeOK
    <3> QED BY <1>1, <3>2, <3>3 DEF TypeOK
  <2>2. CASE asking' = [asking EXCEPT ![o] = NextParcel(o)]
    BY <1>1, <2>2, NextParcelIsAnswer DEF TypeOK
  <2> QED BY <1>4, <2>1, <2>2
<1>7. TypeOK'
  BY <1>1, <1>5, <1>6 DEF TypeOK, LedgerType, ledgerVars
<1>8. /\ order'[o].hold = order[o].hold /\ order'[o].holdAttempts = order[o].holdAttempts
      /\ order'[o].fulfillment = state
      /\ order'[o].anchor = order[o].anchor
      /\ order'[o].release \in {order[o].release, "pending"}
  BY <1>2, <1>3, <1>5 DEF OrderRecord
<1>9. Agrees(o)'
  BY <1>1, <1>2, <1>3, <1>6, <1>8 DEF Agrees, Fresh, PurchaseAgrees, PassAgrees, StepAgrees,
     LeftAgrees, AnchorAgrees, MayAnchor, RecordAgrees, OnChain, ledgerVars
<1>10. \A x \in Orders \ {o} : Untouched(x)
  BY <1>1, <1>5, <1>6 DEF Untouched, ledgerVars
<1> QED BY <1>1, <1>2, <1>7, <1>8, <1>9, <1>10, RecordOfOne

(* Going on to the next parcel, or dropping the answer, claims nothing new. *)
LEMMA AnswerGoesOn ==
    ASSUME IInv, NEW o \in Orders,
           UNCHANGED <<ledgerVars, registry, ghosts, order, work, pass, step, timer, platform>>,
           queue' \in [Orders -> Seq(Kinds)],
           NEW next \in Answer, next.state \in {"none", asking[o].state},
           asking[o] = NoAnswer => next = NoAnswer,
           asking' = [asking EXCEPT ![o] = next]
    PROVE  IInv'
<1> USE StoreAssumption
<1>1. Agrees(o) /\ TypeOK
  BY DEF IInv
<1>2. TypeOK'
  BY <1>1 DEF TypeOK, LedgerType, ledgerVars
<1>3. asking'[o] = next /\ \A x \in Orders \ {o} : asking'[x] = asking[x]
  BY <1>1 DEF TypeOK
<1>4. Agrees(o)'
  BY <1>1, <1>3 DEF Agrees, Fresh, PurchaseAgrees, PassAgrees, StepAgrees, LeftAgrees,
     AnchorAgrees, MayAnchor, RecordAgrees, OnChain, ledgerVars
<1>5. \A x \in Orders \ {o} : Untouched(x)
  BY <1>3 DEF Untouched, ledgerVars
<1> QED BY <1>1, <1>2, <1>4, <1>5, RecordOfOne

(* afterShipment only queues its step. *)
LEMMA AfterShipmentStep ==
    ASSUME IInv, NEW o \in Orders, AfterShipment(o)
    PROVE  IInv'
<1>1. /\ TypeOK /\ asking[o].left > 0 /\ asking[o] # NoAnswer
      /\ UNCHANGED <<ledgerVars, registry, ghosts, order, work, pass, step, timer, platform>>
      /\ asking' = [asking EXCEPT ![o] = NextParcel(o)]
      /\ queue' = [queue EXCEPT ![o] = Append(queue[o], "ship")]
  BY DEF IInv, TypeOK, Answer, NoAnswer, AfterShipment, chainVars, passVars, outside
<1>2. queue' \in [Orders -> Seq(Kinds)]
  <2>1. queue[o] \in Seq(Kinds) /\ "ship" \in Kinds
    BY <1>1 DEF TypeOK, Kinds
  <2>2. Append(queue[o], "ship") \in Seq(Kinds)
    BY <2>1
  <2> QED BY <1>1, <2>2 DEF TypeOK
<1> QED BY <1>1, <1>2, NextParcelIsAnswer, AnswerGoesOn

(* An answer dropped halfway leaves what was recorded of it. *)
LEMMA ShipmentFailsStep ==
    ASSUME IInv, NEW o \in Orders, ShipmentFails(o)
    PROVE  IInv'
<1>1. /\ UNCHANGED <<ledgerVars, registry, ghosts, order, work, pass, queue, step, timer,
                     platform>>
      /\ asking' = [asking EXCEPT ![o] = NoAnswer]
      /\ queue' \in [Orders -> Seq(Kinds)]
  BY DEF IInv, TypeOK, ShipmentFails, chainVars, passVars, releaseVars
<1>2. NoAnswer \in Answer /\ NoAnswer.state = "none"
  BY DEF NoAnswer, Answer
<1> QED BY <1>1, <1>2, AnswerGoesOn

(* The platform does not take back that everything left. *)
LEMMA PlatformMovesStep ==
    ASSUME IInv, NEW o \in Orders, NEW to \in {"partial", "fulfilled", "canceled"},
           PlatformMoves(o, to)
    PROVE  IInv'
<1> USE StoreAssumption
<1>1. /\ Agrees(o) /\ TypeOK
      /\ UNCHANGED <<ledgerVars, registry, ghosts, order, work, pass, asking, queue, step, timer>>
      /\ platform[o] # "fulfilled"
      /\ platform' = [platform EXCEPT ![o] = to]
  BY DEF IInv, PlatformMoves, chainVars, passVars, releaseVars
<1>2. TypeOK'
  BY <1>1 DEF TypeOK, LedgerType, ledgerVars
<1>3. Agrees(o)'
  BY <1>1 DEF TypeOK, Agrees, Fresh, PurchaseAgrees, PassAgrees, StepAgrees, LeftAgrees,
     AnchorAgrees, MayAnchor, RecordAgrees, OnChain, ledgerVars
<1>4. \A x \in Orders \ {o} : Untouched(x)
  BY <1>1 DEF TypeOK, Untouched, ledgerVars
<1> QED BY <1>1, <1>2, <1>3, <1>4, RecordOfOne

-----------------------------------------------------------------------------
(* EscrowReleases. *)

(* A timer only queues its step. *)
LEMMA TimerFiresStep ==
    ASSUME IInv, NEW o \in Orders, TimerFires(o)
    PROVE  IInv'
<1> USE StoreAssumption
<1>1. /\ Agrees(o) /\ TypeOK
      /\ UNCHANGED <<ledgerVars, registry, ghosts, order, work, pass, asking, step, platform>>
      /\ timer' = [timer EXCEPT ![o] = "none"]
      /\ queue' = [queue EXCEPT ![o] = Append(@, timer[o])]
      /\ timer[o] # "none"
  BY DEF IInv, TimerFires, chainVars, passVars, outside
<1>2. TypeOK'
  <2>1. queue[o] \in Seq(Kinds) /\ timer[o] \in Kinds
    BY <1>1 DEF TypeOK
  <2>2. Append(queue[o], timer[o]) \in Seq(Kinds)
    BY <2>1
  <2>3. queue' \in [Orders -> Seq(Kinds)] /\ timer' \in [Orders -> {"none"} \cup Kinds]
    BY <1>1, <2>2 DEF TypeOK
  <2> QED BY <1>1, <2>3 DEF TypeOK, LedgerType, ledgerVars
<1>3. \A x \in Orders : Untouched(x)
  BY <1>1 DEF Untouched, ledgerVars
<1>4. Agrees(o)'
  BY <1>1, <1>3, Frame
<1> QED BY <1>1, <1>2, <1>3, <1>4, RecordOfOne

(* A step begins with what the escrow says, and all of it left. *)
LEMMA BeginStepStep ==
    ASSUME IInv, NEW o \in Orders, BeginStep(o)
    PROVE  IInv'
<1> USE StoreAssumption
<1> DEFINE kind == Head(queue[o])
<1>1. /\ Agrees(o) /\ TypeOK
      /\ UNCHANGED <<ledgerVars, registry, ghosts, order, work, pass, asking, timer, platform>>
      /\ queue[o] # <<>> /\ queue' = [queue EXCEPT ![o] = Tail(@)]
  BY DEF IInv, BeginStep, chainVars, passVars, outside
<1>2. kind \in Kinds /\ queue' \in [Orders -> Seq(Kinds)]
  <2>1. queue[o] \in Seq(Kinds)
    BY <1>1 DEF TypeOK
  <2>2. Head(queue[o]) \in Kinds /\ Tail(queue[o]) \in Seq(Kinds)
    BY <1>1, <2>1
  <2> QED BY <1>1, <2>2 DEF TypeOK
<1>3. purchase[o].status \in Escrow!Status
  BY <1>1 DEF TypeOK, LedgerType, Escrow!Purchase
<1>4. CASE UNCHANGED step
  <2>1. TypeOK'
    BY <1>1, <1>2, <1>4 DEF TypeOK, LedgerType, ledgerVars
  <2>2. \A x \in Orders : Untouched(x)
    BY <1>1, <1>4 DEF Untouched, ledgerVars
  <2>3. Agrees(o)'
    BY <1>1, <2>2, Frame
  <2> QED BY <1>1, <2>1, <2>2, <2>3, RecordOfOne
<1>5. CASE StepApplies(o, kind) /\ \E at \in {"send", "settle", "sent"} :
           step' = [step EXCEPT ![o] = [kind |-> kind, at |-> at, seen |-> purchase[o].status]]
  <2>1. /\ step' \in [Orders -> Step]
        /\ step'[o].kind = kind /\ step'[o].seen = purchase[o].status
        /\ \A x \in Orders \ {o} : step'[x] = step[x]
    BY <1>1, <1>2, <1>3, <1>5 DEF TypeOK, Step
  <2>2. TypeOK'
    BY <1>1, <1>2, <2>1 DEF TypeOK, LedgerType, ledgerVars
  <2>3. /\ order[o].hold = "held"
        /\ kind = "ship" => order[o].fulfillment = "fulfilled"
    BY <1>5 DEF StepApplies
  <2>4. StepAgrees(o)'
    BY <1>1, <1>2, <2>1 DEF Agrees, PurchaseAgrees, StepAgrees, ledgerVars
  <2>5. Fresh(o)' /\ PassAgrees(o)' /\ LeftAgrees(o)'
    BY <1>1, <2>1, <2>3 DEF Agrees, Fresh, PassAgrees, LeftAgrees, OnChain, ledgerVars
  <2>6. PurchaseAgrees(o)' /\ AnchorAgrees(o)' /\ RecordAgrees(o)'
    BY <1>1 DEF Agrees, PurchaseAgrees, AnchorAgrees, MayAnchor, RecordAgrees, OnChain,
       ledgerVars
  <2>7. Agrees(o)'
    BY <2>4, <2>5, <2>6 DEF Agrees
  <2>8. \A x \in Orders \ {o} : Untouched(x)
    BY <1>1, <2>1 DEF Untouched, ledgerVars
  <2> QED BY <1>1, <2>2, <2>7, <2>8, RecordOfOne
<1> QED BY <1>4, <1>5 DEF BeginStep

(* A call about a purchase that is there already: nothing the store relies on
   is lost.                                                                 *)
LEMMA LedgerAdvances ==
    ASSUME IInv, NEW o \in Orders, LedgerType', Others(o), Steady,
           OnChain(o), OnChain(o)', PurchaseAgrees(o)',
           purchase[o].shipped_at > 0 => purchase'[o].shipped_at > 0,
           purchase[o].opened_at > 0 => purchase'[o].opened_at > 0,
           purchase[o].status = "Released" => purchase'[o].status = "Released",
           purchase'[o].shipped_at > 0 =>
               purchase[o].shipped_at > 0 \/ platform[o] = "fulfilled",
           UNCHANGED <<registry, order, work, pass, asking, queue, timer, platform>>,
           ghosts' \in SUBSET ghosts,
           step' \in [Orders -> Step], step'[o].kind = step[o].kind, step'[o].seen = step[o].seen,
           step'[o] # NoStep => step[o] # NoStep,
           \A x \in Orders \ {o} : step'[x] = step[x]
    PROVE  IInv'
<1>1. TypeOK /\ Agrees(o)
  BY DEF IInv
<1>2. TypeOK'
  BY <1>1 DEF TypeOK
<1>3. Fresh(o)' /\ PassAgrees(o)' /\ AnchorAgrees(o)'
  BY <1>1 DEF Agrees, Fresh, PassAgrees, AnchorAgrees, MayAnchor
<1>4. StepAgrees(o)' /\ LeftAgrees(o)' /\ RecordAgrees(o)'
  BY <1>1 DEF Agrees, StepAgrees, LeftAgrees, RecordAgrees
<1>5. Agrees(o)'
  BY <1>3, <1>4 DEF Agrees
<1>6. \A x \in Orders \ {o} : Untouched(x)
  BY DEF Untouched, Others
<1>7. \A x \in Orders : purchase'[x].status = "None" <=> purchase[x].status = "None"
  BY DEF Others, OnChain
<1>8. HoldsStayFunded'
  BY <1>7, FundsKeep DEF IInv
<1> QED BY <1>2, <1>5, <1>6, <1>8, StepOfOne

(* The moves that leave the shipping date alone, ... *)
LEMMA ProceedsAdvances ==
    ASSUME IInv, NEW o \in Orders, LedgerType', Others(o), Steady, Proceeds(o),
           UNCHANGED <<registry, order, work, pass, asking, queue, timer, platform>>,
           ghosts' \in SUBSET ghosts,
           step' \in [Orders -> Step], step'[o].kind = step[o].kind, step'[o].seen = step[o].seen,
           step'[o] # NoStep => step[o] # NoStep,
           \A x \in Orders \ {o} : step'[x] = step[x]
    PROVE  IInv'
<1>1. Agrees(o)
  BY DEF IInv
<1>2. OnChain(o) /\ OnChain(o)' /\ PurchaseAgrees(o)'
  BY <1>1 DEF Agrees, PurchaseAgrees, Proceeds, OnChain
<1> QED BY <1>2, LedgerAdvances DEF Proceeds

(* ... and mark_shipped, for an order that left in full. *)
LEMMA ShipAdvances ==
    ASSUME IInv, NEW o \in Orders, Escrow!MarkShipped(o), platform[o] = "fulfilled",
           UNCHANGED <<registry, order, work, pass, asking, queue, timer, platform>>,
           ghosts' \in SUBSET ghosts,
           step' \in [Orders -> Step], step'[o].kind = step[o].kind, step'[o].seen = step[o].seen,
           step'[o] # NoStep => step[o] # NoStep,
           \A x \in Orders \ {o} : step'[x] = step[x]
    PROVE  IInv'
<1>1. Agrees(o) /\ LedgerType /\ PurchaseAgrees(o)
  BY DEF IInv, TypeOK, Agrees
<1>2. /\ LedgerType' /\ Others(o) /\ Steady
      /\ purchase[o].status = "Held"
      /\ purchase'[o] = [purchase[o] EXCEPT !.status = "Shipped", !.shipped_at = now]
  BY <1>1, ShipLands
<1>3. /\ purchase[o] \in Escrow!Purchase /\ now \in 1..MaxTime
  BY <1>1 DEF LedgerType
<1>4. /\ purchase'[o].status = "Shipped" /\ purchase'[o].shipped_at > 0
      /\ purchase'[o].payer = purchase[o].payer /\ purchase'[o].amount = purchase[o].amount
      /\ purchase'[o].tx_hash = purchase[o].tx_hash
      /\ purchase'[o].opened_at = purchase[o].opened_at
  BY <1>2, <1>3, StoreAssumption DEF Escrow!Purchase
<1>5. OnChain(o) /\ OnChain(o)' /\ PurchaseAgrees(o)'
  BY <1>1, <1>2, <1>4 DEF PurchaseAgrees, OnChain, DisputedStatus
<1> QED BY <1>2, <1>4, <1>5, LedgerAdvances

(* A step whose call was made keeps what it is about. *)
LEMMA StepGoesOn ==
    ASSUME TypeOK, NEW o \in Orders, step' = [step EXCEPT ![o].at = "sent"], step[o].at = "send"
    PROVE  /\ step' \in [Orders -> Step]
           /\ step'[o].kind = step[o].kind /\ step'[o].seen = step[o].seen
           /\ step[o] # NoStep
           /\ \A x \in Orders \ {o} : step'[x] = step[x]
<1>1. step[o] \in Step /\ step[o] # NoStep
  BY DEF TypeOK, NoStep
<1>2. step' = [step EXCEPT ![o] = [step[o] EXCEPT !.at = "sent"]]
  BY DEF TypeOK
<1>3. /\ [step[o] EXCEPT !.at = "sent"] \in Step
      /\ [step[o] EXCEPT !.at = "sent"].kind = step[o].kind
      /\ [step[o] EXCEPT !.at = "sent"].seen = step[o].seen
  BY <1>1 DEF Step
<1> QED BY <1>1, <1>2, <1>3 DEF TypeOK

(* mark_shipped and release, sent or found done. *)
LEMMA SendStep ==
    ASSUME IInv, NEW o \in Orders, SendShip(o) \/ SendRelease(o)
    PROVE  IInv'
<1> USE StoreAssumption
<1>1. /\ Agrees(o) /\ TypeOK /\ LedgerType /\ PurchaseAgrees(o)
      /\ UNCHANGED <<registry, order, work, pass, asking, queue, timer, platform>>
      /\ step' = [step EXCEPT ![o].at = "sent"] /\ step[o].at = "send"
  BY DEF IInv, TypeOK, Agrees, SendShip, SendRelease, Sending, passVars, outside
<1>2. /\ step' \in [Orders -> Step]
      /\ step'[o].kind = step[o].kind /\ step'[o].seen = step[o].seen
      /\ step[o] # NoStep
      /\ \A x \in Orders \ {o} : step'[x] = step[x]
  BY <1>1, StepGoesOn
<1>3. CASE UNCHANGED <<ledgerVars, ghosts>>
  <2>1. TypeOK'
    BY <1>1, <1>2, <1>3 DEF TypeOK, LedgerType, ledgerVars
  <2>2. Agrees(o)'
    BY <1>1, <1>2, <1>3 DEF Agrees, Fresh, PurchaseAgrees, PassAgrees, StepAgrees, LeftAgrees,
       AnchorAgrees, MayAnchor, RecordAgrees, OnChain, ledgerVars
  <2>3. \A x \in Orders \ {o} : Untouched(x)
    BY <1>1, <1>2, <1>3 DEF Untouched, ledgerVars
  <2> QED BY <1>1, <1>3, <2>1, <2>2, <2>3, RecordOfOne
<1>4. CASE Escrow!MarkShipped(o) /\ ghosts' = {} /\ step[o].kind = "ship"
  <2>1. platform[o] = "fulfilled"
    BY <1>1, <1>4 DEF Agrees, LeftAgrees
  <2> QED BY <1>1, <1>2, <1>4, <2>1, ShipAdvances
<1>5. CASE Escrow!Release(o) /\ ghosts' = {}
  BY <1>1, <1>2, <1>5, ReleaseLands, ProceedsAdvances
<1> QED BY <1>3, <1>4, <1>5 DEF SendShip, SendRelease, Sending, Lands

(* Steps that only put the step away or read again. *)
LEMMA ReadStep ==
    ASSUME IInv, NEW o \in Orders, ReleaseTooEarly(o) \/ ReadAgain(o)
    PROVE  IInv'
<1> USE StoreAssumption
<1>1. /\ Agrees(o) /\ TypeOK
      /\ UNCHANGED <<ledgerVars, registry, ghosts, order, work, pass, asking, queue, platform>>
  BY DEF IInv, ReleaseTooEarly, ReadAgain, chainVars, passVars, outside
<1>2. /\ timer' \in [Orders -> {"none"} \cup Kinds]
      /\ step' \in [Orders -> Step]
      /\ \A x \in Orders \ {o} : step'[x] = step[x]
      /\ \/ step'[o] = NoStep
         \/ /\ step[o] # NoStep
            /\ step'[o].kind = step[o].kind /\ step'[o].seen = purchase[o].status
  <2>1. CASE ReleaseTooEarly(o)
    <3>1. NoStep \in Step /\ "release" \in Kinds
      BY DEF NoStep, Step, Kinds, Escrow!Status
    <3> QED BY <1>1, <2>1, <3>1 DEF TypeOK, ReleaseTooEarly
  <2>2. CASE ReadAgain(o)
    <3>1. purchase[o].status \in Escrow!Status
      BY <1>1 DEF TypeOK, LedgerType, Escrow!Purchase
    <3>2. step[o] # NoStep
      BY <2>2 DEF ReadAgain, NoStep
    <3>3. step[o] \in Step /\ step' = [step EXCEPT ![o] =
                   [step[o] EXCEPT !.at = "settle", !.seen = purchase[o].status]]
      BY <1>1, <2>2 DEF TypeOK, ReadAgain
    <3>4. /\ [step[o] EXCEPT !.at = "settle", !.seen = purchase[o].status] \in Step
          /\ [step[o] EXCEPT !.at = "settle", !.seen = purchase[o].status].kind = step[o].kind
          /\ [step[o] EXCEPT !.at = "settle", !.seen = purchase[o].status].seen =
                 purchase[o].status
      BY <3>1, <3>3 DEF Step
    <3>5. UNCHANGED timer
      BY <2>2 DEF ReadAgain
    <3> QED BY <1>1, <3>2, <3>3, <3>4, <3>5 DEF TypeOK
  <2> QED BY <2>1, <2>2
<1>3. TypeOK'
  BY <1>1, <1>2 DEF TypeOK, LedgerType, ledgerVars
<1>4. StepAgrees(o)'
  BY <1>1, <1>2 DEF Agrees, PurchaseAgrees, StepAgrees, NoStep, DisputedStatus, ledgerVars
<1>5. Fresh(o)' /\ PassAgrees(o)' /\ LeftAgrees(o)'
  BY <1>1, <1>2 DEF Agrees, Fresh, PassAgrees, LeftAgrees, OnChain, NoStep, ledgerVars
<1>6. PurchaseAgrees(o)' /\ AnchorAgrees(o)' /\ RecordAgrees(o)'
  BY <1>1 DEF Agrees, PurchaseAgrees, AnchorAgrees, MayAnchor, RecordAgrees, OnChain,
     ledgerVars
<1>7. Agrees(o)'
  BY <1>4, <1>5, <1>6 DEF Agrees
<1>8. \A x \in Orders \ {o} : Untouched(x)
  BY <1>1, <1>2 DEF Untouched, ledgerVars
<1> QED BY <1>1, <1>3, <1>7, <1>8, RecordOfOne

(* What a settled step writes. *)
LEMMA ReleaseUpdates ==
    ASSUME NEW r \in OrderRecord, NEW n \in Nat, NEW shipped \in BOOLEAN,
           NEW release \in {"none", "pending", "shipped", "released", "disputed", "failed"}
    PROVE  [r EXCEPT !.release = release, !.attempts = n, !.shippedAt = shipped] \in OrderRecord
BY DEF OrderRecord

(* What is kept is what the escrow said, and still says. *)
LEMMA SettleStep ==
    ASSUME IInv, NEW o \in Orders, Settle(o)
    PROVE  IInv'
<1> USE StoreAssumption
<1> DEFINE next == fromChain(step[o].seen)
           shipped == next = "shipped"
<1>1. /\ Agrees(o) /\ TypeOK
      /\ UNCHANGED <<ledgerVars, registry, ghosts, work, pass, asking, queue, platform>>
      /\ step' = [step EXCEPT ![o] = NoStep]
      /\ timer' = timer \/ timer' = [timer EXCEPT ![o] = "release"]
      /\ step[o].at = "settle" /\ step[o].seen \notin {"None", "Held"}
  BY DEF IInv, Settle, chainVars, passVars, outside
<1>2. order[o] \in OrderRecord /\ order[o].hold # "none"
  BY <1>1 DEF TypeOK, Agrees, Fresh, NoStep
<1>3. /\ next \in {"shipped", "released", "disputed"}
      /\ next = "shipped" => purchase[o].shipped_at > 0
      /\ next = "released" => purchase[o].status = "Released"
      /\ next = "disputed" => purchase[o].opened_at > 0
  <2>1. step[o].seen \in {"Shipped", "Released"} \cup DisputedStatus
    BY <1>1 DEF TypeOK, Step, Escrow!Status, Escrow!OpenStatus, Escrow!ClosedStatus,
       DisputedStatus
  <2> QED BY <1>1, <2>1 DEF fromChain, Agrees, StepAgrees, DisputedStatus
<1>4. /\ order' = [order EXCEPT ![o].release = next, ![o].attempts = 0,
                                ![o].shippedAt = shipped]
      /\ shipped \in BOOLEAN
  BY DEF Settle
<1> HIDE DEF next, shipped
<1>5. /\ order' \in [Orders -> OrderRecord]
      /\ order'[o] = [order[o] EXCEPT !.release = next, !.attempts = 0, !.shippedAt = shipped]
      /\ \A x \in Orders \ {o} : order'[x] = order[x]
  <2>1. order' = [order EXCEPT ![o] = [order[o] EXCEPT !.release = next, !.attempts = 0,
                                                       !.shippedAt = shipped]]
    BY <1>1, <1>2, <1>4 DEF TypeOK
  <2>2. [order[o] EXCEPT !.release = next, !.attempts = 0, !.shippedAt = shipped] \in OrderRecord
    BY <1>2, <1>3, <1>4, ReleaseUpdates
  <2> QED BY <1>1, <2>1, <2>2 DEF TypeOK
<1>6. /\ order'[o].hold = order[o].hold /\ order'[o].holdAttempts = order[o].holdAttempts
      /\ order'[o].fulfillment = order[o].fulfillment
      /\ order'[o].anchor = order[o].anchor
      /\ order'[o].release = next
  BY <1>2, <1>5 DEF OrderRecord
<1>7. /\ step' \in [Orders -> Step] /\ step'[o] = NoStep
      /\ \A x \in Orders \ {o} : step'[x] = step[x]
      /\ timer' \in [Orders -> {"none"} \cup Kinds]
  <2>1. NoStep \in Step /\ "release" \in Kinds
    BY DEF NoStep, Step, Kinds, Escrow!Status
  <2>2. timer' \in [Orders -> {"none"} \cup Kinds]
    <3>1. timer \in [Orders -> {"none"} \cup Kinds]
      BY <1>1 DEF TypeOK
    <3>2. CASE timer' = timer
      BY <3>1, <3>2
    <3>3. CASE timer' = [timer EXCEPT ![o] = "release"]
      BY <2>1, <3>1, <3>3
    <3> QED BY <1>1, <3>2, <3>3
  <2>3. step' \in [Orders -> Step] /\ step'[o] = NoStep
    BY <1>1, <2>1 DEF TypeOK
  <2>4. \A x \in Orders \ {o} : step'[x] = step[x]
    BY <1>1 DEF TypeOK
  <2> QED BY <2>2, <2>3, <2>4
<1>8. TypeOK'
  BY <1>1, <1>5, <1>7 DEF TypeOK, LedgerType, ledgerVars
<1>9. Agrees(o)'
  <2>1. RecordAgrees(o)' /\ PurchaseAgrees(o)'
    BY <1>1, <1>3, <1>6 DEF Agrees, RecordAgrees, PurchaseAgrees, OnChain, ledgerVars
  <2>2. StepAgrees(o)' /\ LeftAgrees(o)'
    BY <1>1, <1>6, <1>7 DEF Agrees, StepAgrees, LeftAgrees, NoStep, DisputedStatus, ledgerVars
  <2>3. Fresh(o)' /\ PassAgrees(o)' /\ AnchorAgrees(o)'
    BY <1>1, <1>2, <1>6 DEF Agrees, Fresh, PassAgrees, AnchorAgrees, MayAnchor, OnChain, ledgerVars
  <2> QED BY <2>1, <2>2, <2>3 DEF Agrees
<1>10. \A x \in Orders \ {o} : Untouched(x)
  BY <1>1, <1>5, <1>7 DEF Untouched, ledgerVars
<1> QED BY <1>1, <1>2, <1>6, <1>8, <1>9, <1>10, RecordOfOne

(* What a failed step writes. *)
LEMMA AttemptUpdates ==
    ASSUME NEW r \in OrderRecord, NEW n \in Nat,
           NEW release \in {"none", "pending", "shipped", "released", "disputed", "failed"}
    PROVE  [r EXCEPT !.attempts = n, !.release = release] \in OrderRecord
BY DEF OrderRecord

(* A failed release step may still land, and says nothing new. *)
LEMMA StepFailsStep ==
    ASSUME IInv, NEW o \in Orders, StepFails(o)
    PROVE  IInv'
<1> USE StoreAssumption
<1> DEFINE n == order[o].attempts + 1
           release == IF n <= ReleaseRetries THEN order[o].release ELSE "failed"
           kind == step[o].kind
<1>1. /\ Agrees(o) /\ TypeOK
      /\ step[o] # NoStep /\ kind \in Kinds
  BY DEF IInv, StepFails, Agrees, StepAgrees
<1>2. /\ UNCHANGED <<ledgerVars, registry, work, pass, asking, queue, platform>>
      /\ step' = [step EXCEPT ![o] = NoStep]
      /\ timer' = timer \/ timer' = [timer EXCEPT ![o] = kind]
      /\ ghosts' = ghosts \/ ghosts' = ghosts \cup {<<kind, o>>}
  BY DEF StepFails, FailsOrGoesUnconfirmed, chainVars, passVars, outside
<1>3. order[o] \in OrderRecord /\ order[o].hold # "none" /\ n \in Nat
  BY <1>1 DEF TypeOK, OrderRecord, Agrees, Fresh
<1>4. /\ release \in {"none", "pending", "shipped", "released", "disputed", "failed"}
      /\ release \in {order[o].release, "failed"}
  BY <1>3 DEF OrderRecord
<1>5. order' = [order EXCEPT ![o].attempts = n, ![o].release = release]
  BY DEF StepFails
<1> HIDE DEF n, release
<1>6. /\ order' \in [Orders -> OrderRecord]
      /\ order'[o] = [order[o] EXCEPT !.attempts = n, !.release = release]
      /\ \A x \in Orders \ {o} : order'[x] = order[x]
  <2>1. order' = [order EXCEPT ![o] = [order[o] EXCEPT !.attempts = n, !.release = release]]
    BY <1>1, <1>3, <1>5 DEF TypeOK
  <2>2. [order[o] EXCEPT !.attempts = n, !.release = release] \in OrderRecord
    BY <1>3, <1>4, AttemptUpdates
  <2> QED BY <1>1, <2>1, <2>2 DEF TypeOK
<1>7. /\ order'[o].hold = order[o].hold /\ order'[o].holdAttempts = order[o].holdAttempts
      /\ order'[o].fulfillment = order[o].fulfillment
      /\ order'[o].anchor = order[o].anchor
      /\ order'[o].release = release
  BY <1>3, <1>6 DEF OrderRecord
<1>8. /\ step' \in [Orders -> Step] /\ step'[o] = NoStep
      /\ \A x \in Orders \ {o} : step'[x] = step[x]
  <2>1. NoStep \in Step
    BY DEF NoStep, Step, Escrow!Status
  <2> QED BY <1>1, <1>2, <2>1 DEF TypeOK
<1>9. timer' \in [Orders -> {"none"} \cup Kinds]
  <2>1. timer \in [Orders -> {"none"} \cup Kinds]
    BY <1>1 DEF TypeOK
  <2>2. CASE timer' = timer
    BY <2>1, <2>2
  <2>3. CASE timer' = [timer EXCEPT ![o] = kind]
    BY <1>1, <2>1, <2>3
  <2> QED BY <1>2, <2>2, <2>3
<1>10. ghosts' \in SUBSET (Calls \X Orders)
  BY <1>1, <1>2 DEF TypeOK, Calls
<1>11. TypeOK'
  BY <1>1, <1>2, <1>6, <1>8, <1>9, <1>10 DEF TypeOK, LedgerType, ledgerVars
<1>12. Agrees(o)'
  <2>1. RecordAgrees(o)' /\ PurchaseAgrees(o)'
    BY <1>1, <1>2, <1>4, <1>7 DEF Agrees, RecordAgrees, PurchaseAgrees, OnChain, ledgerVars
  <2>2. LeftAgrees(o)'
    BY <1>1, <1>2, <1>7, <1>8 DEF Agrees, LeftAgrees, NoStep, ledgerVars
  <2>3. StepAgrees(o)' /\ AnchorAgrees(o)'
    BY <1>1, <1>2, <1>7, <1>8 DEF Agrees, StepAgrees, AnchorAgrees, MayAnchor, OnChain, NoStep,
       Kinds, DisputedStatus, ledgerVars
  <2>4. Fresh(o)' /\ PassAgrees(o)'
    BY <1>1, <1>2, <1>3, <1>7 DEF Agrees, Fresh, PassAgrees, OnChain, ledgerVars
  <2> QED BY <2>1, <2>2, <2>3, <2>4 DEF Agrees
<1>13. \A x \in Orders \ {o} : Untouched(x)
  BY <1>2, <1>6, <1>8 DEF Untouched, ledgerVars
<1> QED BY <1>2, <1>3, <1>7, <1>11, <1>12, <1>13, RecordOfOne

-----------------------------------------------------------------------------
(* A transaction nobody waits for any more. *)

(* Landing late is as good as landing in time. *)
LEMMA GhostLandsStep ==
    ASSUME IInv, NEW o \in Orders, NEW kind \in Calls, GhostLands(kind, o)
    PROVE  IInv'
<1> USE StoreAssumption
<1>1. /\ Agrees(o) /\ TypeOK /\ LedgerType /\ PurchaseAgrees(o)
      /\ UNCHANGED <<order, work, pass, asking, queue, step, timer, platform>>
      /\ <<kind, o>> \in ghosts /\ ghosts' = {}
      /\ step \in [Orders -> Step] /\ step' \in [Orders -> Step]
      /\ order[o].hold # "none"
  BY DEF IInv, TypeOK, Agrees, Fresh, GhostLands, passVars, releaseVars, outside
<1>2. CASE kind = "hold"
  <2>1. Escrow!Hold(o, Buyer, Price, o) /\ UNCHANGED registry
    BY <1>2 DEF GhostLands
  <2>2. /\ LedgerType' /\ Others(o) /\ ~OnChain(o)
        /\ purchase'[o] = Escrow!NewPurchase(Buyer, Price, o, "Held")
        /\ balance' - allocated' = (balance - allocated) - Price
    BY <1>1, <2>1, HoldLands
  <2>3. TypeOK'
    BY <1>1, <2>1, <2>2 DEF TypeOK
  <2>4. purchase'[o].status # "None" /\ o \in Waiting
    BY <1>1, <2>2 DEF Escrow!NewPurchase, Waiting, NoOrder
  <2>5. HoldsStayFunded'
    BY <1>1, <2>2, <2>4, FundsDraw DEF IInv
  <2>6. Agrees(o)'
    <3>1. PurchaseAgrees(o)' /\ OnChain(o)' /\ purchase'[o].shipped_at = 0
      BY <2>2 DEF PurchaseAgrees, OnChain, Escrow!NewPurchase, DisputedStatus
    <3>2. StepAgrees(o)' /\ RecordAgrees(o)'
      BY <1>1, <2>1, <2>2, <3>1 DEF Agrees, StepAgrees, RecordAgrees, PurchaseAgrees, OnChain
    <3>3. LeftAgrees(o)'
      BY <1>1, <3>1 DEF Agrees, LeftAgrees
    <3>4. Fresh(o)' /\ PassAgrees(o)' /\ AnchorAgrees(o)'
      BY <1>1, <2>1, <3>1 DEF Agrees, Fresh, PassAgrees, AnchorAgrees, MayAnchor
    <3> QED BY <3>1, <3>2, <3>3, <3>4 DEF Agrees
  <2>7. \A x \in Orders \ {o} : Untouched(x)
    BY <1>1, <2>1, <2>2 DEF Untouched, Others
  <2> QED BY <2>3, <2>5, <2>6, <2>7, StepOfOne
<1>3. CASE kind = "ship"
  <2>1. Escrow!MarkShipped(o) /\ UNCHANGED registry
    BY <1>3 DEF GhostLands
  <2>2. platform[o] = "fulfilled"
    BY <1>1, <1>3 DEF Agrees, LeftAgrees
  <2> QED BY <1>1, <2>1, <2>2, ShipAdvances
<1>4. CASE kind = "release"
  <2>1. Escrow!Release(o) /\ UNCHANGED registry
    BY <1>4 DEF GhostLands
  <2>2. LedgerType' /\ Others(o) /\ Steady /\ Proceeds(o)
    BY <1>1, <2>1, ReleaseLands
  <2> QED BY <1>1, <2>1, <2>2, ProceedsAdvances
<1>5. CASE kind = "anchor"
  <2>1. registry' = registry \cup {o} /\ UNCHANGED ledgerVars
    BY <1>5 DEF GhostLands
  <2>2. TypeOK'
    BY <1>1, <2>1 DEF TypeOK, LedgerType, ledgerVars
  <2>3. Agrees(o)'
    BY <1>1, <1>5, <2>1 DEF Agrees, Fresh, PurchaseAgrees, PassAgrees, StepAgrees, LeftAgrees,
       AnchorAgrees, MayAnchor, RecordAgrees, OnChain, ledgerVars
  <2>4. \A x \in Orders \ {o} : Untouched(x)
    BY <1>1, <2>1 DEF Untouched, ledgerVars
  <2> QED BY <1>1, <2>1, <2>2, <2>3, <2>4, RecordOfOne
<1> QED BY <1>2, <1>3, <1>4, <1>5 DEF Calls, Kinds

(* One that will never land leaves no trace. *)
LEMMA GhostExpiresStep ==
    ASSUME IInv, NEW o \in Orders, NEW kind \in Calls, GhostExpires(kind, o)
    PROVE  IInv'
<1>1. /\ Agrees(o) /\ TypeOK
      /\ UNCHANGED <<ledgerVars, registry, order, work, pass, asking, queue, step, timer,
                     platform>>
      /\ ghosts' \in SUBSET ghosts
  BY DEF IInv, GhostExpires, passVars, releaseVars, outside
<1>2. TypeOK'
  BY <1>1 DEF TypeOK, LedgerType, ledgerVars
<1>3. \A x \in Orders : Untouched(x)
  BY <1>1 DEF Untouched, ledgerVars
<1>4. Agrees(o)'
  BY <1>1, <1>3, Frame
<1> QED BY <1>1, <1>2, <1>3, <1>4, RecordOfOne

-----------------------------------------------------------------------------
(* Everyone else, and a restart. *)

(* The payer, the payee, the arbiter and anyone move the purchase on. *)
LEMMA LedgerMovesStep ==
    ASSUME IInv, NEW o \in Orders, LedgerMoves(o)
    PROVE  IInv'
<1>1. /\ LedgerType /\ PurchaseAgrees(o)
      /\ UNCHANGED <<registry, ghosts, order, work, pass, asking, queue, step, timer, platform>>
      /\ step' \in [Orders -> Step]
  BY DEF IInv, TypeOK, Agrees, LedgerMoves, passVars, releaseVars, outside
<1>2. LedgerType' /\ Others(o) /\ Steady /\ Proceeds(o)
  BY <1>1, LedgerMoveLands DEF LedgerMoves
<1> QED BY <1>1, <1>2, ProceedsAdvances

(* Time alone changes no record. *)
LEMMA TickStep ==
    ASSUME IInv, Tick \/ UNCHANGED vars
    PROVE  IInv'
<1> USE StoreAssumption
<1>1. /\ TypeOK
      /\ UNCHANGED <<balance, allocated, purchase, registry, ghosts, order, work, pass, asking,
                     queue, step, timer, platform>>
      /\ now' = now \/ (now < MaxTime /\ now' = now + 1)
  BY DEF IInv, Tick, Escrow!Tick, Escrow!tokenVars, Escrow!contractVars, vars, chainVars,
     ledgerVars, passVars, releaseVars, outside
<1>2. TypeOK'
  <2>1. LedgerType'
    BY <1>1 DEF TypeOK, LedgerType
  <2> QED BY <1>1, <2>1 DEF TypeOK
<1>3. \A x \in Orders : Untouched(x)
  BY <1>1 DEF Untouched
<1>4. HoldsStayFunded'
  BY <1>1, FundsKeep DEF IInv, Steady
<1> QED BY <1>2, <1>3, <1>4, Frame DEF IInv

(* What a restart forgets, nothing on record relies on. *)
LEMMA CrashStep ==
    ASSUME IInv, Crash
    PROVE  IInv'
<1> USE StoreAssumption
<1>1. /\ TypeOK
      /\ UNCHANGED <<ledgerVars, registry, ghosts, order, platform>>
      /\ work' = {o \in Orders : NeedsWork(o)}
      /\ pass' = NoPass
      /\ asking' = [o \in Orders |-> NoAnswer]
      /\ queue' = [o \in Orders |-> <<>>]
      /\ step' = [o \in Orders |-> NoStep]
      /\ timer' = [o \in Orders |-> ResumedTimer(o)]
  BY DEF IInv, Crash, chainVars
<1>2. TypeOK'
  <2>1. NoStep \in Step
    BY DEF NoStep, Step, Escrow!Status
  <2>2. \A o \in Orders : ResumedTimer(o) \in {"none"} \cup Kinds
    BY DEF ResumedTimer, Kinds
  <2>3. timer' \in [Orders -> {"none"} \cup Kinds] /\ step' \in [Orders -> Step]
    BY <1>1, <2>1, <2>2
  <2>4. /\ queue' \in [Orders -> Seq(Kinds)]
        /\ asking' \in [Orders -> Answer]
    BY <1>1 DEF NoAnswer, Answer
  <2> QED BY <1>1, <2>3, <2>4 DEF TypeOK, LedgerType, ledgerVars, NoPass
<1>3. ASSUME NEW x \in Orders PROVE Agrees(x)'
  <2>1. Agrees(x) /\ asking'[x] = NoAnswer /\ step'[x] = NoStep
    BY <1>1 DEF IInv
  <2>2. Fresh(x)' /\ PassAgrees(x)' /\ AnchorAgrees(x)'
    BY <1>1, <2>1 DEF Agrees, Fresh, PassAgrees, AnchorAgrees, MayAnchor, NeedsWork, OnChain,
       NoPass, NoAnswer, NoStep, ledgerVars
  <2>3. StepAgrees(x)' /\ LeftAgrees(x)'
    BY <1>1, <2>1 DEF Agrees, StepAgrees, LeftAgrees, NoAnswer, NoStep, DisputedStatus,
       ledgerVars
  <2>4. PurchaseAgrees(x)' /\ RecordAgrees(x)'
    BY <1>1, <2>1 DEF Agrees, PurchaseAgrees, RecordAgrees, OnChain, ledgerVars
  <2> QED BY <2>2, <2>3, <2>4 DEF Agrees
<1>4. HoldsStayFunded'
  BY <1>1, FundsKeep DEF IInv, Steady, ledgerVars
<1> QED BY <1>2, <1>3, <1>4 DEF IInv

-----------------------------------------------------------------------------
(* Every step of the specification keeps the invariant. *)
LEMMA StepPreserves == IInv /\ [Next]_vars => IInv'
<1> SUFFICES ASSUME IInv, [Next]_vars PROVE IInv'
  OBVIOUS
<1>1. ASSUME NEW o \in Orders, AnchorWorker(o) PROVE IInv'
  BY <1>1, BeginPassStep, SendHoldStep, RecordHeldStep, HoldFailsStep, SendAnchorStep,
     AnchorEndsStep DEF AnchorWorker
<1>2. ASSUME NEW o \in Orders, EscrowReleases(o) PROVE IInv'
  BY <1>2, TimerFiresStep, BeginStepStep, SendStep, ReadStep, SettleStep, StepFailsStep
     DEF EscrowReleases
<1>3. ASSUME NEW o \in Orders, NEW kind \in {"hold", "anchor", "ship", "release"},
             GhostLands(kind, o) \/ GhostExpires(kind, o)
      PROVE  IInv'
  BY <1>3, GhostLandsStep, GhostExpiresStep DEF Calls, Kinds
<1>4. CASE Next
  BY <1>1, <1>2, <1>3, <1>4, PlaceStep, AskPlatformStep, RecordShipmentStep,
     AfterShipmentStep, ShipmentFailsStep, PlatformMovesStep, LedgerMovesStep, CrashStep, TickStep DEF Next
<1> QED BY <1>4, TickStep

(* So it holds in every reachable state. *)
LEMMA Invariance == Spec => []IInv
<1> QED BY InitEstablishes, StepPreserves, PTL DEF Spec

(* What OrderStore says of a payment, a receipt and a release is true on the
   ledger, whatever landed late, failed or was cut by a restart, for any
   number of orders, retries and faults (anchoring.ts, escrow-release.ts).  *)
THEOREM RecordsAreTrue == Spec => []RecordMatchesChain
<1>1. IInv => RecordMatchesChain
  BY DEF IInv, Agrees, RecordAgrees, PurchaseAgrees, RecordMatchesChain
<1> QED BY <1>1, Invariance, PTL

(* mark_shipped reaches the escrow only for an order that left in full, even
   when the transaction lands after the store gave up on it.                *)
THEOREM ShippedOnlyInFull == Spec => []ShippedMeansAllLeft
<1>1. IInv => ShippedMeansAllLeft
  BY DEF IInv, Agrees, LeftAgrees, ShippedMeansAllLeft
<1> QED BY <1>1, Invariance, PTL

(* No receipt is public before its payment is held, unless the hold ran out
   of retries for good.                                                     *)
THEOREM HeldFirst == Spec => []HeldBeforeAnchored
<1>1. IInv => HeldBeforeAnchored
  BY DEF IInv, TypeOK, Agrees, AnchorAgrees, MayAnchor, HeldBeforeAnchored
<1> QED BY <1>1, Invariance, PTL

(* The escrow's unallocated balance is exactly what the orders still to be
   held have brought, so no hold starves another.                           *)
THEOREM EveryHoldIsFunded == Spec => []HoldsStayFunded
<1>1. IInv => HoldsStayFunded
  BY DEF IInv
<1> QED BY <1>1, Invariance, PTL

(* The store only ever does to the escrow what the contract allows: each of
   its steps is a step of PurchaseEscrow or leaves the ledger alone, so what
   is proved of the contract holds under this server too, given the
   assumptions of both.                                                     *)
THEOREM StoreObeysTheContract == Spec => Escrow!Spec
<1> USE StoreAssumption
<1>1. Init => Escrow!Init
  BY DEF Init
<1>2. [Next]_vars => [Escrow!Next]_(Escrow!vars)
  <2> SUFFICES ASSUME [Next]_vars PROVE Escrow!Next \/ UNCHANGED ledgerVars
    BY DEF Escrow!vars, ledgerVars
  <2>1. ASSUME NEW o \in Orders, Escrow!Hold(o, Buyer, Price, o) PROVE Escrow!Next
    BY <2>1 DEF Escrow!Next, Escrow!Operation
  <2>2. ASSUME NEW o \in Orders, Escrow!MarkShipped(o) \/ Escrow!Release(o) PROVE Escrow!Next
    BY <2>2 DEF Escrow!Next, Escrow!Operation
  <2>3. ASSUME NEW o \in Orders, LedgerMoves(o) PROVE Escrow!Next
    BY <2>2, <2>3 DEF LedgerMoves, Escrow!Next, Escrow!Operation
  <2>4. ASSUME NEW o \in Orders, Place(o) PROVE Escrow!Next
    BY <2>4 DEF Place, Escrow!Next, Escrow!Amounts
  <2>5. ASSUME NEW o \in Orders, AnchorWorker(o) PROVE Escrow!Next \/ UNCHANGED ledgerVars
    BY <2>1, <2>5 DEF AnchorWorker, BeginPass, SendHold, HoldOrder, Lands, RecordHeld, HoldFails,
       SendAnchor, RecordAnchored, AnchorFails, AttemptFails, FailsOrGoesUnconfirmed, chainVars
  <2>6. ASSUME NEW o \in Orders, EscrowReleases(o) PROVE Escrow!Next \/ UNCHANGED ledgerVars
    BY <2>2, <2>6 DEF EscrowReleases, TimerFires, BeginStep, SendShip, SendRelease, Lands,
       ReleaseTooEarly, ReadAgain, Settle, StepFails, FailsOrGoesUnconfirmed, chainVars
  <2>7. ASSUME NEW o \in Orders, NEW kind \in {"hold", "anchor", "ship", "release"},
               GhostLands(kind, o) \/ GhostExpires(kind, o)
        PROVE  Escrow!Next \/ UNCHANGED ledgerVars
    BY <2>1, <2>2, <2>7 DEF GhostLands, GhostExpires
  <2>8. CASE Tick
    BY <2>8 DEF Tick, Escrow!Next
  <2>9. CASE Crash \/ UNCHANGED vars
    BY <2>9 DEF Crash, vars, chainVars
  <2>10. ASSUME NEW o \in Orders,
                \/ \E left \in Parcels : AskPlatform(o, left)
                \/ RecordShipment(o) \/ AfterShipment(o) \/ ShipmentFails(o)
                \/ \E to \in {"partial", "fulfilled", "canceled"} : PlatformMoves(o, to)
         PROVE  UNCHANGED ledgerVars
    BY <2>10 DEF AskPlatform, RecordShipment, AfterShipment, ShipmentFails, PlatformMoves,
       chainVars
  <2> QED BY <2>3, <2>4, <2>5, <2>6, <2>7, <2>8, <2>9, <2>10 DEF Next
<1> QED BY <1>1, <1>2, PTL DEF Spec, Escrow!Spec
=============================================================================
