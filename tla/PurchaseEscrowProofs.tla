------------------------ MODULE PurchaseEscrowProofs ------------------------
(***************************************************************************)
(* The escrow's safety, for any number of orders, accounts and payments and *)
(* any windows.                                                             *)
(***************************************************************************)
EXTENDS PurchaseEscrow, FiniteSetTheorems, TLAPS

(* The inductive invariant.  That the contract stays solvent needs the index
   of payments and the records to agree with the running total, so all parts
   are carried together.                                                    *)
IInv ==
    /\ TypeOK
    /\ WellFormed
    /\ AllocatedIsTheSumLocked
    /\ allocated <= balance
    /\ PaidOnce
    /\ OnePaymentOnePurchase

-----------------------------------------------------------------------------
(* Sums of token amounts: what changing one entry does to a sum.  Each amount
   is counted by its units, so a sum is the size of a finite set.           *)

(* The units of entry e when its amount is k. *)
UnitsOf(e, k) == {e} \X (1..k)

(* The units of every entry but e. *)
Others(S, bound, a, e) == {u \in Units(S, bound, a) : u[1] # e}

(* There are finitely many units. *)
LEMMA AllUnitsFinite ==
    ASSUME NEW S, IsFiniteSet(S), NEW bound \in Nat
    PROVE  IsFiniteSet(S \X (1..bound))
<1>1. IsFiniteSet(1..bound)
  BY FS_Interval
<1> QED BY <1>1, FS_Product

(* An entry of k units has exactly k of them: i |-> <<e, i>> counts them. *)
LEMMA UnitsOfCardinality ==
    ASSUME NEW e, NEW k \in Nat
    PROVE  IsFiniteSet(UnitsOf(e, k)) /\ Cardinality(UnitsOf(e, k)) = k
<1> DEFINE f == [i \in 1..k |-> <<e, i>>]
<1>1. IsFiniteSet(1..k) /\ Cardinality(1..k) = k
  BY FS_Interval
<1>2. f \in Bijection(1..k, UnitsOf(e, k))
  <2>1. f \in [1..k -> UnitsOf(e, k)]
    BY DEF UnitsOf
  <2>2. IsInjective(f)
    BY DEF IsInjective
  <2>3. \A t \in UnitsOf(e, k) : \E i \in 1..k : f[i] = t
    BY DEF UnitsOf
  <2> QED BY <2>1, <2>2, <2>3 DEF Bijection, Injection, Surjection
<1>3. ExistsBijection(1..k, UnitsOf(e, k))
  BY <1>2 DEF ExistsBijection
<1> QED BY <1>1, <1>3, FS_Bijection

(* The sum splits into one entry's amount and the others'. *)
LEMMA TotalSplits ==
    ASSUME NEW S, IsFiniteSet(S), NEW bound \in Nat,
           NEW a \in [S -> 0..bound], NEW e \in S
    PROVE  /\ IsFiniteSet(Units(S, bound, a))
           /\ Cardinality(Others(S, bound, a, e)) \in Nat
           /\ Total(S, bound, a) = Cardinality(Others(S, bound, a, e)) + a[e]
<1> DEFINE rest == Others(S, bound, a, e)
           mine == UnitsOf(e, a[e])
<1>1. IsFiniteSet(Units(S, bound, a))
  BY AllUnitsFinite, FS_Subset DEF Units
<1>2. IsFiniteSet(rest) /\ Cardinality(rest) \in Nat
  BY <1>1, FS_Subset, FS_CardinalityType DEF Others
<1>3. IsFiniteSet(mine) /\ Cardinality(mine) = a[e]
  BY UnitsOfCardinality
<1>4. Units(S, bound, a) = rest \cup mine
  BY DEF Units, UnitsOf, Others
<1>5. rest \cap mine = {}
  BY DEF UnitsOf, Others
<1> HIDE DEF rest, mine
<1>6. Cardinality(rest \cup mine) = Cardinality(rest) + Cardinality(mine)
  BY <1>2, <1>3, <1>5, FS_Union, FS_EmptySet
<1>7. Total(S, bound, a) = Cardinality(rest) + a[e]
  BY <1>3, <1>4, <1>6 DEF Total
<1> QED BY <1>1, <1>2, <1>7 DEF rest

(* A sum of amounts is a natural number, at least as large as any of them. *)
LEMMA TotalBounds ==
    ASSUME NEW S, IsFiniteSet(S), NEW bound \in Nat,
           NEW a \in [S -> 0..bound]
    PROVE  /\ Total(S, bound, a) \in Nat
           /\ \A e \in S : a[e] <= Total(S, bound, a)
<1>1. Total(S, bound, a) \in Nat
  BY AllUnitsFinite, FS_Subset, FS_CardinalityType DEF Total, Units
<1>2. ASSUME NEW e \in S PROVE a[e] <= Total(S, bound, a)
  BY <1>1, TotalSplits
<1> QED BY <1>1, <1>2

(* Changing one entry changes the sum by the difference. *)
LEMMA TotalUpdate ==
    ASSUME NEW S, IsFiniteSet(S), NEW bound \in Nat,
           NEW a \in [S -> 0..bound], NEW b \in [S -> 0..bound], NEW e \in S,
           \A x \in S \ {e} : b[x] = a[x]
    PROVE  Total(S, bound, b) = (Total(S, bound, a) - a[e]) + b[e]
<1>1. Others(S, bound, a, e) = Others(S, bound, b, e)
  BY DEF Units, Others
<1>2. /\ Cardinality(Others(S, bound, a, e)) \in Nat
      /\ Total(S, bound, a) = Cardinality(Others(S, bound, a, e)) + a[e]
  BY TotalSplits
<1>3. Total(S, bound, b) = Cardinality(Others(S, bound, b, e)) + b[e]
  BY TotalSplits
<1> QED BY <1>1, <1>2, <1>3

(* A sum of zeros is zero. *)
LEMMA TotalOfZeros ==
    ASSUME NEW S, NEW bound \in Nat, NEW a \in [S -> {0}]
    PROVE  Total(S, bound, a) = 0
<1>1. Units(S, bound, a) = {}
  BY DEF Units
<1> QED BY <1>1, FS_EmptySet DEF Total

-----------------------------------------------------------------------------
(* What the sum runs over. *)
LockedFcn == [o \in Orders |-> Locked(o)]

LEMMA LockedType ==
    ASSUME TypeOK PROVE LockedFcn \in [Orders -> 0..MaxAmount]
BY DEF TypeOK, LockedFcn, Locked, Purchase

(* The allocation of one order is part of the total. *)
LEMMA LockedIsAllocated ==
    ASSUME IInv, NEW o \in Orders PROVE Locked(o) <= allocated
<1>1. LockedFcn \in [Orders -> 0..MaxAmount]
  BY LockedType DEF IInv
<1>2. LockedFcn[o] <= Total(Orders, MaxAmount, LockedFcn)
  BY <1>1, TotalBounds, PartiesAssumption, BoundsAssumption
<1> QED BY <1>2 DEF LockedFcn, IInv, AllocatedIsTheSumLocked

(* A step that touches one order's record moves the total by the change in
   what that order has locked.                                              *)
LEMMA TotalFollows ==
    ASSUME TypeOK, AllocatedIsTheSumLocked, NEW o \in Orders,
           purchase' \in [Orders -> Purchase],
           \A x \in Orders \ {o} : purchase'[x] = purchase[x],
           allocated' = (allocated - Locked(o)) + Locked(o)'
    PROVE  AllocatedIsTheSumLocked'
<1>1. LockedFcn \in [Orders -> 0..MaxAmount]
  BY LockedType
<1>2. LockedFcn' \in [Orders -> 0..MaxAmount]
  BY DEF LockedFcn, Locked, Purchase
<1>3. \A x \in Orders \ {o} : LockedFcn'[x] = LockedFcn[x]
  BY DEF LockedFcn, Locked
<1>4. Total(Orders, MaxAmount, LockedFcn') =
        (Total(Orders, MaxAmount, LockedFcn) - LockedFcn[o]) + LockedFcn'[o]
  BY <1>1, <1>2, <1>3, TotalUpdate, PartiesAssumption, BoundsAssumption
<1> QED BY <1>4 DEF LockedFcn, AllocatedIsTheSumLocked

LEMMA InitEstablishes == Init => IInv
<1> SUFFICES ASSUME Init PROVE IInv
  OBVIOUS
<1> USE PartiesAssumption, BoundsAssumption
<1>1. TypeOK
  BY DEF Init, TypeOK, Purchase, NoPurchase, NewPurchase, Status
<1>2. WellFormed /\ PaidOnce /\ OnePaymentOnePurchase /\ allocated <= balance
  BY DEF Init, WellFormed, PaidOnce, OnePaymentOnePurchase, NoPurchase, NewPurchase, ClosedStatus
<1>3. AllocatedIsTheSumLocked
  <2>1. LockedFcn \in [Orders -> {0}]
    BY DEF Init, LockedFcn, Locked, NoPurchase, NewPurchase, OpenStatus
  <2>2. Total(Orders, MaxAmount, LockedFcn) = 0
    BY <2>1, TotalOfZeros
  <2> QED BY <2>2 DEF Init, AllocatedIsTheSumLocked, LockedFcn
<1> QED BY <1>1, <1>2, <1>3 DEF IInv

(* Close splits an open purchase's amount between refund and store. *)
LEMMA CloseStep ==
    ASSUME IInv, NEW o \in Orders, NEW status \in ClosedStatus,
           NEW refund \in 0..MaxAmount, refund <= purchase[o].amount,
           purchase[o].status \in OpenStatus,
           Close(o, status, refund)
    PROVE  IInv'
<1> DEFINE p == purchase[o]
           owed == IF refund = 0 \/ Transfers(p.payer, refund, balance)
                   THEN 0 ELSE refund
           toStore == p.amount - refund
           held == balance - (refund - owed)
<1> USE PartiesAssumption, BoundsAssumption
<1>1. /\ purchase' = [purchase EXCEPT ![o].status = status,
                                      ![o].refund = refund,
                                      ![o].refund_owed = owed]
      /\ allocated' = (allocated - p.amount) + owed
      /\ balance' = held - toStore
      /\ paid' = [paid EXCEPT ![o] = [payer |-> paid[o].payer + (refund - owed),
                                      store |-> paid[o].store + toStore]]
      /\ toStore > 0 => toStore <= held
      /\ UNCHANGED <<now, canReceive, payment, arrived>>
  BY DEF Close, PayeeReceives, Owed, Transfers
<1>2. /\ purchase \in [Orders -> Purchase] /\ balance \in Nat /\ allocated \in Nat
      /\ paid \in [Orders -> [payer : Nat, store : Nat]]
      /\ p \in Purchase /\ p.amount \in Nat
  BY DEF IInv, TypeOK, Purchase
<1>3. owed \in 0..MaxAmount /\ owed \in {0, refund}
  OBVIOUS
<1>4. refund = 0 \/ owed = refund \/ refund <= balance
  BY DEF Transfers
<1> HIDE DEF owed
<1>5. p.amount <= allocated
  BY LockedIsAllocated DEF Locked
<1>6. /\ \A x \in Orders \ {o} : purchase'[x] = purchase[x]
      /\ purchase'[o].payer = p.payer /\ purchase'[o].amount = p.amount
      /\ purchase'[o].tx_hash = p.tx_hash /\ purchase'[o].status = status
      /\ purchase'[o].refund = refund /\ purchase'[o].refund_owed = owed
  BY <1>1, <1>2 DEF Purchase
<1>14. /\ paid' \in [Orders -> [payer : Nat, store : Nat]]
       /\ \A x \in Orders \ {o} : paid'[x] = paid[x]
       /\ paid'[o].payer = paid[o].payer + (refund - owed)
       /\ paid'[o].store = paid[o].store + toStore
  <2>1. paid[o] \in [payer : Nat, store : Nat]
    BY <1>2
  <2>2. refund - owed \in Nat /\ toStore \in Nat
    BY <1>2, <1>3
  <2> HIDE DEF toStore
  <2> QED BY <1>1, <1>2, <2>1, <2>2
<1>7. purchase' \in [Orders -> Purchase]
  BY <1>1, <1>2, <1>3 DEF Purchase, Status
<1>8. TypeOK'
  <2>2. balance' \in Nat
    BY <1>1, <1>2, <1>3, <1>4
  <2>3. allocated' \in Nat
    BY <1>1, <1>2, <1>3, <1>5
  <2> QED BY <1>1, <1>7, <1>14, <2>2, <2>3 DEF IInv, TypeOK
<1>9. WellFormed'
  <2>1. /\ p.payer \in Accounts /\ p.tx_hash \in TxHashes /\ p.amount \in Amounts
        /\ status # "None" /\ status \notin OpenStatus
    BY DEF IInv, WellFormed, OpenStatus, ClosedStatus
  <2> QED BY <1>6, <2>1 DEF IInv, WellFormed
<1>10. AllocatedIsTheSumLocked'
  <2>1. Locked(o) = p.amount /\ Locked(o)' = owed
    BY <1>2, <1>6 DEF Locked, Purchase, OpenStatus, ClosedStatus
  <2> QED BY <1>1, <1>6, <1>7, <2>1, TotalFollows DEF IInv
<1>11. (allocated <= balance)'
  BY <1>1, <1>2, <1>3 DEF IInv
<1>12. PaidOnce'
  <2>1. paid[o] = [payer |-> 0, store |-> 0]
    BY DEF IInv, PaidOnce, OpenStatus, ClosedStatus
  <2> QED BY <1>2, <1>3, <1>6, <1>14, <2>1 DEF IInv, PaidOnce
<1>13. OnePaymentOnePurchase'
  <2>1. \A x \in Orders : purchase'[x].tx_hash = purchase[x].tx_hash
    BY <1>2, <1>6 DEF Purchase
  <2>3. \A x \in Orders : purchase'[x].status # "None" => purchase[x].status # "None"
    BY <1>2, <1>6 DEF OpenStatus
  <2>2. payment' = payment
    BY <1>1
  <2> QED BY <2>1, <2>2, <2>3 DEF IInv, TypeOK, OnePaymentOnePurchase
<1> QED BY <1>8, <1>9, <1>10, <1>11, <1>12, <1>13 DEF IInv

(* Held -> Shipped, Held or Shipped -> Disputed, Disputed -> Responded: the
   purchase stays open and keeps its terms, and no money moves.             *)
LEMMA StatusStep ==
    ASSUME IInv, NEW o \in Orders, NEW q \in Purchase,
           purchase[o].status \in OpenStatus, q.status \in OpenStatus,
           q.payer = purchase[o].payer, q.amount = purchase[o].amount,
           q.tx_hash = purchase[o].tx_hash, q.refund = purchase[o].refund,
           q.refund_owed = purchase[o].refund_owed,
           purchase' = [purchase EXCEPT ![o] = q],
           UNCHANGED <<now, allocated, payment, tokenVars>>
    PROVE  IInv'
<1> USE DEF tokenVars
<1>1. purchase \in [Orders -> Purchase]
  BY DEF IInv, TypeOK
<1>2. purchase' \in [Orders -> Purchase]
  BY <1>1
<1>3. purchase'[o] = q /\ \A x \in Orders \ {o} : purchase'[x] = purchase[x]
  BY <1>1
<1>4. TypeOK'
  BY <1>2 DEF IInv, TypeOK
<1>5. WellFormed'
  BY <1>1, <1>3 DEF IInv, WellFormed, OpenStatus
<1>6. AllocatedIsTheSumLocked'
  <2>1. Locked(o) = purchase[o].amount /\ Locked(o)' = purchase[o].amount
    BY <1>3 DEF Locked
  <2>2. purchase[o].amount \in Nat /\ allocated \in Nat
    BY <1>1 DEF IInv, TypeOK, Purchase
  <2> QED BY <1>2, <1>3, <2>1, <2>2, TotalFollows DEF IInv
<1>7. PaidOnce'
  BY <1>1, <1>3 DEF IInv, PaidOnce, OpenStatus, ClosedStatus
<1>8. OnePaymentOnePurchase'
  BY <1>1, <1>3 DEF IInv, TypeOK, OnePaymentOnePurchase, OpenStatus
<1> QED BY <1>4, <1>5, <1>6, <1>7, <1>8 DEF IInv

LEMMA HoldStep ==
    ASSUME IInv, NEW o \in Orders, NEW payer \in Accounts,
           NEW amount \in 0..MaxAmount, NEW t \in TxHashes,
           Hold(o, payer, amount, t)
    PROVE  IInv'
<1> DEFINE q == NewPurchase(payer, amount, t, "Held")
<1> USE PartiesAssumption, BoundsAssumption DEF tokenVars
<1>0. amount \in Amounts
  BY DEF Hold, Amounts
<1>1. purchase \in [Orders -> Purchase] /\ payment \in [TxHashes -> Orders \cup {NoOne}]
  BY DEF IInv, TypeOK
<1>2. /\ purchase[o].status = "None" /\ payment[t] = NoOne
      /\ amount <= balance - allocated /\ allocated' = allocated + amount
      /\ purchase' = [purchase EXCEPT ![o] = q]
      /\ payment' = [payment EXCEPT ![t] = o]
      /\ UNCHANGED <<now, tokenVars>>
  BY DEF Hold, Record, unallocated
<1>3. q \in Purchase
  BY DEF Purchase, NewPurchase, Status, OpenStatus, Amounts
<1>4. /\ q.payer = payer /\ q.amount = amount /\ q.tx_hash = t
      /\ q.status = "Held" /\ q.refund = 0 /\ q.refund_owed = 0
  BY DEF NewPurchase
<1> HIDE DEF q
<1>5. /\ purchase' \in [Orders -> Purchase]
      /\ purchase'[o] = q /\ \A x \in Orders \ {o} : purchase'[x] = purchase[x]
  BY <1>1, <1>2, <1>3
<1>6. TypeOK'
  BY <1>1, <1>2, <1>5 DEF IInv, TypeOK, Amounts
<1>7. WellFormed'
  BY <1>0, <1>4, <1>5 DEF IInv, WellFormed, OpenStatus, Amounts
<1>8. purchase[o] = NoPurchase
  BY <1>2 DEF IInv, WellFormed
<1>9. AllocatedIsTheSumLocked'
  <2>1. Locked(o) = 0 /\ Locked(o)' = amount
    BY <1>4, <1>5, <1>8 DEF Locked, NoPurchase, NewPurchase, OpenStatus
  <2>2. allocated \in Nat /\ amount \in Nat
    BY DEF IInv, TypeOK, Amounts
  <2> QED BY <1>2, <1>5, <2>1, <2>2, TotalFollows DEF IInv
<1>10. (allocated <= balance)'
  BY <1>2 DEF IInv, TypeOK, Amounts
<1>11. PaidOnce'
  BY <1>2, <1>4, <1>5 DEF IInv, PaidOnce, ClosedStatus
<1>12. OnePaymentOnePurchase'
  <2>1. \A x \in Orders \ {o} : purchase[x].status # "None" => purchase[x].tx_hash # t
    BY <1>2 DEF IInv, OnePaymentOnePurchase
  <2>2. \A s \in TxHashes \ {t} : payment[s] # o
    BY <1>8 DEF IInv, OnePaymentOnePurchase, NoPurchase, NewPurchase
  <2> QED BY <1>1, <1>2, <1>4, <1>5, <2>1, <2>2 DEF IInv, OnePaymentOnePurchase, WellFormed
<1> QED BY <1>6, <1>7, <1>9, <1>10, <1>11, <1>12 DEF IInv

LEMMA ClaimRefundStep ==
    ASSUME IInv, NEW o \in Orders, ClaimRefund(o)
    PROVE  IInv'
<1> DEFINE p == purchase[o]
           q == [p EXCEPT !.refund_owed = 0]
<1> USE PartiesAssumption, BoundsAssumption
<1>1. /\ purchase \in [Orders -> Purchase] /\ p \in Purchase
      /\ p.refund_owed \in Nat /\ allocated \in Nat /\ balance \in Nat
      /\ paid \in [Orders -> [payer : Nat, store : Nat]]
  BY DEF IInv, TypeOK, Purchase
<1>2. /\ p.refund_owed > 0 /\ p.refund_owed <= balance
      /\ purchase' = [purchase EXCEPT ![o] = q]
      /\ allocated' = allocated - p.refund_owed
      /\ balance' = balance - p.refund_owed
      /\ paid' = [paid EXCEPT ![o] = [payer |-> paid[o].payer + p.refund_owed,
                                      store |-> paid[o].store]]
      /\ UNCHANGED <<now, canReceive, payment, arrived>>
  BY <1>1 DEF ClaimRefund, Pay, Transfers
<1>3. /\ q \in Purchase /\ q.payer = p.payer /\ q.amount = p.amount
      /\ q.tx_hash = p.tx_hash /\ q.status = p.status /\ q.refund = p.refund
      /\ q.refund_owed = 0
  BY <1>1 DEF Purchase
<1>4. p.status \in ClosedStatus
  BY <1>1, <1>2 DEF IInv, PaidOnce
<1> HIDE DEF q
<1>5. /\ purchase' \in [Orders -> Purchase]
      /\ purchase'[o] = q /\ \A x \in Orders \ {o} : purchase'[x] = purchase[x]
  BY <1>1, <1>2, <1>3
<1>6. /\ paid' \in [Orders -> [payer : Nat, store : Nat]]
      /\ paid'[o].payer = paid[o].payer + p.refund_owed
      /\ paid'[o].store = paid[o].store
      /\ \A x \in Orders \ {o} : paid'[x] = paid[x]
  BY <1>1, <1>2
<1>7. Locked(o) = p.refund_owed /\ Locked(o)' = 0
  BY <1>3, <1>4, <1>5 DEF Locked, OpenStatus, ClosedStatus
<1>8. p.refund_owed <= allocated
  BY <1>7, LockedIsAllocated
<1>9. TypeOK'
  BY <1>1, <1>2, <1>5, <1>6, <1>8 DEF IInv, TypeOK
<1>10. WellFormed'
  BY <1>3, <1>4, <1>5 DEF IInv, WellFormed, OpenStatus, ClosedStatus
<1>11. AllocatedIsTheSumLocked'
  BY <1>1, <1>2, <1>5, <1>7, TotalFollows DEF IInv
<1>12. (allocated <= balance)'
  BY <1>1, <1>2 DEF IInv
<1>13. PaidOnce'
  BY <1>1, <1>3, <1>4, <1>5, <1>6 DEF IInv, PaidOnce, Purchase
<1>14. OnePaymentOnePurchase'
  BY <1>2, <1>3, <1>5 DEF IInv, TypeOK, OnePaymentOnePurchase
<1> QED BY <1>9, <1>10, <1>11, <1>12, <1>13, <1>14 DEF IInv

LEMMA MarkShippedStep ==
    ASSUME IInv, NEW o \in Orders, MarkShipped(o) PROVE IInv'
<1> DEFINE q == [purchase[o] EXCEPT !.status = "Shipped", !.shipped_at = now]
<1>1. purchase[o] \in Purchase /\ now \in 0..MaxTime
  BY BoundsAssumption DEF IInv, TypeOK
<1>2. purchase' = [purchase EXCEPT ![o] = q]
  BY DEF MarkShipped
<1>3. /\ q \in Purchase /\ q.status = "Shipped" /\ q.payer = purchase[o].payer
      /\ q.amount = purchase[o].amount /\ q.tx_hash = purchase[o].tx_hash
      /\ q.refund = purchase[o].refund /\ q.refund_owed = purchase[o].refund_owed
  BY <1>1 DEF Purchase, Status, OpenStatus
<1> HIDE DEF q
<1> QED BY <1>2, <1>3, StatusStep DEF MarkShipped, OpenStatus

LEMMA OpenDisputeStep ==
    ASSUME IInv, NEW o \in Orders, OpenDispute(o) PROVE IInv'
<1> DEFINE q == [purchase[o] EXCEPT !.status = "Disputed", !.opened_at = now]
<1>1. purchase[o] \in Purchase /\ now \in 0..MaxTime
  BY BoundsAssumption DEF IInv, TypeOK
<1>2. purchase' = [purchase EXCEPT ![o] = q]
  BY DEF OpenDispute, MayOpenDispute
<1>3. /\ q \in Purchase /\ q.status = "Disputed" /\ q.payer = purchase[o].payer
      /\ q.amount = purchase[o].amount /\ q.tx_hash = purchase[o].tx_hash
      /\ q.refund = purchase[o].refund /\ q.refund_owed = purchase[o].refund_owed
  BY <1>1 DEF Purchase, Status, OpenStatus
<1> HIDE DEF q
<1> QED BY <1>2, <1>3, StatusStep DEF OpenDispute, MayOpenDispute, OpenStatus

LEMMA RespondStep ==
    ASSUME IInv, NEW o \in Orders, Respond(o) PROVE IInv'
<1> DEFINE q == [purchase[o] EXCEPT !.status = "Responded"]
<1>1. purchase[o] \in Purchase
  BY DEF IInv, TypeOK
<1>2. purchase' = [purchase EXCEPT ![o] = q]
  BY DEF Respond, MayRespond
<1>3. /\ q \in Purchase /\ q.status = "Responded" /\ q.payer = purchase[o].payer
      /\ q.amount = purchase[o].amount /\ q.tx_hash = purchase[o].tx_hash
      /\ q.refund = purchase[o].refund /\ q.refund_owed = purchase[o].refund_owed
  BY <1>1 DEF Purchase, Status, OpenStatus
<1> HIDE DEF q
<1> QED BY <1>2, <1>3, StatusStep DEF Respond, MayRespond, OpenStatus

(* A step that leaves the contract's records alone and takes nothing out. *)
LEMMA LedgerStep ==
    ASSUME IInv, UNCHANGED <<contractVars, paid>>, balance' \in Nat,
           balance' >= balance, arrived' \in Nat, now' \in 1..MaxTime,
           canReceive' \in SUBSET Accounts
    PROVE  IInv'
<1> USE DEF contractVars
<1>1. TypeOK'
  BY DEF IInv, TypeOK
<1>2. AllocatedIsTheSumLocked'
  BY DEF IInv, AllocatedIsTheSumLocked, Locked
<1>3. (allocated <= balance)'
  BY DEF IInv, TypeOK
<1>4. WellFormed' /\ PaidOnce' /\ OnePaymentOnePurchase'
  BY DEF IInv, WellFormed, PaidOnce, OnePaymentOnePurchase
<1> QED BY <1>1, <1>2, <1>3, <1>4 DEF IInv

LEMMA StepPreserves == IInv /\ [Next]_vars => IInv'
<1> SUFFICES ASSUME IInv, [Next]_vars PROVE IInv'
  OBVIOUS
<1>1. ASSUME NEW o \in Orders, Operation(o) PROVE IInv'
  <2>0. purchase[o].amount \in 0..MaxAmount
    BY <1>1 DEF IInv, TypeOK, Purchase
  <2>1. ASSUME NEW payer \in Accounts, NEW amount \in 0..MaxAmount, NEW t \in TxHashes,
               Hold(o, payer, amount, t)
        PROVE  IInv'
    BY <2>1, <1>1, HoldStep
  <2>2. CASE MarkShipped(o)
    BY <2>2, <1>1, MarkShippedStep
  <2>3. CASE Release(o)
    <3>1. Close(o, "Released", 0) /\ purchase[o].status \in OpenStatus
      BY <2>3 DEF Release, MayRelease, OpenStatus
    <3>2. 0 \in 0..MaxAmount /\ 0 <= purchase[o].amount
      BY <2>0, BoundsAssumption
    <3> QED BY <1>1, <3>1, <3>2, CloseStep DEF ClosedStatus
  <2>4. CASE OpenDispute(o)
    BY <2>4, <1>1, OpenDisputeStep
  <2>5. CASE Respond(o)
    BY <2>5, <1>1, RespondStep
  <2>6. ASSUME NEW refund \in 0..MaxAmount, Resolve(o, refund) PROVE IInv'
    <3>1. /\ Close(o, "Resolved", refund) /\ purchase[o].status \in OpenStatus
          /\ refund <= purchase[o].amount
      BY <2>6 DEF Resolve, MayResolve, OpenStatus
    <3> QED BY <1>1, <2>6, <3>1, CloseStep DEF ClosedStatus
  <2>7. CASE Expire(o)
    <3>1. Close(o, "Expired", purchase[o].amount) /\ purchase[o].status \in OpenStatus
      BY <2>7 DEF Expire, MayExpire, OpenStatus
    <3> QED BY <1>1, <2>0, <3>1, CloseStep DEF ClosedStatus
  <2>8. CASE ClaimRefund(o)
    BY <2>8, <1>1, ClaimRefundStep
  <2> QED BY <1>1, <2>1, <2>2, <2>3, <2>4, <2>5, <2>6, <2>7, <2>8 DEF Operation
<1>2. ASSUME NEW amount \in Amounts, Arrive(amount) PROVE IInv'
  BY <1>2, LedgerStep DEF Arrive, IInv, TypeOK, Amounts, contractVars
<1>3. ASSUME NEW a \in Accounts, SetTrust(a) PROVE IInv'
  BY <1>3, LedgerStep DEF SetTrust, IInv, TypeOK, contractVars
<1>4. CASE Tick
  BY <1>4, BoundsAssumption, LedgerStep DEF Tick, IInv, TypeOK, contractVars, tokenVars
<1>5. CASE UNCHANGED vars
  BY <1>5, LedgerStep DEF vars, IInv, TypeOK, contractVars
<1> QED BY <1>1, <1>2, <1>3, <1>4, <1>5 DEF Next

LEMMA Inductive == Spec => []IInv
BY InitEstablishes, StepPreserves, PTL DEF Spec

(* Every field of the contract's state keeps its type; in particular the
   running total DataKey::Allocated never goes below zero.                  *)
THEOREM TypeCorrect == Spec => []TypeOK
<1>1. IInv => TypeOK
  BY DEF IInv
<1> QED BY <1>1, Inductive, PTL

(* Allocated is the sum of what open purchases and owed refunds still lock. *)
THEOREM AllocatedIsTheSum == Spec => []AllocatedIsTheSumLocked
<1>1. IInv => AllocatedIsTheSumLocked
  BY DEF IInv
<1> QED BY <1>1, Inductive, PTL

(* The contract can always pay every purchase it has recorded. *)
THEOREM AlwaysSolvent == Spec => []Solvent
<1>1. ASSUME IInv PROVE Solvent
  <2>1. \A o \in Orders : Locked(o) <= allocated
    BY <1>1, LockedIsAllocated
  <2>2. \A o \in Orders : Locked(o) \in Int
    BY <1>1 DEF IInv, TypeOK, Locked, Purchase
  <2> QED BY <1>1, <2>1, <2>2 DEF IInv, TypeOK, Solvent
<1> QED BY <1>1, Inductive, PTL

(* Each purchase's amount leaves the contract exactly once, in the split its
   outcome decided.                                                         *)
THEOREM NobodyPaidTwice == Spec => []PaidOnce
<1>1. IInv => PaidOnce
  BY DEF IInv
<1> QED BY <1>1, Inductive, PTL

(* One payment transaction backs at most one purchase, and every purchase is
   the one its payment points at.                                           *)
THEOREM PaymentsAreUnique == Spec => []OnePaymentOnePurchase
<1>1. IInv => OnePaymentOnePurchase
  BY DEF IInv
<1> QED BY <1>1, Inductive, PTL

-----------------------------------------------------------------------------
(* The escrow implements Custody. *)

AmountFcn == [o \in Orders |-> purchase[o].amount]
ToPayer == [o \in Orders |-> paid[o].payer]
ToStore == [o \in Orders |-> paid[o].store]

LEMMA PromiseInit == Init => Promise!Init
BY DEF Init, Promise!Init, Promise!Zero, Locked, NoPurchase, NewPurchase, OpenStatus

(* A step on order o leaves the abstract record of every other order alone. *)
LEMMA OnlyOne ==
    ASSUME IInv, IInv', NEW o \in Orders,
           \A x \in Orders \ {o} : purchase'[x] = purchase[x] /\ paid'[x] = paid[x]
    PROVE  /\ AmountFcn' = [AmountFcn EXCEPT ![o] = purchase'[o].amount]
           /\ LockedFcn' = [LockedFcn EXCEPT ![o] = Locked(o)']
           /\ ToPayer' = [ToPayer EXCEPT ![o] = paid'[o].payer]
           /\ ToStore' = [ToStore EXCEPT ![o] = paid'[o].store]
BY DEF AmountFcn, LockedFcn, ToPayer, ToStore, Locked

LEMMA CloseSettles ==
    ASSUME IInv, IInv', NEW o \in Orders, NEW status \in ClosedStatus,
           NEW refund \in 0..MaxAmount, refund <= purchase[o].amount,
           purchase[o].status \in OpenStatus,
           Close(o, status, refund)
    PROVE  Promise!Settle(o)
<1> DEFINE p == purchase[o]
           stays == ~(refund = 0 \/ Transfers(p.payer, refund, balance))
           owed == IF refund = 0 \/ Transfers(p.payer, refund, balance)
                   THEN 0 ELSE refund
<1>1. /\ purchase \in [Orders -> Purchase] /\ p.amount \in Nat
      /\ paid \in [Orders -> [payer : Nat, store : Nat]]
      /\ balance \in Nat /\ allocated \in Nat
  BY DEF IInv, TypeOK, Purchase
<1>2. owed = IF stays THEN refund ELSE 0
  OBVIOUS
<1>3. /\ purchase' = [purchase EXCEPT ![o].status = status,
                                      ![o].refund = refund,
                                      ![o].refund_owed = owed]
      /\ allocated' = (allocated - p.amount) + owed
      /\ balance' = (balance - (refund - owed)) - (p.amount - refund)
      /\ paid' = [paid EXCEPT ![o] = [payer |-> paid[o].payer + (refund - owed),
                                      store |-> paid[o].store + (p.amount - refund)]]
  BY DEF Close, Owed
<1>4. stays \in {TRUE, FALSE}
  BY DEF Transfers
<1>5. paid[o].payer = 0 /\ paid[o].store = 0 /\ p.amount \in Amounts
  BY DEF IInv, PaidOnce, WellFormed, OpenStatus, ClosedStatus
<1> HIDE DEF stays, owed
<1>6. /\ \A x \in Orders \ {o} : purchase'[x] = purchase[x] /\ paid'[x] = paid[x]
      /\ purchase'[o].amount = p.amount /\ purchase'[o].status = status
      /\ purchase'[o].refund_owed = owed
      /\ paid'[o].payer = paid[o].payer + (refund - owed)
      /\ paid'[o].store = paid[o].store + (p.amount - refund)
  BY <1>1, <1>3 DEF Purchase
<1>7. Locked(o) = p.amount /\ Locked(o)' = owed
  BY <1>6 DEF Locked, OpenStatus, ClosedStatus
<1>8. /\ AmountFcn' = [AmountFcn EXCEPT ![o] = p.amount]
      /\ LockedFcn' = [LockedFcn EXCEPT ![o] = owed]
      /\ ToPayer' = [ToPayer EXCEPT ![o] = refund - owed]
      /\ ToStore' = [ToStore EXCEPT ![o] = p.amount - refund]
  BY <1>1, <1>2, <1>5, <1>6, <1>7, OnlyOne
<1>9. AmountFcn' = AmountFcn
  BY <1>1, <1>8 DEF AmountFcn
<1>10. (balance - allocated)' = balance - allocated
  BY <1>1, <1>2, <1>3
<1>11. /\ AmountFcn[o] = p.amount /\ AmountFcn[o] > 0 /\ LockedFcn[o] = p.amount
       /\ ToPayer[o] = 0 /\ ToStore[o] = 0
  BY <1>5, <1>7, BoundsAssumption DEF AmountFcn, LockedFcn, ToPayer, ToStore, Amounts
<1>12. refund - owed = (IF stays THEN 0 ELSE refund)
  BY <1>2
<1>13. /\ AmountFcn[o] > 0
       /\ LockedFcn[o] = AmountFcn[o] /\ ToPayer[o] = 0 /\ ToStore[o] = 0
       /\ refund <= AmountFcn[o]
       /\ LockedFcn' = [LockedFcn EXCEPT ![o] = IF stays THEN refund ELSE 0]
       /\ ToPayer' = [ToPayer EXCEPT ![o] = IF stays THEN 0 ELSE refund]
       /\ ToStore' = [ToStore EXCEPT ![o] = AmountFcn[o] - refund]
       /\ (balance - allocated)' = balance - allocated /\ AmountFcn' = AmountFcn
  BY <1>2, <1>8, <1>9, <1>10, <1>11, <1>12
<1> QED BY <1>4, <1>13 DEF Promise!Settle, AmountFcn, LockedFcn, ToPayer, ToStore

LEMMA HoldKeeps ==
    ASSUME IInv, IInv', NEW o \in Orders, NEW payer \in Accounts,
           NEW amt \in 0..MaxAmount, NEW t \in TxHashes, Hold(o, payer, amt, t)
    PROVE  Promise!Keep(o)
<1>1. /\ purchase \in [Orders -> Purchase] /\ allocated \in Nat /\ balance \in Nat
      /\ amt \in 1..MaxAmount
  BY DEF IInv, TypeOK, Hold
<1>2. /\ purchase' = [purchase EXCEPT ![o] = NewPurchase(payer, amt, t, "Held")]
      /\ allocated' = allocated + amt /\ balance' = balance /\ paid' = paid
      /\ amt <= balance - allocated
  BY DEF Hold, Record, tokenVars, unallocated
<1>3. purchase[o] = NoPurchase
  BY DEF IInv, WellFormed, Hold
<1>4. /\ \A x \in Orders \ {o} : purchase'[x] = purchase[x] /\ paid'[x] = paid[x]
      /\ purchase'[o].amount = amt /\ purchase'[o].status = "Held"
  BY <1>1, <1>2 DEF NewPurchase
<1>5. Locked(o)' = amt
  BY <1>4 DEF Locked, OpenStatus
<1>6. /\ AmountFcn' = [AmountFcn EXCEPT ![o] = amt]
      /\ LockedFcn' = [LockedFcn EXCEPT ![o] = amt]
  BY <1>4, <1>5, OnlyOne
<1>7. /\ AmountFcn[o] = 0 /\ ToPayer' = ToPayer /\ ToStore' = ToStore
  BY <1>2, <1>3 DEF AmountFcn, ToPayer, ToStore, NoPurchase, NewPurchase
<1>8. amt <= balance - allocated /\ (balance - allocated)' = (balance - allocated) - amt
  BY <1>1, <1>2
<1> QED BY <1>1, <1>6, <1>7, <1>8 DEF Promise!Keep, AmountFcn, LockedFcn, ToPayer, ToStore

LEMMA ClaimRefundDelivers ==
    ASSUME IInv, IInv', NEW o \in Orders, ClaimRefund(o)
    PROVE  Promise!Deliver(o)
<1> DEFINE p == purchase[o]
<1>1. /\ purchase \in [Orders -> Purchase] /\ p \in Purchase
      /\ p.refund_owed \in Nat /\ allocated \in Nat /\ balance \in Nat
      /\ paid \in [Orders -> [payer : Nat, store : Nat]]
  BY DEF IInv, TypeOK, Purchase
<1>2. /\ p.refund_owed > 0
      /\ purchase' = [purchase EXCEPT ![o].refund_owed = 0]
      /\ allocated' = allocated - p.refund_owed
      /\ balance' = balance - p.refund_owed
      /\ paid' = [paid EXCEPT ![o] = [payer |-> paid[o].payer + p.refund_owed,
                                      store |-> paid[o].store]]
  BY DEF ClaimRefund, Pay
<1>3. p.status \in ClosedStatus
  BY <1>1, <1>2 DEF IInv, PaidOnce
<1>4. /\ \A x \in Orders \ {o} : purchase'[x] = purchase[x] /\ paid'[x] = paid[x]
      /\ purchase'[o].amount = p.amount /\ purchase'[o].status = p.status
      /\ purchase'[o].refund_owed = 0
      /\ paid'[o].payer = paid[o].payer + p.refund_owed
      /\ paid'[o].store = paid[o].store
  BY <1>1, <1>2 DEF Purchase
<1>5. Locked(o) = p.refund_owed /\ Locked(o)' = 0
  BY <1>3, <1>4 DEF Locked, OpenStatus, ClosedStatus
<1>6. /\ AmountFcn' = [AmountFcn EXCEPT ![o] = p.amount]
      /\ LockedFcn' = [LockedFcn EXCEPT ![o] = 0]
      /\ ToPayer' = [ToPayer EXCEPT ![o] = paid[o].payer + p.refund_owed]
      /\ ToStore' = [ToStore EXCEPT ![o] = paid[o].store]
  BY <1>4, <1>5, OnlyOne
<1>7. /\ AmountFcn' = AmountFcn /\ ToStore' = ToStore
      /\ LockedFcn[o] > 0 /\ ToPayer' = [ToPayer EXCEPT ![o] = ToPayer[o] + LockedFcn[o]]
  BY <1>2, <1>5, <1>6 DEF AmountFcn, ToStore, ToPayer, LockedFcn
<1>8. (balance - allocated)' = balance - allocated
  BY <1>1, <1>2
<1> QED BY <1>6, <1>7, <1>8 DEF Promise!Deliver, AmountFcn, LockedFcn, ToPayer, ToStore

(* Statuses, the clock and trustlines are invisible to Custody. *)
LEMMA StatusStutters ==
    ASSUME IInv, IInv', NEW o \in Orders,
           MarkShipped(o) \/ OpenDispute(o) \/ Respond(o)
    PROVE  UNCHANGED Promise!vars
<1>1. purchase \in [Orders -> Purchase]
  BY DEF IInv, TypeOK
<1>2. /\ \A x \in Orders \ {o} : purchase'[x] = purchase[x]
      /\ purchase'[o].amount = purchase[o].amount
      /\ purchase[o].status \in OpenStatus /\ purchase'[o].status \in OpenStatus
      /\ UNCHANGED <<allocated, balance, paid>>
  BY <1>1 DEF MarkShipped, OpenDispute, MayOpenDispute, Respond, MayRespond, Purchase,
                OpenStatus, tokenVars
<1>3. \A x \in Orders : Locked(x)' = Locked(x) /\ purchase'[x].amount = purchase[x].amount
  BY <1>2 DEF Locked
<1> QED BY <1>2, <1>3 DEF Promise!vars

LEMMA PromiseStep == IInv /\ IInv' /\ [Next]_vars => [Promise!Next]_(Promise!vars)
<1> SUFFICES ASSUME IInv, IInv', [Next]_vars PROVE [Promise!Next]_(Promise!vars)
  OBVIOUS
<1>1. ASSUME NEW o \in Orders, Operation(o) PROVE [Promise!Next]_(Promise!vars)
  <2>0. purchase[o].amount \in 0..MaxAmount /\ 0 \in 0..MaxAmount
    BY <1>1, BoundsAssumption DEF IInv, TypeOK, Purchase
  <2>1. ASSUME NEW payer \in Accounts, NEW amt \in 0..MaxAmount, NEW t \in TxHashes,
               Hold(o, payer, amt, t)
        PROVE  Promise!Keep(o)
    BY <2>1, <1>1, HoldKeeps
  <2>2. CASE MarkShipped(o) \/ OpenDispute(o) \/ Respond(o)
    BY <2>2, <1>1, StatusStutters
  <2>3. CASE Release(o)
    <3>1. Close(o, "Released", 0) /\ purchase[o].status \in OpenStatus
      BY <2>3 DEF Release, MayRelease, OpenStatus
    <3> QED BY <1>1, <2>0, <3>1, CloseSettles DEF ClosedStatus, Promise!Next
  <2>6. ASSUME NEW refund \in 0..MaxAmount, Resolve(o, refund) PROVE Promise!Settle(o)
    <3>1. /\ Close(o, "Resolved", refund) /\ purchase[o].status \in OpenStatus
          /\ refund <= purchase[o].amount
      BY <2>6 DEF Resolve, MayResolve, OpenStatus
    <3> QED BY <1>1, <2>6, <3>1, CloseSettles DEF ClosedStatus
  <2>7. CASE Expire(o)
    <3>1. Close(o, "Expired", purchase[o].amount) /\ purchase[o].status \in OpenStatus
      BY <2>7 DEF Expire, MayExpire, OpenStatus
    <3> QED BY <1>1, <2>0, <3>1, CloseSettles DEF ClosedStatus, Promise!Next
  <2>8. CASE ClaimRefund(o)
    BY <2>8, <1>1, ClaimRefundDelivers DEF Promise!Next
  <2> QED BY <1>1, <2>1, <2>2, <2>3, <2>6, <2>7, <2>8 DEF Operation, Promise!Next
<1>2. ASSUME NEW amt \in Amounts, Arrive(amt) PROVE Promise!Deposit
  <2>1. UNCHANGED <<purchase, paid, allocated>> /\ balance' = balance + amt
    BY <1>2 DEF Arrive, contractVars
  <2>2. (balance - allocated)' = (balance - allocated) + amt /\ amt \in 1..MaxAmount
    BY <2>1, <1>2 DEF IInv, TypeOK, Amounts
  <2> QED BY <2>1, <2>2 DEF Promise!Deposit, Locked
<1>3. ASSUME NEW a \in Accounts, SetTrust(a) PROVE UNCHANGED Promise!vars
  BY <1>3 DEF SetTrust, contractVars, Promise!vars, Locked
<1>4. CASE Tick
  BY <1>4 DEF Tick, contractVars, tokenVars, Promise!vars, Locked
<1>5. CASE UNCHANGED vars
  BY <1>5 DEF vars, Promise!vars, Locked
<1> QED BY <1>1, <1>2, <1>3, <1>4, <1>5 DEF Next, Promise!Next

(* The contract implements Custody: purchases' money is kept apart, settled
   once and in full, and owed refunds stay until delivered.                 *)
THEOREM ImplementsCustody == Spec => KeepsItsPromise
BY PromiseInit, PromiseStep, Inductive, PTL DEF Spec, KeepsItsPromise, Promise!Spec

(* No step changes a recorded purchase's payer, amount or payment, moves its
   status backwards, or reopens a closed purchase.                          *)
THEOREM TermsNeverChange == Spec => TermsAreFinal
<1> DEFINE Final ==
      \A o \in Orders :
         LET p == purchase[o]
             q == purchase'[o]
         IN  p.status # "None" =>
               /\ q.payer = p.payer /\ q.amount = p.amount /\ q.tx_hash = p.tx_hash
               /\ p.status # q.status => Rank(p.status) < Rank(q.status)
               /\ p.status \in ClosedStatus =>
                    /\ q.refund = p.refund
                    /\ q.refund_owed \in {0, p.refund_owed}
<1>1. ASSUME IInv, [Next]_vars PROVE [Final]_vars
  <2>0. purchase \in [Orders -> Purchase]
    BY <1>1 DEF IInv, TypeOK
  <2>1. ASSUME NEW o \in Orders, Operation(o) PROVE Final
    <3>1. \A x \in Orders \ {o} : purchase'[x] = purchase[x]
      BY <2>0, <2>1 DEF Operation, Hold, MarkShipped, Release, OpenDispute, Respond,
                       Resolve, Expire, ClaimRefund, Close, Record
    <3>2. ASSUME purchase[o].status # "None"
          PROVE  /\ purchase'[o].payer = purchase[o].payer
                 /\ purchase'[o].amount = purchase[o].amount
                 /\ purchase'[o].tx_hash = purchase[o].tx_hash
                 /\ purchase[o].status # purchase'[o].status =>
                      Rank(purchase[o].status) < Rank(purchase'[o].status)
                 /\ purchase[o].status \in ClosedStatus =>
                      /\ purchase'[o].refund = purchase[o].refund
                      /\ purchase'[o].refund_owed \in {0, purchase[o].refund_owed}
      <4> USE <2>0, <2>1, <3>2 DEF Purchase, Rank
      <4>1. CASE MarkShipped(o)
        BY <4>1 DEF MarkShipped, ClosedStatus
      <4>2. CASE OpenDispute(o)
        BY <4>2 DEF OpenDispute, MayOpenDispute, ClosedStatus
      <4>3. CASE Respond(o)
        BY <4>3 DEF Respond, MayRespond, ClosedStatus
      <4>4. CASE Release(o)
        BY <4>4 DEF Release, MayRelease, Close, ClosedStatus
      <4>5. ASSUME NEW r \in 0..MaxAmount, Resolve(o, r) PROVE <3>2!2
        BY <4>5 DEF Resolve, MayResolve, Close, ClosedStatus
      <4>6. CASE Expire(o)
        BY <4>6 DEF Expire, MayExpire, Close, ClosedStatus
      <4>7. CASE ClaimRefund(o)
        BY <4>7 DEF ClaimRefund
      <4> QED BY <4>1, <4>2, <4>3, <4>4, <4>5, <4>6, <4>7 DEF Operation, Hold
    <3> QED BY <3>1, <3>2
  <2>2. ASSUME UNCHANGED purchase PROVE Final
    BY <2>2
  <2>3. CASE \E amt \in Amounts : Arrive(amt)
    BY <2>2, <2>3 DEF Arrive, contractVars
  <2>4. CASE \E a \in Accounts : SetTrust(a)
    BY <2>2, <2>4 DEF SetTrust, contractVars
  <2>5. CASE Tick
    BY <2>2, <2>5 DEF Tick, contractVars
  <2> QED BY <1>1, <2>1, <2>3, <2>4, <2>5 DEF Next
<1> QED BY <1>1, Inductive, PTL DEF Spec, TermsAreFinal

(* Every moment of a dispute has exactly one way on, for any windows and any
   clock: respond, resolve and expire neither overlap nor leave a gap where
   the deadlines saturate, and a store that cannot receive never blocks the
   payer's full refund; open and release share the time after shipping.     *)
THEOREM RemediesTileTime == Spec => []OneRemedyAtATime
<1>1. ASSUME IInv PROVE OneRemedyAtATime
  <2> SUFFICES ASSUME NEW o \in Orders
               PROVE  LET status == purchase[o].status
                          answer == MayRespond(o)
                          rule == MayResolve(o) /\ PayeeReceives(o, purchase[o].amount)
                          expire == MayExpire(o) /\ PayeeReceives(o, purchase[o].amount)
                      IN  /\ status = "Disputed" =>
                               /\ answer \/ rule \/ expire
                               /\ ~(answer /\ rule) /\ ~(answer /\ expire) /\ ~(rule /\ expire)
                          /\ status = "Responded" => rule # expire
                          /\ status = "Shipped" /\ Payee \in canReceive =>
                               MayOpenDispute(o) # (MayRelease(o) /\ PayeeReceives(o, 0))
    BY DEF OneRemedyAtATime
  <2>1. /\ purchase[o].shipped_at \in 0..MaxTime /\ purchase[o].opened_at \in 0..MaxTime
        /\ purchase[o].amount \in 0..MaxAmount /\ now \in 1..MaxTime /\ balance \in Nat
    BY <1>1 DEF IInv, TypeOK, Purchase
  <2>2. /\ ReleaseAt(o) \in Nat /\ ResponseDeadline(o) \in Nat /\ ResolveDeadline(o) \in Nat
        /\ ResponseDeadline(o) <= ResolveDeadline(o)
    BY <2>1, WindowsAssumption, BoundsAssumption
       DEF ReleaseAt, ResponseDeadline, ResolveDeadline, SaturatingAdd
  <2>3. PayeeReceives(o, purchase[o].amount)
    BY <2>1 DEF PayeeReceives
  <2>4. purchase[o].status = "Shipped" /\ Payee \in canReceive => PayeeReceives(o, 0)
    <3>1. SUFFICES ASSUME purchase[o].status = "Shipped", Payee \in canReceive
                   PROVE  purchase[o].amount <= balance
      BY <2>1 DEF PayeeReceives, Transfers, Owed
    <3>2. Locked(o) = purchase[o].amount
      BY <3>1 DEF Locked, OpenStatus
    <3>3. Locked(o) <= allocated /\ allocated <= balance /\ allocated \in Nat
      BY <1>1, LockedIsAllocated DEF IInv, TypeOK
    <3> QED BY <2>1, <3>2, <3>3
  <2>5. now \in Nat
    BY <2>1, BoundsAssumption
  <2>6. ASSUME purchase[o].status = "Disputed"
        PROVE  /\ MayRespond(o) <=> now <= ResponseDeadline(o)
               /\ MayResolve(o) <=> now > ResponseDeadline(o) /\ now <= ResolveDeadline(o)
               /\ MayExpire(o) <=> now > ResolveDeadline(o)
    BY <2>6 DEF MayRespond, MayResolve, MayExpire
  <2>7. ASSUME purchase[o].status = "Responded"
        PROVE  /\ MayResolve(o) <=> now <= ResolveDeadline(o)
               /\ MayExpire(o) <=> now > ResolveDeadline(o)
    BY <2>7 DEF MayResolve, MayExpire
  <2>8. ASSUME purchase[o].status = "Shipped"
        PROVE  /\ MayOpenDispute(o) <=> now < ReleaseAt(o)
               /\ MayRelease(o) <=> now >= ReleaseAt(o)
    BY <2>8 DEF MayOpenDispute, MayRelease
  <2>9. /\ MayResolve(o) \in BOOLEAN /\ MayExpire(o) \in BOOLEAN
        /\ MayOpenDispute(o) \in BOOLEAN /\ MayRelease(o) \in BOOLEAN
        /\ PayeeReceives(o, 0) \in BOOLEAN /\ PayeeReceives(o, purchase[o].amount) \in BOOLEAN
    BY DEF MayResolve, MayExpire, MayOpenDispute, MayRelease, PayeeReceives
  <2>10. ASSUME purchase[o].status = "Disputed"
         PROVE  /\ MayRespond(o) \/ MayResolve(o) \/ MayExpire(o)
                /\ ~(MayRespond(o) /\ MayResolve(o)) /\ ~(MayRespond(o) /\ MayExpire(o))
                /\ ~(MayResolve(o) /\ MayExpire(o))
    BY <2>2, <2>5, <2>6, <2>10
  <2>11. purchase[o].status = "Responded" => MayResolve(o) # MayExpire(o)
    BY <2>2, <2>5, <2>7, <2>9
  <2>12. purchase[o].status = "Shipped" => MayOpenDispute(o) # MayRelease(o)
    BY <2>2, <2>5, <2>8, <2>9
  <2> QED BY <2>3, <2>4, <2>9, <2>10, <2>11, <2>12
<1> QED BY <1>1, Inductive, PTL
=============================================================================
