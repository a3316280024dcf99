------------------------- MODULE AgentResolveProofs -------------------------
(***************************************************************************)
(* The guarantees of agent-resolve are backed, and every award can be paid, *)
(* for any number of merchants and receipts.                                *)
(***************************************************************************)
EXTENDS AgentResolve, FiniteSetTheorems, TLAPS

(* A dispute, once there is one, is over a receipt that is on record. *)
OverAnchored ==
    \A h \in Hashes :
        IF dispute[h].status = "None" THEN dispute[h] = NoDispute
        ELSE /\ receipt[h].merchant \in Merchants
             /\ dispute[h].status = "Open" => dispute[h].refund = 0

Complete == \A h \in Hashes : Registry!Anchored(h) => receipt[h].merchant \in Merchants

(* The inductive invariant: that a merchant can always be paid back needs the
   sums of disputes, of balances and of refunds at the same time.           *)
IInv ==
    /\ TypeOK
    /\ OverAnchored
    /\ Complete
    /\ LockedIsTheOpenDisputes
    /\ GuaranteesAreBacked
    /\ EachPaysItsOwn
    /\ held <= deposited

Balances == [m \in Merchants |-> guarantee[m].balance]

-----------------------------------------------------------------------------
(* Sums of token amounts: what changing one entry does to a sum.  Each amount
   is counted by its units, so a sum is the size of a finite set.           *)

(* The units of entry e when its amount is k. *)
UnitsOf(e, k) == {e} \X (1..k)

(* The units of every entry but e. *)
Others(S, bound, a, e) == {u \in Units(S, bound, a) : u[1] # e}

(* There are finitely many units. *)
LEMMA AllUnitsFinite ==
    ASSUME NEW S, IsFiniteSet(S), NEW bound \in Nat
    PROVE  IsFiniteSet(S \X (1..bound))
<1>1. IsFiniteSet(1..bound)
  BY FS_Interval
<1> QED BY <1>1, FS_Product

(* An entry of k units has exactly k of them: i |-> <<e, i>> counts them. *)
LEMMA UnitsOfCardinality ==
    ASSUME NEW e, NEW k \in Nat
    PROVE  IsFiniteSet(UnitsOf(e, k)) /\ Cardinality(UnitsOf(e, k)) = k
<1> DEFINE f == [i \in 1..k |-> <<e, i>>]
<1>1. IsFiniteSet(1..k) /\ Cardinality(1..k) = k
  BY FS_Interval
<1>2. f \in Bijection(1..k, UnitsOf(e, k))
  <2>1. f \in [1..k -> UnitsOf(e, k)]
    BY DEF UnitsOf
  <2>2. IsInjective(f)
    BY DEF IsInjective
  <2>3. \A t \in UnitsOf(e, k) : \E i \in 1..k : f[i] = t
    BY DEF UnitsOf
  <2> QED BY <2>1, <2>2, <2>3 DEF Bijection, Injection, Surjection
<1>3. ExistsBijection(1..k, UnitsOf(e, k))
  BY <1>2 DEF ExistsBijection
<1> QED BY <1>1, <1>3, FS_Bijection

(* The sum splits into one entry's amount and the others'. *)
LEMMA TotalSplits ==
    ASSUME NEW S, IsFiniteSet(S), NEW bound \in Nat,
           NEW a \in [S -> 0..bound], NEW e \in S
    PROVE  /\ IsFiniteSet(Units(S, bound, a))
           /\ Cardinality(Others(S, bound, a, e)) \in Nat
           /\ Total(S, bound, a) = Cardinality(Others(S, bound, a, e)) + a[e]
<1> DEFINE rest == Others(S, bound, a, e)
           mine == UnitsOf(e, a[e])
<1>1. IsFiniteSet(Units(S, bound, a))
  BY AllUnitsFinite, FS_Subset DEF Units
<1>2. IsFiniteSet(rest) /\ Cardinality(rest) \in Nat
  BY <1>1, FS_Subset, FS_CardinalityType DEF Others
<1>3. IsFiniteSet(mine) /\ Cardinality(mine) = a[e]
  BY UnitsOfCardinality
<1>4. Units(S, bound, a) = rest \cup mine
  BY DEF Units, UnitsOf, Others
<1>5. rest \cap mine = {}
  BY DEF UnitsOf, Others
<1> HIDE DEF rest, mine
<1>6. Cardinality(rest \cup mine) = Cardinality(rest) + Cardinality(mine)
  BY <1>2, <1>3, <1>5, FS_Union, FS_EmptySet
<1>7. Total(S, bound, a) = Cardinality(rest) + a[e]
  BY <1>3, <1>4, <1>6 DEF Total
<1> QED BY <1>1, <1>2, <1>7 DEF rest

(* A sum of amounts is a natural number, at least as large as any of them. *)
LEMMA TotalBounds ==
    ASSUME NEW S, IsFiniteSet(S), NEW bound \in Nat,
           NEW a \in [S -> 0..bound]
    PROVE  /\ Total(S, bound, a) \in Nat
           /\ \A e \in S : a[e] <= Total(S, bound, a)
<1>1. Total(S, bound, a) \in Nat
  BY AllUnitsFinite, FS_Subset, FS_CardinalityType DEF Total, Units
<1>2. ASSUME NEW e \in S PROVE a[e] <= Total(S, bound, a)
  BY <1>1, TotalSplits
<1> QED BY <1>1, <1>2

(* Changing one entry changes the sum by the difference. *)
LEMMA TotalUpdate ==
    ASSUME NEW S, IsFiniteSet(S), NEW bound \in Nat,
           NEW a \in [S -> 0..bound], NEW b \in [S -> 0..bound], NEW e \in S,
           \A x \in S \ {e} : b[x] = a[x]
    PROVE  Total(S, bound, b) = (Total(S, bound, a) - a[e]) + b[e]
<1>1. Others(S, bound, a, e) = Others(S, bound, b, e)
  BY DEF Units, Others
<1>2. /\ Cardinality(Others(S, bound, a, e)) \in Nat
      /\ Total(S, bound, a) = Cardinality(Others(S, bound, a, e)) + a[e]
  BY TotalSplits
<1>3. Total(S, bound, b) = Cardinality(Others(S, bound, b, e)) + b[e]
  BY TotalSplits
<1> QED BY <1>1, <1>2, <1>3

(* A sum of zeros is zero. *)
LEMMA TotalOfZeros ==
    ASSUME NEW S, NEW bound \in Nat, NEW a \in [S -> {0}]
    PROVE  Total(S, bound, a) = 0
<1>1. Units(S, bound, a) = {}
  BY DEF Units
<1> QED BY <1>1, FS_EmptySet DEF Total

-----------------------------------------------------------------------------
(* What the sums run over. *)
LEMMA SumsAreTyped ==
    ASSUME TypeOK
    PROVE  /\ Balances \in [Merchants -> 0..MaxFunds]
           /\ \A m \in Merchants : /\ LockedBy(m) \in [Hashes -> 0..MaxAmount]
                                   /\ RefundsOf(m) \in [Hashes -> 0..MaxAmount]
BY ResolveAssumption DEF TypeOK, Dispute, Balances, LockedBy, RefundsOf

(* No merchant's balance is more than the contract has. *)
LEMMA BalanceIsHeld ==
    ASSUME TypeOK, GuaranteesAreBacked, NEW m \in Merchants
    PROVE  guarantee[m].balance <= held
<1>1. Balances[m] <= Total(Merchants, MaxFunds, Balances)
  BY SumsAreTyped, TotalBounds, ResolveAssumption
<1> QED BY <1>1 DEF Balances, GuaranteesAreBacked

(* An open dispute's amount is part of what its merchant has locked. *)
LEMMA AmountIsLocked ==
    ASSUME IInv, NEW h \in Hashes, dispute[h].status = "Open"
    PROVE  /\ dispute[h].merchant \in Merchants
           /\ dispute[h].amount <= guarantee[dispute[h].merchant].locked
<1> DEFINE m == dispute[h].merchant
<1>1. m \in Merchants
  BY DEF IInv, OverAnchored, EachPaysItsOwn
<1>2. LockedBy(m)[h] <= Total(Hashes, MaxAmount, LockedBy(m))
  BY <1>1, SumsAreTyped, TotalBounds, ResolveAssumption DEF IInv
<1> QED BY <1>1, <1>2 DEF IInv, LockedIsTheOpenDisputes, LockedBy

(* Changing one merchant's balance changes what guarantees add up to. *)
LEMMA BackedFollows ==
    ASSUME TypeOK, GuaranteesAreBacked, NEW m \in Merchants,
           guarantee' \in [Merchants -> [balance : 0..MaxFunds, locked : 0..MaxFunds]],
           \A x \in Merchants \ {m} : guarantee'[x].balance = guarantee[x].balance,
           held' = (held - guarantee[m].balance) + guarantee'[m].balance
    PROVE  GuaranteesAreBacked'
<1>1. Balances \in [Merchants -> 0..MaxFunds]
  BY SumsAreTyped
<1>2. Balances' \in [Merchants -> 0..MaxFunds]
  BY DEF Balances
<1>3. \A x \in Merchants \ {m} : Balances'[x] = Balances[x]
  BY DEF Balances
<1>4. IsFiniteSet(Merchants) /\ MaxFunds \in Nat
  BY ResolveAssumption
<1>5. Total(Merchants, MaxFunds, Balances') =
        (Total(Merchants, MaxFunds, Balances) - Balances[m]) + Balances'[m]
  <2> DEFINE a == Balances
             b == Balances'
  <2>1. a \in [Merchants -> 0..MaxFunds] /\ b \in [Merchants -> 0..MaxFunds]
    BY <1>1, <1>2
  <2>2. \A x \in Merchants \ {m} : b[x] = a[x]
    BY <1>3
  <2> HIDE DEF a, b
  <2>3. Total(Merchants, MaxFunds, b) = (Total(Merchants, MaxFunds, a) - a[m]) + b[m]
    BY <1>4, <2>1, <2>2, TotalUpdate, Z3
  <2> QED BY <2>3 DEF a, b
<1> QED BY <1>5 DEF Balances, GuaranteesAreBacked

(* Changing one dispute changes its merchant's sums and nobody else's. *)
LEMMA SumsFollow ==
    ASSUME TypeOK, dispute' \in [Hashes -> Dispute], NEW h \in Hashes, NEW m \in Merchants,
           \A x \in Hashes \ {h} : dispute'[x] = dispute[x]
    PROVE  /\ Total(Hashes, MaxAmount, LockedBy(m)') =
                (Total(Hashes, MaxAmount, LockedBy(m)) - LockedBy(m)[h]) + LockedBy(m)'[h]
           /\ Total(Hashes, MaxAmount, RefundsOf(m)') =
                (Total(Hashes, MaxAmount, RefundsOf(m)) - RefundsOf(m)[h]) + RefundsOf(m)'[h]
           /\ Total(Hashes, MaxAmount, LockedBy(m)) \in Nat
           /\ Total(Hashes, MaxAmount, RefundsOf(m)) \in Nat
<1>1. /\ LockedBy(m) \in [Hashes -> 0..MaxAmount]
      /\ RefundsOf(m) \in [Hashes -> 0..MaxAmount]
  BY SumsAreTyped
<1>2. /\ LockedBy(m)' \in [Hashes -> 0..MaxAmount]
      /\ RefundsOf(m)' \in [Hashes -> 0..MaxAmount]
  BY ResolveAssumption DEF Dispute, LockedBy, RefundsOf
<1>3. /\ \A x \in Hashes \ {h} : LockedBy(m)'[x] = LockedBy(m)[x]
      /\ \A x \in Hashes \ {h} : RefundsOf(m)'[x] = RefundsOf(m)[x]
  BY DEF LockedBy, RefundsOf
<1>4. IsFiniteSet(Hashes) /\ MaxAmount \in Nat
  BY ResolveAssumption
<1>5. Total(Hashes, MaxAmount, LockedBy(m)') =
        (Total(Hashes, MaxAmount, LockedBy(m)) - LockedBy(m)[h]) + LockedBy(m)'[h]
  <2> DEFINE a == LockedBy(m)
             b == LockedBy(m)'
  <2>1. a \in [Hashes -> 0..MaxAmount] /\ b \in [Hashes -> 0..MaxAmount]
    BY <1>1, <1>2
  <2>2. \A x \in Hashes \ {h} : b[x] = a[x]
    BY <1>3
  <2> HIDE DEF a, b
  <2>3. Total(Hashes, MaxAmount, b) = (Total(Hashes, MaxAmount, a) - a[h]) + b[h]
    BY <1>4, <2>1, <2>2, TotalUpdate, Z3
  <2> QED BY <2>3 DEF a, b
<1>6. Total(Hashes, MaxAmount, RefundsOf(m)') =
        (Total(Hashes, MaxAmount, RefundsOf(m)) - RefundsOf(m)[h]) + RefundsOf(m)'[h]
  <2> DEFINE a == RefundsOf(m)
             b == RefundsOf(m)'
  <2>1. a \in [Hashes -> 0..MaxAmount] /\ b \in [Hashes -> 0..MaxAmount]
    BY <1>1, <1>2
  <2>2. \A x \in Hashes \ {h} : b[x] = a[x]
    BY <1>3
  <2> HIDE DEF a, b
  <2>3. Total(Hashes, MaxAmount, b) = (Total(Hashes, MaxAmount, a) - a[h]) + b[h]
    BY <1>4, <2>1, <2>2, TotalUpdate, Z3
  <2> QED BY <2>3 DEF a, b
<1>7. /\ Total(Hashes, MaxAmount, LockedBy(m)) \in Nat
      /\ Total(Hashes, MaxAmount, RefundsOf(m)) \in Nat
  BY <1>1, <1>4, TotalBounds
<1> QED BY <1>5, <1>6, <1>7

-----------------------------------------------------------------------------
(* It holds at the start. *)
LEMMA InitEstablishes == Init => IInv
<1> SUFFICES ASSUME Init PROVE IInv
  OBVIOUS
<1> USE ResolveAssumption
<1>1. TypeOK /\ OverAnchored /\ Complete /\ held <= deposited
  BY DEF Init, Registry!Init, TypeOK, Registry!TypeOK, Registry!ReceiptRecord,
         Registry!NoReceipt, Dispute, NoDispute, Status, OverAnchored, Complete,
         Registry!Anchored
<1>2. \A m \in Merchants : /\ LockedBy(m) \in [Hashes -> {0}]
                           /\ RefundsOf(m) \in [Hashes -> {0}]
  BY DEF Init, LockedBy, RefundsOf, NoDispute
<1>3. \A m \in Merchants : /\ Total(Hashes, MaxAmount, LockedBy(m)) = 0
                           /\ Total(Hashes, MaxAmount, RefundsOf(m)) = 0
  BY <1>2, TotalOfZeros
<1>4. Balances \in [Merchants -> {0}]
  BY DEF Init, Balances
<1>5. Total(Merchants, MaxFunds, Balances) = 0
  BY <1>4, TotalOfZeros
<1>6. LockedIsTheOpenDisputes /\ EachPaysItsOwn
  BY <1>3 DEF Init, LockedIsTheOpenDisputes, EachPaysItsOwn, NoDispute
<1>7. GuaranteesAreBacked
  BY <1>5 DEF Init, GuaranteesAreBacked, Balances
<1> QED BY <1>1, <1>6, <1>7 DEF IInv

(* Steps that leave disputes and receipts alone keep what only depends on
   them.                                                                    *)
LEMMA DepositStep ==
    ASSUME IInv, NEW m \in Merchants, NEW amount \in 0..MaxFunds, Deposit(m, amount)
    PROVE  IInv'
<1> USE ResolveAssumption
<1>1. /\ guarantee[m].balance <= held /\ held <= deposited
      /\ guarantee[m].balance \in 0..MaxFunds /\ guarantee[m].locked \in 0..MaxFunds
      /\ held \in Nat /\ deposited \in 0..MaxFunds /\ deposited + amount <= MaxFunds
  BY BalanceIsHeld DEF IInv, TypeOK, Deposit
<1>2. /\ guarantee' \in [Merchants -> [balance : 0..MaxFunds, locked : 0..MaxFunds]]
      /\ guarantee'[m] = [balance |-> guarantee[m].balance + amount,
                          locked |-> guarantee[m].locked]
      /\ \A x \in Merchants \ {m} : guarantee'[x] = guarantee[x]
  BY <1>1 DEF IInv, TypeOK, Deposit
<1>3. TypeOK' /\ OverAnchored' /\ Complete' /\ (held <= deposited)'
  BY <1>1, <1>2 DEF IInv, TypeOK, OverAnchored, Complete, Deposit, registryVars,
     Registry!TypeOK, Registry!ReceiptRecord, Registry!Anchored, Registry!NoReceipt
<1>4. GuaranteesAreBacked'
  BY <1>1, <1>2, BackedFollows DEF IInv, Deposit
<1>5. \A x \in Merchants : LockedBy(x)' = LockedBy(x) /\ RefundsOf(x)' = RefundsOf(x)
  BY DEF Deposit, LockedBy, RefundsOf
<1>6. LockedIsTheOpenDisputes'
  BY <1>1, <1>2, <1>5 DEF IInv, LockedIsTheOpenDisputes
<1>7. EachPaysItsOwn'
  <2>1. \A x \in Merchants : Total(Hashes, MaxAmount, RefundsOf(x)) \in Nat
    BY SumsAreTyped, TotalBounds DEF IInv
  <2>2. /\ own \in [Merchants -> Int]
        /\ own' = [own EXCEPT ![m] = own[m] + amount]
    BY DEF IInv, TypeOK, Deposit
  <2>3. \A x \in Merchants :
          guarantee[x].balance = own[x] - Total(Hashes, MaxAmount, RefundsOf(x))
    BY DEF IInv, EachPaysItsOwn
  <2>4. \A x \in Merchants :
          guarantee'[x].balance = own'[x] - Total(Hashes, MaxAmount, RefundsOf(x)')
    BY <1>1, <1>2, <1>5, <2>1, <2>2, <2>3
  <2> QED BY <2>4 DEF IInv, EachPaysItsOwn, Deposit, registryVars
<1> QED BY <1>3, <1>4, <1>6, <1>7 DEF IInv

(* A withdrawal takes from what is not locked. *)
LEMMA WithdrawStep ==
    ASSUME IInv, NEW m \in Merchants, NEW amount \in 0..MaxFunds, Withdraw(m, amount)
    PROVE  IInv'
<1> USE ResolveAssumption
<1>1. /\ guarantee[m].balance <= held /\ held <= deposited
      /\ guarantee[m].balance \in 0..MaxFunds /\ guarantee[m].locked \in 0..MaxFunds
      /\ held \in Nat /\ deposited \in 0..MaxFunds
      /\ amount <= guarantee[m].balance - guarantee[m].locked
  BY BalanceIsHeld DEF IInv, TypeOK, Withdraw, Free
<1>2. /\ guarantee' \in [Merchants -> [balance : 0..MaxFunds, locked : 0..MaxFunds]]
      /\ guarantee'[m] = [balance |-> guarantee[m].balance - amount,
                          locked |-> guarantee[m].locked]
      /\ \A x \in Merchants \ {m} : guarantee'[x] = guarantee[x]
  BY <1>1 DEF IInv, TypeOK, Withdraw, Take
<1>3. TypeOK' /\ OverAnchored' /\ Complete' /\ (held <= deposited)'
  BY <1>1, <1>2 DEF IInv, TypeOK, OverAnchored, Complete, Withdraw, Take, registryVars,
     Registry!TypeOK, Registry!ReceiptRecord, Registry!Anchored, Registry!NoReceipt
<1>4. GuaranteesAreBacked'
  BY <1>1, <1>2, BackedFollows DEF IInv, Withdraw, Take
<1>5. \A x \in Merchants : LockedBy(x)' = LockedBy(x) /\ RefundsOf(x)' = RefundsOf(x)
  BY DEF Withdraw, Take, LockedBy, RefundsOf
<1>6. LockedIsTheOpenDisputes'
  BY <1>1, <1>2, <1>5 DEF IInv, LockedIsTheOpenDisputes
<1>7. EachPaysItsOwn'
  <2>1. \A x \in Merchants : Total(Hashes, MaxAmount, RefundsOf(x)) \in Nat
    BY SumsAreTyped, TotalBounds DEF IInv
  <2>2. /\ own \in [Merchants -> Int]
        /\ own' = [own EXCEPT ![m] = own[m] - amount]
    BY DEF IInv, TypeOK, Withdraw, Take
  <2>3. \A x \in Merchants :
          guarantee[x].balance = own[x] - Total(Hashes, MaxAmount, RefundsOf(x))
    BY DEF IInv, EachPaysItsOwn
  <2>4. \A x \in Merchants :
          guarantee'[x].balance = own'[x] - Total(Hashes, MaxAmount, RefundsOf(x)')
    BY <1>1, <1>2, <1>5, <2>1, <2>2, <2>3
  <2> QED BY <2>4 DEF IInv, EachPaysItsOwn, Withdraw, Take, registryVars
<1> QED BY <1>3, <1>4, <1>6, <1>7 DEF IInv

(* Opening a dispute locks its amount with the merchant of the receipt. *)
LEMMA OpenStep ==
    ASSUME IInv, NEW h \in Hashes, NEW payer \in Payers, NEW amount \in 0..MaxAmount,
           Open(h, payer, amount)
    PROVE  IInv'
<1> DEFINE m == receipt[h].merchant
           d == [status |-> "Open", merchant |-> m, payer |-> payer,
                 amount |-> amount, refund |-> 0]
<1> USE ResolveAssumption
<1>1. /\ m \in Merchants /\ amount <= receipt[h].amount
      /\ dispute[h] = NoDispute
      /\ amount <= guarantee[m].balance - guarantee[m].locked
      /\ guarantee[m].balance \in 0..MaxFunds /\ guarantee[m].locked \in 0..MaxFunds
  BY DEF IInv, TypeOK, Complete, OverAnchored, Open, Free
<1>2. /\ guarantee' \in [Merchants -> [balance : 0..MaxFunds, locked : 0..MaxFunds]]
      /\ guarantee'[m] = [balance |-> guarantee[m].balance,
                          locked |-> guarantee[m].locked + amount]
      /\ \A x \in Merchants \ {m} : guarantee'[x] = guarantee[x]
  BY <1>1 DEF IInv, TypeOK, Open, Lock
<1>3. /\ dispute' \in [Hashes -> Dispute]
      /\ dispute'[h] = d
      /\ \A x \in Hashes \ {h} : dispute'[x] = dispute[x]
  BY <1>1 DEF IInv, TypeOK, Open, Lock, Dispute, Status
<1>4. UNCHANGED <<now, receipt, count, held, canReceive, deposited, own>>
  BY DEF Open, Lock, registryVars
<1>5. TypeOK' /\ Complete' /\ (held <= deposited)'
  BY <1>2, <1>3, <1>4 DEF IInv, TypeOK, Complete, Registry!TypeOK,
     Registry!ReceiptRecord, Registry!Anchored, Registry!NoReceipt
<1>6. OverAnchored'
  BY <1>1, <1>3, <1>4 DEF IInv, OverAnchored
<1>7. GuaranteesAreBacked'
  BY <1>1, <1>2, <1>4, BackedFollows DEF IInv, TypeOK
<1>8. ASSUME NEW x \in Merchants
      PROVE  /\ Total(Hashes, MaxAmount, LockedBy(x)') =
                  Total(Hashes, MaxAmount, LockedBy(x)) + (IF x = m THEN amount ELSE 0)
             /\ Total(Hashes, MaxAmount, RefundsOf(x)') = Total(Hashes, MaxAmount, RefundsOf(x))
  <2>1. /\ LockedBy(x)[h] = 0 /\ LockedBy(x)'[h] = IF x = m THEN amount ELSE 0
        /\ RefundsOf(x)[h] = 0 /\ RefundsOf(x)'[h] = 0
    BY <1>1, <1>3 DEF LockedBy, RefundsOf, NoDispute
  <2> QED BY <1>3, <2>1, SumsFollow DEF IInv
<1>9. LockedIsTheOpenDisputes'
  <2>1. ASSUME NEW x \in Merchants
        PROVE  /\ guarantee'[x].locked = Total(Hashes, MaxAmount, LockedBy(x)')
               /\ guarantee'[x].locked <= guarantee'[x].balance
    <3>1. /\ guarantee[x].locked = Total(Hashes, MaxAmount, LockedBy(x))
          /\ guarantee[x].locked <= guarantee[x].balance
      BY DEF IInv, LockedIsTheOpenDisputes
    <3> QED BY <1>1, <1>2, <1>8, <3>1
  <2> QED BY <2>1 DEF LockedIsTheOpenDisputes
<1>10. EachPaysItsOwn'
  <2>1. \A x \in Merchants : guarantee'[x].balance = guarantee[x].balance
    BY <1>2
  <2>2. \A x \in Merchants :
          guarantee'[x].balance = own'[x] - Total(Hashes, MaxAmount, RefundsOf(x)')
    BY <1>4, <1>8, <2>1 DEF IInv, EachPaysItsOwn
  <2>3. \A x \in Hashes : dispute'[x].status # "None" =>
          /\ dispute'[x].merchant = receipt'[x].merchant
          /\ dispute'[x].refund <= dispute'[x].amount
          /\ dispute'[x].amount <= receipt'[x].amount
    BY <1>1, <1>3, <1>4 DEF IInv, EachPaysItsOwn
  <2> QED BY <2>2, <2>3 DEF EachPaysItsOwn
<1> QED BY <1>5, <1>6, <1>7, <1>9, <1>10 DEF IInv

(* Resolving frees the whole lock and pays the refund from the same merchant. *)
LEMMA ResolveStep ==
    ASSUME IInv, NEW h \in Hashes, NEW refund \in 0..MaxAmount, Resolve(h, refund)
    PROVE  IInv'
<1> DEFINE m == dispute[h].merchant
           a == dispute[h].amount
           d == [status |-> "Resolved", merchant |-> m, payer |-> dispute[h].payer,
                 amount |-> a, refund |-> refund]
<1> USE ResolveAssumption
<1>1. /\ dispute[h].status = "Open" /\ refund <= a /\ a \in 0..MaxAmount
      /\ dispute[h].payer \in Payers \cup {NoOne}
  BY DEF IInv, TypeOK, Dispute, Resolve
<1>2. /\ m \in Merchants /\ a <= guarantee[m].locked
      /\ dispute[h].refund = 0
  BY <1>1, AmountIsLocked DEF IInv, OverAnchored
<1>3. /\ guarantee[m].balance \in 0..MaxFunds /\ guarantee[m].locked \in 0..MaxFunds
      /\ guarantee[m].locked <= guarantee[m].balance
      /\ guarantee[m].balance <= held /\ held \in Nat
  BY <1>2, BalanceIsHeld DEF IInv, TypeOK, LockedIsTheOpenDisputes
<1>4. /\ guarantee' \in [Merchants -> [balance : 0..MaxFunds, locked : 0..MaxFunds]]
      /\ guarantee'[m] = [balance |-> guarantee[m].balance - refund,
                          locked |-> guarantee[m].locked - a]
      /\ \A x \in Merchants \ {m} : guarantee'[x] = guarantee[x]
  BY <1>1, <1>2, <1>3 DEF IInv, TypeOK, Resolve, Pay
<1>5. /\ dispute' \in [Hashes -> Dispute]
      /\ dispute'[h] = d
      /\ \A x \in Hashes \ {h} : dispute'[x] = dispute[x]
  BY <1>1, <1>2 DEF IInv, TypeOK, Resolve, Pay, Dispute, Status
<1>6. held' = held - refund /\ UNCHANGED <<now, receipt, count, canReceive, deposited, own>>
  BY DEF Resolve, Pay, registryVars
<1>7. TypeOK' /\ Complete' /\ (held <= deposited)'
  BY <1>1, <1>3, <1>4, <1>5, <1>6 DEF IInv, TypeOK, Complete, Registry!TypeOK,
     Registry!ReceiptRecord, Registry!Anchored, Registry!NoReceipt
<1>8. OverAnchored'
  BY <1>1, <1>5, <1>6 DEF IInv, OverAnchored
<1>9. GuaranteesAreBacked'
  BY <1>2, <1>3, <1>4, <1>6, BackedFollows DEF IInv
<1>10. ASSUME NEW x \in Merchants
       PROVE  /\ Total(Hashes, MaxAmount, LockedBy(x)') =
                   Total(Hashes, MaxAmount, LockedBy(x)) - (IF x = m THEN a ELSE 0)
              /\ Total(Hashes, MaxAmount, RefundsOf(x)') =
                   Total(Hashes, MaxAmount, RefundsOf(x)) + (IF x = m THEN refund ELSE 0)
              /\ Total(Hashes, MaxAmount, LockedBy(x)) \in Nat
              /\ Total(Hashes, MaxAmount, RefundsOf(x)) \in Nat
  <2>1. /\ LockedBy(x)[h] = (IF x = m THEN a ELSE 0) /\ LockedBy(x)'[h] = 0
        /\ RefundsOf(x)[h] = 0 /\ RefundsOf(x)'[h] = IF x = m THEN refund ELSE 0
    BY <1>1, <1>2, <1>5 DEF LockedBy, RefundsOf
  <2> QED BY <1>1, <1>5, <2>1, SumsFollow DEF IInv
<1>11. LockedIsTheOpenDisputes'
  <2>1. ASSUME NEW x \in Merchants
        PROVE  /\ guarantee'[x].locked = Total(Hashes, MaxAmount, LockedBy(x)')
               /\ guarantee'[x].locked <= guarantee'[x].balance
    <3>1. /\ guarantee[x].locked = Total(Hashes, MaxAmount, LockedBy(x))
          /\ guarantee[x].locked <= guarantee[x].balance
      BY DEF IInv, LockedIsTheOpenDisputes
    <3> QED BY <1>1, <1>3, <1>4, <1>10, <3>1
  <2> QED BY <2>1 DEF LockedIsTheOpenDisputes
<1>12. EachPaysItsOwn'
  <2>1. ASSUME NEW x \in Merchants
        PROVE  guarantee'[x].balance = own'[x] - Total(Hashes, MaxAmount, RefundsOf(x)')
    <3>1. /\ guarantee[x].balance = own[x] - Total(Hashes, MaxAmount, RefundsOf(x))
          /\ own[x] \in Int /\ own'[x] = own[x]
      BY <1>6 DEF IInv, TypeOK, EachPaysItsOwn
    <3> QED BY <1>1, <1>3, <1>4, <1>10, <3>1
  <2>2. \A x \in Hashes : dispute'[x].status # "None" =>
          /\ dispute'[x].merchant = receipt'[x].merchant
          /\ dispute'[x].refund <= dispute'[x].amount
          /\ dispute'[x].amount <= receipt'[x].amount
    BY <1>1, <1>5, <1>6 DEF IInv, EachPaysItsOwn
  <2> QED BY <2>1, <2>2 DEF EachPaysItsOwn
<1> QED BY <1>7, <1>8, <1>9, <1>11, <1>12 DEF IInv

(* Receipts only ever appear, and never under a dispute. *)
LEMMA OtherSteps ==
    ASSUME IInv,
           \/ RegistryMoves
           \/ \E p \in Payers : SetTrust(p)
           \/ UNCHANGED vars
    PROVE  IInv'
<1> USE ResolveAssumption
<1>1. UNCHANGED <<guarantee, dispute, held, deposited, own>>
  BY DEF RegistryMoves, SetTrust, vars
<1>2. canReceive' \in SUBSET Payers
  BY DEF IInv, TypeOK, RegistryMoves, SetTrust, vars
<1>3. /\ Registry!TypeOK'
      /\ \A h \in Hashes : receipt'[h] = receipt[h] \/
            (~Registry!Anchored(h) /\ receipt'[h].merchant \in Merchants)
  <2>1. CASE RegistryMoves
    <3>1. CASE Registry!Tick
      BY <3>1 DEF IInv, TypeOK, Registry!TypeOK, Registry!Tick
    <3>2. ASSUME NEW h \in Hashes, NEW m \in Merchants, NEW amount \in 0..MaxAmount,
                 Registry!Anchor(h, m, amount)
          PROVE  <1>3!:
      BY <3>2 DEF IInv, TypeOK, Registry!TypeOK, Registry!Anchor, Registry!ReceiptRecord
    <3> QED BY <2>1, <3>1, <3>2 DEF RegistryMoves, Registry!Next
  <2>2. CASE UNCHANGED registryVars
    BY <2>2 DEF IInv, TypeOK, registryVars, Registry!TypeOK, Registry!ReceiptRecord
  <2> QED BY <2>1, <2>2 DEF SetTrust, vars
<1>4. TypeOK' /\ (held <= deposited)'
  BY <1>1, <1>2, <1>3 DEF IInv, TypeOK
<1>5. Complete'
  BY <1>3 DEF IInv, Complete, Registry!Anchored
<1>6. \A h \in Hashes : dispute[h].status # "None" => receipt'[h] = receipt[h]
  BY <1>3 DEF IInv, OverAnchored, Registry!Anchored, Registry!NoReceipt
<1>7. OverAnchored'
  BY <1>1, <1>6 DEF IInv, OverAnchored
<1>8. \A m \in Merchants : LockedBy(m)' = LockedBy(m) /\ RefundsOf(m)' = RefundsOf(m)
  BY <1>1 DEF LockedBy, RefundsOf
<1>9. LockedIsTheOpenDisputes' /\ GuaranteesAreBacked'
  BY <1>1, <1>8 DEF IInv, LockedIsTheOpenDisputes, GuaranteesAreBacked
<1>10. EachPaysItsOwn'
  BY <1>1, <1>6, <1>8 DEF IInv, EachPaysItsOwn
<1> QED BY <1>4, <1>5, <1>7, <1>9, <1>10 DEF IInv

(* Every step of the specification keeps the invariant. *)
LEMMA StepPreserves == IInv /\ [Next]_vars => IInv'
<1> SUFFICES ASSUME IInv, [Next]_vars PROVE IInv'
  OBVIOUS
<1> QED BY DepositStep, WithdrawStep, OpenStep, ResolveStep, OtherSteps DEF Next

(* So it holds in every reachable state. *)
LEMMA Invariance == Spec => []IInv
<1> QED BY InitEstablishes, StepPreserves, PTL DEF Spec

(* Locks of a guarantee are exactly its open disputes and never more than its
   balance: open, resolve and withdraw (contracts/agent-resolve) keep it so
   for every number of merchants and receipts.                              *)
THEOREM LocksAreExact == Spec => []LockedIsTheOpenDisputes
<1>1. IInv => LockedIsTheOpenDisputes
  BY DEF IInv
<1> QED BY <1>1, Invariance, PTL

(* The contract holds every token its guarantees add up to. *)
THEOREM AlwaysBacked == Spec => []GuaranteesAreBacked
<1>1. IInv => GuaranteesAreBacked
  BY DEF IInv
<1> QED BY <1>1, Invariance, PTL

(* A merchant pays for its own receipts only, each at most once and never
   beyond the receipt.                                                      *)
THEOREM NobodyPaysForAnother == Spec => []EachPaysItsOwn
<1>1. IInv => EachPaysItsOwn
  BY DEF IInv
<1> QED BY <1>1, Invariance, PTL

(* The verdict on a receipt is final, and its dispute's terms were fixed when
   it was opened.                                                           *)
THEOREM VerdictsAreFinal == Spec => OneVerdict
<1> DEFINE Kept == \A h \in Hashes :
         LET d == dispute[h]
             e == dispute'[h]
         IN  /\ d.status = "Resolved" => e = d
             /\ d.status = "Open" =>
                  /\ e.status # "None"
                  /\ <<e.merchant, e.payer, e.amount>> = <<d.merchant, d.payer, d.amount>>
<1>1. IInv /\ [Next]_vars => [Kept]_vars
  <2> SUFFICES ASSUME IInv, Next PROVE Kept
    OBVIOUS
  <2>1. dispute \in [Hashes -> Dispute]
    BY DEF IInv, TypeOK
  <2>2. CASE UNCHANGED dispute
    BY <2>2
  <2>3. ASSUME NEW h \in Hashes, NEW payer \in Payers, NEW amount \in 0..MaxAmount,
               Open(h, payer, amount)
        PROVE  Kept
    <3>1. dispute[h].status = "None" /\ \A x \in Hashes \ {h} : dispute'[x] = dispute[x]
      BY <2>1, <2>3 DEF Open, Lock
    <3> QED BY <3>1
  <2>4. ASSUME NEW h \in Hashes, NEW refund \in 0..MaxAmount, Resolve(h, refund)
        PROVE  Kept
    <3>1. /\ dispute[h].status = "Open"
          /\ \A x \in Hashes \ {h} : dispute'[x] = dispute[x]
          /\ dispute'[h] = [status |-> "Resolved", merchant |-> dispute[h].merchant,
                            payer |-> dispute[h].payer, amount |-> dispute[h].amount,
                            refund |-> refund]
      BY <2>1, <2>4 DEF Resolve, Pay
    <3> QED BY <3>1
  <2> QED BY <2>2, <2>3, <2>4 DEF Next, Deposit, Withdraw, Take, SetTrust, RegistryMoves
<1> QED BY <1>1, Invariance, PTL DEF Spec, OneVerdict
-----------------------------------------------------------------------------
(* An anchor adds one receipt to its merchant's and none to another's. *)
LEMMA AnchorCounts ==
    ASSUME TypeOK, ReceiptsAreCounted, NEW h \in Hashes, NEW m \in Merchants,
           NEW amount \in 0..MaxAmount, Registry!Anchor(h, m, amount)
    PROVE  ReceiptsAreCounted'
<1> DEFINE Of(x) == {k \in Hashes : receipt[k].merchant = x}
<1> USE ResolveAssumption
<1>1. /\ receipt \in [Hashes -> Registry!ReceiptRecord \cup {Registry!NoReceipt}]
      /\ count \in [Merchants -> Nat]
      /\ receipt[h].merchant = NoOne
  BY DEF TypeOK, Registry!TypeOK, Registry!Anchor, Registry!Anchored, Registry!NoReceipt
<1>2. /\ receipt'[h].merchant = m
      /\ \A k \in Hashes \ {h} : receipt'[k] = receipt[k]
      /\ count' = [count EXCEPT ![m] = @ + 1]
  BY <1>1 DEF Registry!Anchor
<1>3. SUFFICES ASSUME NEW x \in Merchants
      PROVE  count'[x] = Cardinality({k \in Hashes : receipt'[k].merchant = x})
  BY DEF ReceiptsAreCounted
<1>4. count[x] = Cardinality(Of(x)) /\ IsFiniteSet(Of(x))
  BY FS_Subset DEF ReceiptsAreCounted
<1>5. CASE x = m
  <2>1. {k \in Hashes : receipt'[k].merchant = x} = Of(m) \cup {h} /\ h \notin Of(m)
    BY <1>1, <1>2, <1>5
  <2>2. Cardinality(Of(m) \cup {h}) = Cardinality(Of(m)) + 1
    <3>1. h \notin Of(m) /\ IsFiniteSet(Of(m))
      BY <1>4, <1>5, <2>1
    <3> HIDE DEF Of
    <3> QED BY <3>1, FS_AddElement
  <2> QED BY <1>1, <1>2, <1>4, <1>5, <2>1, <2>2
<1>6. CASE x # m
  <2>1. {k \in Hashes : receipt'[k].merchant = x} = Of(x)
    BY <1>1, <1>2, <1>6
  <2> QED BY <1>1, <1>2, <1>4, <1>6, <2>1
<1> QED BY <1>5, <1>6

(* The registry's count of a merchant is the number of receipts on record
   under its name, whoever anchors whose hash and whatever agent-resolve does
   meanwhile.                                                               *)
THEOREM EveryReceiptCountsOnce == Spec => []ReceiptsAreCounted
<1>1. Init => ReceiptsAreCounted
  <2> SUFFICES ASSUME Init, NEW m \in Merchants
               PROVE  count[m] = Cardinality({h \in Hashes : receipt[h].merchant = m})
    BY DEF ReceiptsAreCounted
  <2>1. count[m] = 0 /\ {h \in Hashes : receipt[h].merchant = m} = {}
    BY ResolveAssumption DEF Init, Registry!Init, Registry!NoReceipt
  <2> QED BY <2>1, FS_EmptySet
<1>2. IInv /\ ReceiptsAreCounted /\ [Next]_vars => ReceiptsAreCounted'
  <2> SUFFICES ASSUME IInv, ReceiptsAreCounted, [Next]_vars
               PROVE  ReceiptsAreCounted'
    OBVIOUS
  <2>1. CASE RegistryMoves
    BY <2>1, AnchorCounts DEF IInv, RegistryMoves, Registry!Next, Registry!Tick,
       ReceiptsAreCounted
  <2>2. CASE UNCHANGED registryVars
    BY <2>2 DEF registryVars, ReceiptsAreCounted
  <2> QED BY <2>1, <2>2 DEF Next, Deposit, Withdraw, Open, Lock, Resolve, Pay, Take,
             SetTrust, vars
<1> QED BY <1>1, <1>2, Invariance, PTL DEF Spec
=============================================================================
