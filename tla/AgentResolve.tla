---------------------------- MODULE AgentResolve ----------------------------
(***************************************************************************)
(* The Soroban contract contracts/agent-resolve: merchants' guarantees, the *)
(* disputes an arbiter opens over anchored receipts, and the refunds it     *)
(* awards, with the receipt registry it reads.  Claim and verdict hashes    *)
(* are opaque to the contract and left out.                                 *)
(***************************************************************************)
EXTENDS Integers, FiniteSets, TokenUnits

CONSTANTS Hashes, Merchants, NoOne, MaxAmount, MaxTime,
    Payers,      \* accounts the arbiter may name as a receipt's payer
    MaxFunds,    \* bound on all that is ever deposited
    ClaimWindow  \* Config.claim_window

ASSUME ResolveAssumption ==
    /\ IsFiniteSet(Hashes) /\ IsFiniteSet(Merchants)
    /\ NoOne \notin Merchants /\ NoOne \notin Payers
    /\ MaxAmount \in Nat \ {0}
    /\ MaxFunds \in Nat
    /\ ClaimWindow \in Nat \ {0}
    /\ MaxTime \in Nat \ {0}

VARIABLES
    now, receipt, count,  \* the ledger's clock and the receipt registry
    guarantee,   \* DataKey::Guarantee(merchant)
    dispute,     \* DataKey::Dispute(receipt)
    held,        \* tokens this contract got by deposit and still has
    canReceive,  \* payers a transfer can reach
    deposited,   \* history: all that deposits brought
    own          \* history: what each merchant's deposits, less withdrawals, left

Registry == INSTANCE ReceiptRegistry

registryVars == <<now, receipt, count>>
vars == <<registryVars, guarantee, dispute, held, canReceive, deposited, own>>

Status == {"None", "Open", "Resolved"}
Dispute ==
    [status : Status, merchant : Merchants \cup {NoOne}, payer : Payers \cup {NoOne},
     amount : 0..MaxAmount, refund : 0..MaxAmount]
NoDispute ==
    [status |-> "None", merchant |-> NoOne, payer |-> NoOne, amount |-> 0, refund |-> 0]

Init ==
    /\ Registry!Init
    /\ guarantee = [m \in Merchants |-> [balance |-> 0, locked |-> 0]]
    /\ dispute = [h \in Hashes |-> NoDispute]
    /\ held = 0
    /\ canReceive = Payers
    /\ deposited = 0
    /\ own = [m \in Merchants |-> 0]

(* Guarantee not locked by open disputes. *)
Free(m) == guarantee[m].balance - guarantee[m].locked

(* Anyone funds a merchant's guarantee. *)
Deposit(m, amount) ==
    /\ amount > 0
    /\ deposited + amount <= MaxFunds
    /\ guarantee' = [guarantee EXCEPT ![m] =
                       [balance |-> @.balance + amount, locked |-> @.locked]]
    /\ held' = held + amount
    /\ deposited' = deposited + amount
    /\ own' = [own EXCEPT ![m] = @ + amount]
    /\ UNCHANGED <<registryVars, dispute, canReceive>>

Take(m, amount) ==
    /\ guarantee' = [guarantee EXCEPT ![m] =
                       [balance |-> @.balance - amount, locked |-> @.locked]]
    /\ held' = held - amount
    /\ own' = [own EXCEPT ![m] = @ - amount]
    /\ UNCHANGED <<registryVars, dispute, canReceive, deposited>>

WithdrawLocked(m, amount) == amount > 0 /\ amount <= guarantee[m].balance /\ Take(m, amount)
(* The merchant takes back what no open dispute locks. *)
Withdraw(m, amount) == amount > 0 /\ amount <= Free(m) /\ Take(m, amount)

Lock(h, payer, amount) ==
    LET m == receipt[h].merchant
    IN  /\ guarantee' = [guarantee EXCEPT ![m] =
                           [balance |-> @.balance, locked |-> @.locked + amount]]
        /\ dispute' = [dispute EXCEPT ![h] =
                         [status |-> "Open", merchant |-> m, payer |-> payer,
                          amount |-> amount, refund |-> 0]]
        /\ UNCHANGED <<registryVars, held, canReceive, deposited, own>>

OpenAgain(h, payer, amount) ==
    /\ dispute[h].status # "Open"
    /\ Registry!Anchored(h)
    /\ now <= receipt[h].timestamp + ClaimWindow
    /\ 0 < amount /\ amount <= receipt[h].amount
    /\ amount <= Free(receipt[h].merchant)
    /\ Lock(h, payer, amount)
(* Arbiter only.  The merchant comes from the receipt; the payer is whoever
   the arbiter names.                                                       *)
Open(h, payer, amount) ==
    /\ dispute[h].status = "None"
    /\ Registry!Anchored(h)
    /\ now <= receipt[h].timestamp + ClaimWindow
    /\ 0 < amount /\ amount <= receipt[h].amount
    /\ amount <= Free(receipt[h].merchant)
    /\ Lock(h, payer, amount)

PayUndebited(h, refund) ==
    LET d == dispute[h]
    IN  /\ refund > 0 => d.payer \in canReceive
        /\ guarantee' = [guarantee EXCEPT ![d.merchant] =
                           [balance |-> @.balance, locked |-> @.locked - d.amount]]
        /\ dispute' = [dispute EXCEPT ![h] =
                         [status |-> "Resolved", merchant |-> d.merchant, payer |-> d.payer,
                          amount |-> d.amount, refund |-> refund]]
        /\ held' = held - refund
        /\ UNCHANGED <<registryVars, canReceive, deposited, own>>
Pay(h, refund) ==
    LET d == dispute[h]
    IN  /\ refund > 0 => d.payer \in canReceive
        /\ guarantee' = [guarantee EXCEPT ![d.merchant] =
                           [balance |-> @.balance - refund, locked |-> @.locked - d.amount]]
        /\ dispute' = [dispute EXCEPT ![h] =
                         [status |-> "Resolved", merchant |-> d.merchant, payer |-> d.payer,
                          amount |-> d.amount, refund |-> refund]]
        /\ held' = held - refund
        /\ UNCHANGED <<registryVars, canReceive, deposited, own>>

(* Arbiter only.  A refund the payer cannot receive undoes the whole call. *)
Resolve(h, refund) ==
    /\ dispute[h].status = "Open"
    /\ refund <= dispute[h].amount
    /\ Pay(h, refund)

-----------------------------------------------------------------------------
RegistryMoves ==
    /\ Registry!Next
    /\ UNCHANGED <<guarantee, dispute, held, canReceive, deposited, own>>

SetTrust(a) ==
    /\ canReceive' = IF a \in canReceive THEN canReceive \ {a} ELSE canReceive \cup {a}
    /\ UNCHANGED <<registryVars, guarantee, dispute, held, deposited, own>>

Next ==
    \/ \E m \in Merchants, amount \in 0..MaxFunds : Deposit(m, amount) \/ Withdraw(m, amount)
    \/ \E h \in Hashes :
          \/ \E payer \in Payers, amount \in 0..MaxAmount : Open(h, payer, amount)
          \/ \E refund \in 0..MaxAmount : Resolve(h, refund)
    \/ \E a \in Payers : SetTrust(a)
    \/ RegistryMoves

Spec == Init /\ [][Next]_vars

-----------------------------------------------------------------------------
TypeOK ==
    /\ Registry!TypeOK
    /\ guarantee \in [Merchants -> [balance : 0..MaxFunds, locked : 0..MaxFunds]]
    /\ dispute \in [Hashes -> Dispute]
    /\ held \in Nat
    /\ canReceive \in SUBSET Payers
    /\ deposited \in 0..MaxFunds
    /\ own \in [Merchants -> Int]

LockedBy(m) == [h \in Hashes |-> IF dispute[h].status = "Open" /\ dispute[h].merchant = m
                                 THEN dispute[h].amount ELSE 0]
RefundsOf(m) == [h \in Hashes |-> IF dispute[h].merchant = m THEN dispute[h].refund ELSE 0]

(* "Sum of the amounts of this merchant's open disputes. Never above
   `balance`" (lib.rs:102): however disputes open, close and interleave with
   withdrawals, an award can always be paid in full.                        *)
LockedIsTheOpenDisputes ==
    \A m \in Merchants :
        /\ guarantee[m].locked = Total(Hashes, MaxAmount, LockedBy(m))
        /\ guarantee[m].locked <= guarantee[m].balance

(* The contract has every token it says merchants have, so the last one to
   withdraw finds it there.                                                 *)
GuaranteesAreBacked ==
    held = Total(Merchants, MaxFunds, [m \in Merchants |-> guarantee[m].balance])

(* "a refund never exceeds the receipt, never comes from another merchant's
   guarantee, and never happens twice" (lib.rs:20-21): a merchant's balance is
   its own deposits, less its withdrawals and one refund per receipt.       *)
EachPaysItsOwn ==
    /\ \A m \in Merchants :
          guarantee[m].balance = own[m] - Total(Hashes, MaxAmount, RefundsOf(m))
    /\ \A h \in Hashes : dispute[h].status # "None" =>
          /\ dispute[h].merchant = receipt[h].merchant
          /\ dispute[h].refund <= dispute[h].amount
          /\ dispute[h].amount <= receipt[h].amount

(* A receipt is disputed once: its dispute's terms are fixed when it opens,
   and nothing about it changes after the verdict.                          *)
OneVerdict ==
    [][\A h \in Hashes :
         LET d == dispute[h]
             e == dispute'[h]
         IN  /\ d.status = "Resolved" => e = d
             /\ d.status = "Open" =>
                  /\ e.status # "None"
                  /\ <<e.merchant, e.payer, e.amount>> = <<d.merchant, d.payer, d.amount>>]_vars

(* The registry's count of a merchant is the number of receipts on record
   under that name, whoever anchors whose hash: no anchor replaces another's
   record while counting it again (receipt-registry, lib.rs:91-107).        *)
ReceiptsAreCounted ==
    \A m \in Merchants : count[m] = Cardinality({h \in Hashes : receipt[h].merchant = m})
=============================================================================
