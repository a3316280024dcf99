--------------------------- MODULE PurchaseEscrow ---------------------------
(***************************************************************************)
(* The Soroban contract contracts/purchase-escrow: one store's purchases,   *)
(* held until they ship, then released to the store or refunded to the      *)
(* payer by the contract's own deadlines.                                   *)
(*                                                                          *)
(* A call that returns an error leaves no trace on the ledger, so an error  *)
(* is the negation of a guard; require_auth() names who takes the step.     *)
(* Hashes of claims, answers, verdicts and receipts are opaque to the       *)
(* contract and left out.                                                   *)
(***************************************************************************)
EXTENDS Integers, FiniteSets, TokenUnits

CONSTANTS
    Orders,          \* order references an operator may name (1 to 64 bytes)
    TxHashes,        \* hashes of payment transactions an operator may name
    Accounts,        \* every account and rail that may be named payer
    Payee,           \* Config.payee, the store's payout account
    NoOne,           \* no payer, no order: an absent entry
    MaxAmount,       \* largest single amount
    MaxArrived,      \* bound on all that ever arrives
    ReleaseWindow,   \* Config.release_window
    ResponseWindow,  \* Config.response_window
    ResolveWindow,   \* Config.resolve_window
    MaxTime          \* u64::MAX, where time stops and additions saturate

ASSUME PartiesAssumption ==
    /\ IsFiniteSet(Orders)
    /\ Payee \in Accounts
    /\ NoOne \notin Accounts
    /\ NoOne \notin Orders
    /\ NoOne \notin TxHashes

ASSUME BoundsAssumption ==
    /\ MaxAmount \in Nat \ {0}
    /\ MaxArrived \in Nat
    /\ MaxTime \in Nat \ {0}

(* __constructor refuses a window of zero (InvalidWindow). *)
ASSUME WindowsAssumption ==
    /\ ReleaseWindow \in Nat \ {0}
    /\ ResponseWindow \in Nat \ {0}
    /\ ResolveWindow \in Nat \ {0}

VARIABLES
    now,         \* env.ledger().timestamp()
    balance,     \* the token's balance of this contract
    canReceive,  \* accounts a transfer can reach: trustline there, authorised
    allocated,   \* DataKey::Allocated
    purchase,    \* DataKey::Purchase(order_ref)
    payment,     \* DataKey::Payment(tx_hash), the order it backs
    arrived,     \* history: all that was ever transferred here
    paid         \* history: what each order's transfers sent out, to whom

contractVars == <<allocated, purchase, payment>>
tokenVars == <<balance, canReceive, arrived, paid>>
vars == <<now, balance, canReceive, allocated, purchase, payment, arrived, paid>>

Amounts == 1..MaxAmount
OpenStatus == {"Held", "Shipped", "Disputed", "Responded"}
ClosedStatus == {"Released", "Resolved", "Expired"}
Status == {"None"} \cup OpenStatus \cup ClosedStatus

Purchase ==
    [payer : Accounts \cup {NoOne}, amount : 0..MaxAmount,
     tx_hash : TxHashes \cup {NoOne}, status : Status,
     shipped_at : 0..MaxTime, opened_at : 0..MaxTime,
     refund : 0..MaxAmount, refund_owed : 0..MaxAmount]

NewPurchase(payer, amount, t, status) ==
    [payer |-> payer, amount |-> amount, tx_hash |-> t, status |-> status,
     shipped_at |-> 0, opened_at |-> 0, refund |-> 0, refund_owed |-> 0]

NoPurchase == NewPurchase(NoOne, 0, NoOne, "None")

Init ==
    /\ now = 1
    /\ balance = 0
    /\ canReceive = Accounts
    /\ allocated = 0
    /\ purchase = [o \in Orders |-> NoPurchase]
    /\ payment = [t \in TxHashes |-> NoOne]
    /\ arrived = 0
    /\ paid = [o \in Orders |-> [payer |-> 0, store |-> 0]]

-----------------------------------------------------------------------------
(* Helpers the operations share. *)

(* u64::saturating_add *)
SaturatingAdd(t, window) == IF t + window > MaxTime THEN MaxTime ELSE t + window

(* What has arrived here and no purchase has claimed yet. *)
unallocated == balance - allocated

ReleaseAt(o) == SaturatingAdd(purchase[o].shipped_at, ReleaseWindow)
ResponseDeadline(o) == SaturatingAdd(purchase[o].opened_at, ResponseWindow)
ResolveDeadline(o) == SaturatingAdd(ResponseDeadline(o), ResolveWindow)

(* try_transfer out of this contract, when it holds `held`. *)
Transfers(account, amount, held) == account \in canReceive /\ amount <= held

(* The part of refund that stays here because the payer cannot receive it. *)
Owed(o, refund) ==
    IF refund = 0 \/ Transfers(purchase[o].payer, refund, balance) THEN 0 ELSE refund

(* The store's part reaches it, or the whole call is rolled back. *)
PayeeReceivesAlways(o, refund) == Payee \in canReceive
PayeeReceives(o, refund) ==
    LET toStore == purchase[o].amount - refund
    IN  toStore > 0 => Transfers(Payee, toStore, balance - (refund - Owed(o, refund)))

(* Pays refund to the payer and the rest to the payee, frees the allocation
   and records the outcome.                                                 *)
Close(o, status, refund) ==
    LET p == purchase[o]
        owed == Owed(o, refund)
        toStore == p.amount - refund
    IN  /\ PayeeReceives(o, refund)
        /\ purchase' = [purchase EXCEPT ![o].status = status,
                                        ![o].refund = refund,
                                        ![o].refund_owed = owed]
        /\ allocated' = (allocated - p.amount) + owed
        /\ balance' = (balance - (refund - owed)) - toStore
        /\ paid' = [paid EXCEPT ![o] = [payer |-> @.payer + (refund - owed),
                                        store |-> @.store + toStore]]
        /\ UNCHANGED <<now, canReceive, payment, arrived>>

-----------------------------------------------------------------------------
(* The operations. *)

Record(o, payer, amount, t) ==
    /\ allocated' = allocated + amount
    /\ purchase' = [purchase EXCEPT ![o] = NewPurchase(payer, amount, t, "Held")]
    /\ payment' = [payment EXCEPT ![t] = o]
    /\ UNCHANGED <<now, tokenVars>>

HoldOverwrites(o, payer, amount, t) ==
    amount > 0 /\ payment[t] = NoOne /\ amount <= unallocated /\ Record(o, payer, amount, t)
HoldReusesPayment(o, payer, amount, t) ==
    amount > 0 /\ purchase[o].status = "None" /\ amount <= unallocated /\ Record(o, payer, amount, t)
HoldAgainstBalance(o, payer, amount, t) ==
    amount > 0 /\ purchase[o].status = "None" /\ payment[t] = NoOne /\ amount <= balance
    /\ Record(o, payer, amount, t)
(* Operator only.  The contract cannot see the payment transaction: payer,
   amount and tx_hash are whatever the operator says.                       *)
Hold(o, payer, amount, t) ==
    /\ amount > 0
    /\ purchase[o].status = "None"
    /\ payment[t] = NoOne
    /\ amount <= unallocated
    /\ Record(o, payer, amount, t)

(* Operator only. *)
MarkShipped(o) ==
    /\ purchase[o].status = "Held"
    /\ purchase' = [purchase EXCEPT ![o].status = "Shipped",
                                    ![o].shipped_at = now]
    /\ UNCHANGED <<now, allocated, payment, tokenVars>>

MayRelease(o) == purchase[o].status = "Shipped" /\ now >= ReleaseAt(o)
(* Anyone. *)
Release(o) ==
    /\ MayRelease(o)
    /\ Close(o, "Released", 0)

OpenDisputeAgain(o) ==
    /\ \/ purchase[o].status \in {"Held", "Responded"}
       \/ purchase[o].status = "Shipped" /\ now < ReleaseAt(o)
    /\ purchase' = [purchase EXCEPT ![o].status = "Disputed",
                                    ![o].opened_at = now]
    /\ UNCHANGED <<now, allocated, payment, tokenVars>>
MayOpenDispute(o) ==
    \/ purchase[o].status = "Held"
    \/ purchase[o].status = "Shipped" /\ now < ReleaseAt(o)
(* With the payer's consent: its account's auth, or the signature of the
   owner of its rail.                                                       *)
OpenDispute(o) ==
    /\ MayOpenDispute(o)
    /\ purchase' = [purchase EXCEPT ![o].status = "Disputed",
                                    ![o].opened_at = now]
    /\ UNCHANGED <<now, allocated, payment, tokenVars>>

MayRespond(o) == purchase[o].status = "Disputed" /\ now <= ResponseDeadline(o)
(* Payee only. *)
Respond(o) ==
    /\ MayRespond(o)
    /\ purchase' = [purchase EXCEPT ![o].status = "Responded"]
    /\ UNCHANGED <<now, allocated, payment, tokenVars>>

MayResolve(o) ==
    /\ \/ purchase[o].status = "Responded"
       \/ purchase[o].status = "Disputed" /\ now > ResponseDeadline(o)
    /\ now <= ResolveDeadline(o)
(* Arbiter only. *)
Resolve(o, refund) ==
    /\ MayResolve(o)
    /\ refund <= purchase[o].amount
    /\ Close(o, "Resolved", refund)

MayExpireAtDeadline(o) ==
    purchase[o].status \in {"Disputed", "Responded"} /\ now >= ResolveDeadline(o)
MayExpire(o) ==
    purchase[o].status \in {"Disputed", "Responded"} /\ now > ResolveDeadline(o)
(* Anyone. *)
Expire(o) ==
    /\ MayExpire(o)
    /\ Close(o, "Expired", purchase[o].amount)

Pay(o, amount) ==
    /\ amount > 0
    /\ Transfers(purchase[o].payer, amount, balance)
    /\ allocated' = allocated - amount
    /\ balance' = balance - amount
    /\ paid' = [paid EXCEPT ![o] = [payer |-> @.payer + amount, store |-> @.store]]
    /\ UNCHANGED <<now, canReceive, payment, arrived>>

ClaimRefundAgain(o) == Pay(o, purchase[o].refund_owed) /\ UNCHANGED purchase
ClaimRefundOnlyResolved(o) ==
    /\ purchase[o].status = "Resolved"
    /\ Pay(o, purchase[o].refund_owed)
    /\ purchase' = [purchase EXCEPT ![o].refund_owed = 0]
(* Anyone. *)
ClaimRefund(o) ==
    /\ Pay(o, purchase[o].refund_owed)
    /\ purchase' = [purchase EXCEPT ![o].refund_owed = 0]

-----------------------------------------------------------------------------
(* The ledger around the contract. *)

(* A payment lands: a plain transfer of the token, which runs no code here. *)
Arrive(amount) ==
    /\ arrived + amount <= MaxArrived
    /\ balance' = balance + amount
    /\ arrived' = arrived + amount
    /\ UNCHANGED <<now, canReceive, paid, contractVars>>

(* An account drops or restores its trustline, or the issuer does for it. *)
SetTrust(a) ==
    /\ canReceive' = IF a \in canReceive THEN canReceive \ {a}
                                         ELSE canReceive \cup {a}
    /\ UNCHANGED <<now, balance, arrived, paid, contractVars>>

Tick ==
    /\ now < MaxTime
    /\ now' = now + 1
    /\ UNCHANGED <<tokenVars, contractVars>>

Operation(o) ==
    \/ \E payer \in Accounts, amount \in 0..MaxAmount, t \in TxHashes :
          Hold(o, payer, amount, t)
    \/ MarkShipped(o)
    \/ Release(o)
    \/ OpenDispute(o)
    \/ Respond(o)
    \/ \E refund \in 0..MaxAmount : Resolve(o, refund)
    \/ Expire(o)
    \/ ClaimRefund(o)

Next ==
    \/ \E o \in Orders : Operation(o)
    \/ \E amount \in Amounts : Arrive(amount)
    \/ \E a \in Accounts : SetTrust(a)
    \/ Tick

Spec == Init /\ [][Next]_vars

(* The ledger's clock never stops.  Nobody is obliged to call anything, but
   expire and claim_refund are open to anyone and the payer wants them.  An
   account that wants its refund ends up able to receive.                   *)
FairSpec ==
    /\ Spec
    /\ WF_vars(Tick)
    /\ \A o \in Orders : WF_vars(Expire(o)) /\ SF_vars(ClaimRefund(o))

-----------------------------------------------------------------------------
(* What the contract promises. *)

TypeOK ==
    /\ now \in 1..MaxTime
    /\ balance \in Nat
    /\ canReceive \in SUBSET Accounts
    /\ allocated \in Nat
    /\ purchase \in [Orders -> Purchase]
    /\ payment \in [TxHashes -> Orders \cup {NoOne}]
    /\ arrived \in Nat
    /\ paid \in [Orders -> [payer : Nat, store : Nat]]

(* What order o still has a claim on: its whole amount while it is open, the
   undelivered part of its refund once it is closed.                        *)
Locked(o) == IF purchase[o].status \in OpenStatus THEN purchase[o].amount
                                                  ELSE purchase[o].refund_owed

(* DataKey::Allocated is "Sum of the amounts of purchases not yet paid out"
   (lib.rs:175), undelivered refunds included, in every reachable state: no
   sequence of hold, close and claim_refund frees a unit twice or leaks one. *)
AllocatedIsTheSumLocked ==
    allocated = Total(Orders, MaxAmount, [o \in Orders |-> Locked(o)])

(* Every purchase is covered by tokens the contract really has: hold "never
   allocates more than has arrived" (lib.rs:27), whatever the operator says,
   and no payout of one purchase eats into another's.                       *)
Solvent ==
    /\ allocated <= balance
    /\ \A o \in Orders : Locked(o) <= balance

(* Money is split exactly once per purchase.  While it is open nothing has
   left; once closed, what the payer got or is owed is the refund, the store
   got the rest, and neither close nor claim_refund can pay it twice.       *)
PaidOnce ==
    \A o \in Orders :
        LET p == purchase[o]
        IN  IF p.status \in ClosedStatus
            THEN /\ paid[o].payer + p.refund_owed = p.refund
                 /\ paid[o].store = p.amount - p.refund
            ELSE /\ paid[o] = [payer |-> 0, store |-> 0]
                 /\ p.refund_owed = 0

(* A recorded purchase is complete, and refunds no more than it was paid. *)
WellFormed ==
    \A o \in Orders :
        LET p == purchase[o]
        IN  IF p.status = "None" THEN p = NoPurchase
            ELSE /\ p.payer \in Accounts /\ p.tx_hash \in TxHashes
                 /\ p.amount \in Amounts /\ p.refund <= p.amount
                 /\ p.status \in OpenStatus => p.refund = 0

(* "tx_hash is unique, so one payment backs one purchase" (lib.rs:27): the
   Payment index and the purchases are inverse to each other.               *)
OnePaymentOnePurchase ==
    /\ \A o \in Orders : purchase[o].status # "None" =>
           payment[purchase[o].tx_hash] = o
    /\ \A t \in TxHashes : payment[t] # NoOne =>
           purchase[payment[t]].tx_hash = t

(* Every moment of a dispute has exactly one way on, decided by the clock:
   while the store may still answer a silent dispute the arbiter waits, then
   the arbiter rules, then anyone may expire.  The windows of respond,
   resolve and expire neither overlap nor leave a gap, saturation included;
   the same for open and release after shipping.  The store's payout account
   being unable to receive never blocks the payer's full refund.            *)
OneRemedyAtATime ==
    \A o \in Orders :
        LET status == purchase[o].status
            answer == MayRespond(o)
            rule == MayResolve(o) /\ PayeeReceives(o, purchase[o].amount)
            expire == MayExpire(o) /\ PayeeReceives(o, purchase[o].amount)
        IN  /\ status = "Disputed" =>
                 /\ answer \/ rule \/ expire
                 /\ ~(answer /\ rule) /\ ~(answer /\ expire) /\ ~(rule /\ expire)
            /\ status = "Responded" => rule # expire
            /\ status = "Shipped" /\ Payee \in canReceive =>
                 MayOpenDispute(o) # (MayRelease(o) /\ PayeeReceives(o, 0))

(* Once a purchase is recorded its terms are fixed and its status only moves
   forward; a closed purchase changes only by paying down what is owed.     *)
Rank(status) ==
    CASE status = "None" -> 0
      [] status = "Held" -> 1
      [] status = "Shipped" -> 2
      [] status = "Disputed" -> 3
      [] status = "Responded" -> 4
      [] OTHER -> 5

TermsAreFinal ==
    [][\A o \in Orders :
         LET p == purchase[o]
             q == purchase'[o]
         IN  p.status # "None" =>
               /\ q.payer = p.payer /\ q.amount = p.amount /\ q.tx_hash = p.tx_hash
               /\ p.status # q.status => Rank(p.status) < Rank(q.status)
               /\ p.status \in ClosedStatus =>
                    /\ q.refund = p.refund
                    /\ q.refund_owed \in {0, p.refund_owed}]_vars

(* The escrow implements Custody: its statuses, windows and running total are
   one way to keep each purchase's money apart and pay it out once.         *)
Promise == INSTANCE Custody WITH
    free <- balance - allocated,
    amount <- [o \in Orders |-> purchase[o].amount],
    kept <- [o \in Orders |-> Locked(o)],
    toPayer <- [o \in Orders |-> paid[o].payer],
    toStore <- [o \in Orders |-> paid[o].store]

KeepsItsPromise == Promise!Spec

(* A dispute always ends (X-7): once its deadline can pass on this ledger's
   clock, the purchase closes even if store and arbiter never act.          *)
DisputesEnd ==
    \A o \in Orders :
        (purchase[o].status \in {"Disputed", "Responded"}
           /\ ResolveDeadline(o) < MaxTime)
        ~> purchase[o].status \in ClosedStatus

(* A refund a payer could not receive is not lost (X-19): if that payer can
   receive again and again, claim_refund delivers it.                       *)
OwedRefundsAreDelivered ==
    \A o \in Orders : \A a \in Accounts :
        (purchase[o].refund_owed > 0 /\ purchase[o].payer = a)
        ~> (purchase[o].refund_owed = 0 \/ [](a \notin canReceive))
=============================================================================
