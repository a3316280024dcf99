--------------------------- MODULE ReceiptRegistry --------------------------
(***************************************************************************)
(* The Soroban contract contracts/receipt-registry: which merchant signed   *)
(* which receipt, for how much and when.  Order references and the lives of *)
(* storage entries are left out.                                            *)
(***************************************************************************)
EXTENDS Integers

CONSTANTS
    Hashes,     \* receipt hashes anyone may anchor
    Merchants,  \* accounts that anchor
    NoOne,
    MaxAmount,  \* largest receipt
    MaxTime     \* bound on the ledger's clock

VARIABLES
    now,      \* env.ledger().timestamp()
    receipt,  \* DataKey::Receipt(hash)
    count     \* DataKey::Count(merchant)

vars == <<now, receipt, count>>

ReceiptRecord ==
    [merchant : Merchants, amount : 1..MaxAmount, timestamp : 1..MaxTime]
NoReceipt == [merchant |-> NoOne, amount |-> 0, timestamp |-> 0]

Anchored(h) == receipt[h] # NoReceipt

Init ==
    /\ now = 1
    /\ receipt = [h \in Hashes |-> NoReceipt]
    /\ count = [m \in Merchants |-> 0]

AnchorOver(h, m, amount) ==
    /\ amount > 0
    /\ receipt' = [receipt EXCEPT ![h] =
                     [merchant |-> m, amount |-> amount, timestamp |-> now]]
    /\ count' = [count EXCEPT ![m] = @ + 1]
    /\ UNCHANGED now
(* The merchant, for itself. *)
Anchor(h, m, amount) ==
    /\ amount > 0
    /\ ~Anchored(h)
    /\ receipt' = [receipt EXCEPT ![h] =
                     [merchant |-> m, amount |-> amount, timestamp |-> now]]
    /\ count' = [count EXCEPT ![m] = @ + 1]
    /\ UNCHANGED now

Tick == now < MaxTime /\ now' = now + 1 /\ UNCHANGED <<receipt, count>>

Next ==
    \/ \E h \in Hashes, m \in Merchants, amount \in 0..MaxAmount : Anchor(h, m, amount)
    \/ Tick

Spec == Init /\ [][Next]_vars

-----------------------------------------------------------------------------
TypeOK ==
    /\ now \in 1..MaxTime
    /\ receipt \in [Hashes -> ReceiptRecord \cup {NoReceipt}]
    /\ count \in [Merchants -> Nat]
=============================================================================
