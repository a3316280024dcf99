------------------------------ MODULE Custody ------------------------------
(***************************************************************************)
(* What a purchase escrow promises, without statuses, clocks or parties:    *)
(* money set aside for a purchase is money that had arrived and was free;   *)
(* it is set aside once, settled once and in full, and whatever part of the *)
(* refund could not be delivered stays set aside until the payer gets it.   *)
(***************************************************************************)
EXTENDS Integers

CONSTANTS Orders, MaxAmount

VARIABLES
    free,      \* money in custody that backs no purchase
    amount,    \* what was set aside for each order, 0 if nothing yet
    kept,      \* the part of it still in custody
    toPayer,   \* the part of it the payer received
    toStore    \* the part of it the store received

vars == <<free, amount, kept, toPayer, toStore>>

Zero == [o \in Orders |-> 0]

Init ==
    /\ free = 0
    /\ amount = Zero /\ kept = Zero /\ toPayer = Zero /\ toStore = Zero

Deposit ==
    /\ \E n \in 1..MaxAmount : free' = free + n
    /\ UNCHANGED <<amount, kept, toPayer, toStore>>

Keep(o) ==
    \E n \in 1..MaxAmount :
        /\ amount[o] = 0
        /\ n <= free
        /\ free' = free - n
        /\ amount' = [amount EXCEPT ![o] = n]
        /\ kept' = [kept EXCEPT ![o] = n]
        /\ UNCHANGED <<toPayer, toStore>>

(* The refund goes out whole or stays whole; the store's part goes out. *)
Settle(o) ==
    \E refund \in 0..MaxAmount, stays \in {TRUE, FALSE} :
        /\ amount[o] > 0
        /\ kept[o] = amount[o] /\ toPayer[o] = 0 /\ toStore[o] = 0
        /\ refund <= amount[o]
        /\ kept' = [kept EXCEPT ![o] = IF stays THEN refund ELSE 0]
        /\ toPayer' = [toPayer EXCEPT ![o] = IF stays THEN 0 ELSE refund]
        /\ toStore' = [toStore EXCEPT ![o] = amount[o] - refund]
        /\ UNCHANGED <<free, amount>>

Deliver(o) ==
    /\ kept[o] > 0
    /\ kept' = [kept EXCEPT ![o] = 0]
    /\ toPayer' = [toPayer EXCEPT ![o] = @ + kept[o]]
    /\ UNCHANGED <<free, amount, toStore>>

Next == Deposit \/ \E o \in Orders : Keep(o) \/ Settle(o) \/ Deliver(o)

Spec == Init /\ [][Next]_vars
=============================================================================
