---------------------------- MODULE UcpCheckout -----------------------------
(***************************************************************************)
(* The UCP checkout of one store (packages/vitrinee-gateway, ucp/checkout.ts *)
(* and checkout.ts): sessions a platform opens, changes, cancels and        *)
(* completes by handing over a signed x402 payment, while stock is held, the *)
(* facilitator settles, the platform order is made and the order recorded.  *)
(*                                                                          *)
(* A request is a process; it gives way at each await, and what it read     *)
(* before one may be stale after it.  stored and disk are in the database;  *)
(* everything else the server keeps is lost in a crash.  The store sells    *)
(* one product, so a cart is a number of units.  A payment stands for the   *)
(* signed transaction, its settlement and that settlement's order.          *)
(***************************************************************************)
EXTENDS Integers, FiniteSets

CONSTANTS
    Sessions, Payments, Requests,
    None,        \* no session, no payment, no quote, no order
    Amount,      \* what each payment was signed for
    Units,       \* carts: how many units a session asks for
    Prices,      \* unit prices the store's platform may show
    Stock,       \* units the store has to sell
    MaxMoves,    \* bound on changes of price
    MaxFaults,   \* bound on database and platform calls that fail
    MaxCrashes   \* bound on restarts of the server

ASSUME CheckoutAssumption ==
    /\ None \notin Sessions \cup Payments
    /\ Amount \in [Payments -> Nat \ {0}]
    /\ Units \subseteq Nat \ {0}
    /\ Prices \subseteq Nat \ {0} /\ Prices # {}
    /\ {Stock, MaxMoves, MaxFaults, MaxCrashes} \subseteq Nat
    /\ IsFiniteSet(Requests)

Statuses == {"incomplete", "ready_for_complete", "complete_in_progress", "completed", "canceled"}
Quotes == [units : Units, price : Prices]
CheckoutSession ==
    [status : Statuses, units : Units, deliverable : BOOLEAN, quote : Quotes \cup {None},
     requirements : Nat, paymentKey : Payments \cup {None}, settlement : Payments \cup {None}]
OrderRecord ==
    [session : Sessions, units : Units, price : Prices, status : {"paid", "paid_unfulfilled"}]
(* None is nothing. *)
ASSUME NoneAssumption ==
    None \notin CheckoutSession /\ None \notin Quotes /\ None \notin OrderRecord

VARIABLES
    stored,    \* checkout_sessions: each session as it was last saved
    disk,      \* the orders as persisted, by settlement
    orders,    \* OrderStore.orders: the orders this process knows
    reserved,  \* Reservations.held
    req,       \* the requests being served
    stock, price,      \* the product, on the store's platform
    platformOrders,    \* orders made there, by settlement
    moved,     \* payments that reached the store
    charged,   \* <<session, payment>>: the money moved in this session's complete
    expired,   \* sessions past expires_at
    moves, faults, crashes

outside == <<price, expired, moves>>
money == <<moved, charged>>
placed == <<disk, orders, stock, platformOrders>>
vars == <<stored, placed, reserved, req, money, outside, faults, crashes>>

Live == {"incomplete", "ready_for_complete"}
(* A request, its own copy of the session and what it saw reserved. *)
Serving(op, at, session, payment, copy, seen) ==
    [op |-> op, at |-> at, session |-> session, payment |-> payment, copy |-> copy,
     seen |-> seen, stock |-> 0, price |-> 0, holds |-> 0]
Idle == Serving("none", "idle", None, None, None, 0)
NewSession(units, deliverable) ==
    [status |-> "incomplete", units |-> units, deliverable |-> deliverable, quote |-> None,
     requirements |-> 0, paymentKey |-> None, settlement |-> None]

Init ==
    /\ stored = [s \in Sessions |-> None]
    /\ disk = [p \in Payments |-> None]
    /\ orders = disk
    /\ reserved = 0
    /\ req = [r \in Requests |-> Idle]
    /\ stock = Stock
    /\ price \in Prices
    /\ platformOrders = [p \in Payments |-> 0]
    /\ moved = {}
    /\ charged = {}
    /\ expired = {}
    /\ moves = 0
    /\ faults = 0
    /\ crashes = 0

-----------------------------------------------------------------------------
(* What an answer ends: the request, its session lock and its reservation.  *)

(* The units behind a sum of reservations: unit i of request r is <<r, i>>. *)
HeldUnits(rs) == {u \in rs \X (1..Stock) : u[2] <= req[u[1]].holds}
HeldBy(rs) == Cardinality(HeldUnits(rs))

Ends(rs) ==
    /\ req' = [r \in Requests |-> IF r \in rs THEN Idle ELSE req[r]]
    /\ reserved' = reserved - HeldBy(rs)

At(r, at) == req[r].at = at
Goes(r, at) == req' = [req EXCEPT ![r].at = at]

(* deps.inFlight: PUT, cancel and complete take the session's lock. *)
Locked(s) == \E r \in Requests : req[r].session = s /\ req[r].op \notin {"none", "get"}

PastItsTime(s) == stored[s].status \in Live /\ s \in expired

-----------------------------------------------------------------------------
(* Requests arrive.  The session is read and, if a quote is needed, what is
   reserved; then the platform is asked for the product.                    *)

Asks(r, op, s, p, copy) ==
    /\ req' = [req EXCEPT ![r] = Serving(op, "asked", s, p, copy, reserved)]
    /\ UNCHANGED <<stored, placed, reserved, money, outside, faults, crashes>>

Open(r, s, units, deliverable) ==
    /\ At(r, "idle") /\ stored[s] = None /\ ~Locked(s)
    /\ Asks(r, "refresh", s, None, NewSession(units, deliverable))

Update(r, s, units, deliverable) ==
    /\ At(r, "idle") /\ stored[s] # None /\ ~Locked(s)
    /\ stored[s].status \in Live /\ ~PastItsTime(s)
    /\ Asks(r, "refresh", s, None,
            [stored[s] EXCEPT !.units = units, !.deliverable = deliverable])

(* A request that only has to save the session as canceled. *)
Closes(r, op, s) ==
    /\ req' = [req EXCEPT ![r] = Serving(op, "cancel", s, None,
                                         [stored[s] EXCEPT !.status = "canceled"], 0)]
    /\ UNCHANGED <<stored, placed, reserved, money, outside, faults, crashes>>

(* loadSession: whoever reads a session past its time cancels it.  GET reads
   without the lock.                                                        *)
ReadExpired(r, s, op) ==
    /\ At(r, "idle") /\ stored[s] # None /\ PastItsTime(s)
    /\ op = "get" \/ ~Locked(s)
    /\ Closes(r, op, s)

Cancel(r, s) ==
    /\ At(r, "idle") /\ stored[s] # None /\ ~Locked(s)
    /\ stored[s].status \notin {"completed", "complete_in_progress"} /\ ~PastItsTime(s)
    /\ Closes(r, "cancel", s)

CompleteUnready(r, s) ==
    /\ At(r, "idle") /\ stored[s] # None /\ ~Locked(s)
    /\ stored[s].status = "incomplete" /\ ~PastItsTime(s)
    /\ Asks(r, "refresh", s, None, stored[s])

CompleteReady(r, s, p) ==
    /\ At(r, "idle") /\ stored[s] # None /\ ~Locked(s)
    /\ stored[s].status = "ready_for_complete" /\ ~PastItsTime(s)
    /\ Asks(r, "complete", s, p, stored[s])

(* The money moved in an earlier attempt: finish it. *)
CompletePaid(r, s) ==
    /\ At(r, "idle") /\ stored[s] # None /\ ~Locked(s)
    /\ stored[s].status = "complete_in_progress" /\ stored[s].settlement # None
    /\ req' = [req EXCEPT ![r] = Serving("complete", "order", s, stored[s].settlement,
                                         stored[s], 0)]
    /\ UNCHANGED <<stored, placed, reserved, money, outside, faults, crashes>>

(* getProduct: the platform reads its stock and price; the answer travels. *)
Answer(r) ==
    /\ At(r, "asked")
    /\ req' = [req EXCEPT ![r].at = "answered", ![r].stock = stock, ![r].price = price]
    /\ UNCHANGED <<stored, placed, reserved, money, outside, faults, crashes>>

-----------------------------------------------------------------------------
(* Quotes. *)

OutOfStock(r) == req[r].stock - req[r].seen < req[r].copy.units
Snapshot(r) == [units |-> req[r].copy.units, price |-> req[r].price]
Total(quote) == quote.units * quote.price

SameTotalOnly(current, fresh) == TRUE
(* The snapshot an order would be made from is kept only for the same lines. *)
sameQuotedLines(current, fresh) == current = fresh

Refreshed(r) ==
    LET ses == req[r].copy
        fresh == Snapshot(r)
        sameTotal == /\ ses.quote # None /\ ses.requirements # 0
                     /\ Total(ses.quote) = Total(fresh)
    IN CASE OutOfStock(r) ->
              [ses EXCEPT !.status = "incomplete", !.requirements = 0, !.quote = None]
         [] ~OutOfStock(r) /\ ~ses.deliverable ->
              [ses EXCEPT !.status = "incomplete", !.requirements = 0, !.quote = fresh]
         [] OTHER ->
              [ses EXCEPT !.status = "ready_for_complete",
                          !.requirements = IF sameTotal THEN ses.requirements ELSE Total(fresh),
                          !.quote = IF sameTotal /\ sameQuotedLines(ses.quote, fresh)
                                    THEN ses.quote ELSE fresh]

Save(r, copy) == stored' = [stored EXCEPT ![req[r].session] = copy]

Requote(r) ==
    /\ At(r, "answered") /\ req[r].op = "refresh"
    /\ Save(r, Refreshed(r))
    /\ Ends({r})
    /\ UNCHANGED <<placed, money, outside, faults, crashes>>

SaveCanceled(r) ==
    /\ At(r, "cancel")
    /\ Save(r, req[r].copy)
    /\ Ends({r})
    /\ UNCHANGED <<placed, money, outside, faults, crashes>>

-----------------------------------------------------------------------------
(* complete: check the terms, hold the units, settle. *)

TermsHold(r) ==
    /\ ~OutOfStock(r) /\ req[r].copy.deliverable
    /\ Total(Snapshot(r)) = req[r].copy.requirements

(* Nothing is charged for a stale quote: quote again. *)
StaleTerms(r) ==
    /\ At(r, "answered") /\ req[r].op = "complete" /\ ~TermsHold(r)
    /\ req' = [req EXCEPT ![r] = Serving("refresh", "asked", req[r].session, None, req[r].copy,
                                         reserved)]
    /\ UNCHANGED <<stored, placed, reserved, money, outside, faults, crashes>>

SignedForThis(r) == Amount[req[r].payment] = req[r].copy.requirements

tryReserve(r) == req[r].stock - reserved >= req[r].copy.units

(* Signed for other terms, or the last units are being bought right now. *)
TurnAway(r) ==
    /\ At(r, "answered") /\ req[r].op = "complete" /\ TermsHold(r)
    /\ ~SignedForThis(r) \/ ~tryReserve(r)
    /\ Ends({r})
    /\ UNCHANGED <<stored, placed, money, outside, faults, crashes>>

InProgress(ses, p) ==
    [ses EXCEPT !.status = "complete_in_progress", !.paymentKey = p, !.settlement = None]
Reserve(r) ==
    /\ At(r, "answered") /\ req[r].op = "complete" /\ TermsHold(r)
    /\ SignedForThis(r) /\ tryReserve(r)
    /\ reserved' = reserved + req[r].copy.units
    /\ req' = [req EXCEPT ![r] = [Serving("complete", "begin", req[r].session, req[r].payment,
                                          InProgress(req[r].copy, req[r].payment), 0)
                                  EXCEPT !.holds = req[r].copy.units]]
    /\ UNCHANGED <<stored, placed, money, outside, faults, crashes>>

SaveNothing(r) ==
    /\ At(r, "begin")
    /\ Goes(r, "settle")
    /\ UNCHANGED <<stored, placed, reserved, money, outside, faults, crashes>>
(* Persisted before settling. *)
SaveInProgress(r) ==
    /\ At(r, "begin")
    /\ Save(r, req[r].copy)
    /\ Goes(r, "settle")
    /\ UNCHANGED <<placed, reserved, money, outside, faults, crashes>>

(* The facilitator's answer, and what really happened.  A payment moves at
   most once: settled again it is refused or answered with the same hash.   *)
Facilitator(r, outcome, moves_) ==
    LET p == req[r].payment
    IN /\ moves_ => p \notin moved /\ outcome # "refused"
       /\ outcome = "settled" => moves_ \/ p \in moved
       /\ moved' = IF moves_ THEN moved \cup {p} ELSE moved
       /\ charged' = IF moves_ THEN charged \cup {<<req[r].session, p>>} ELSE charged

Settle(r, outcome) ==
    /\ At(r, "settle")
    /\ \E moves_ \in BOOLEAN : Facilitator(r, outcome, moves_)
    /\ Goes(r, outcome)
    /\ UNCHANGED <<stored, placed, reserved, outside, faults, crashes>>

(* A definite no: safe to sign again. *)
Refused(r) ==
    /\ At(r, "refused")
    /\ Save(r, [req[r].copy EXCEPT !.status = "ready_for_complete", !.paymentKey = None])
    /\ Ends({r})
    /\ UNCHANGED <<placed, money, outside, faults, crashes>>

UnknownAsRefused(r) ==
    /\ At(r, "unknown")
    /\ Save(r, [req[r].copy EXCEPT !.status = "ready_for_complete", !.paymentKey = None])
    /\ Ends({r})
    /\ UNCHANGED <<placed, money, outside, faults, crashes>>
UnknownKeepsUnits(r) ==
    /\ At(r, "unknown")
    /\ Save(r, req[r].copy)
    /\ req' = [req EXCEPT ![r] = Idle]
    /\ UNCHANGED reserved
    /\ UNCHANGED <<placed, money, outside, faults, crashes>>
(* Nobody knows: held for reconciliation, never settled again. *)
Unknown(r) ==
    /\ At(r, "unknown")
    /\ Save(r, req[r].copy)
    /\ Ends({r})
    /\ UNCHANGED <<placed, money, outside, faults, crashes>>

SaveSettlement(r) ==
    LET paid == [req[r].copy EXCEPT !.settlement = req[r].payment]
    IN /\ At(r, "settled")
       /\ Save(r, paid)
       /\ req' = [req EXCEPT ![r].at = "order", ![r].copy = paid]
       /\ UNCHANGED <<placed, reserved, money, outside, faults, crashes>>

-----------------------------------------------------------------------------
(* finish and fulfilPaidPurchase: one order per settlement. *)

(* The snapshot and the lines must account for what was paid, or no order is
   made and the session stays held (SettledIsAccounted: that never happens). *)
Accounted(ses) ==
    /\ Total(ses.quote) = Amount[ses.settlement]
    /\ ses.units * ses.quote.price = Amount[ses.settlement]

(* ordersInFlight *)
CreatorOf(p) == {r \in Requests : req[r].payment = p /\ req[r].at \in {"creating", "recording"}}

FulfilBlind(r) ==
    /\ At(r, "order") /\ Accounted(req[r].copy)
    /\ Goes(r, IF orders[req[r].payment] # None THEN "replaying" ELSE "creating")
    /\ UNCHANGED <<stored, placed, reserved, money, outside, faults, crashes>>
Fulfil(r) ==
    LET p == req[r].payment
    IN /\ At(r, "order") /\ Accounted(req[r].copy)
       /\ Goes(r, CASE orders[p] # None -> "replaying"
                    [] orders[p] = None /\ CreatorOf(p) # {} -> "waiting"
                    [] OTHER -> "creating")
       /\ UNCHANGED <<stored, placed, reserved, money, outside, faults, crashes>>

Awaken(r) ==
    /\ At(r, "waiting") /\ CreatorOf(req[r].payment) = {}
    /\ Goes(r, "replaying")
    /\ UNCHANGED <<stored, placed, reserved, money, outside, faults, crashes>>

OrderOf(r, status) ==
    [session |-> req[r].session, units |-> req[r].copy.units,
     price |-> req[r].copy.quote.price, status |-> status]

(* createOrder on the platform, then the record in memory. *)
CreateOrder(r) ==
    LET p == req[r].payment
        fits == req[r].copy.units <= stock
    IN /\ At(r, "creating")
       /\ stock' = IF fits THEN stock - req[r].copy.units ELSE stock
       /\ platformOrders' = [platformOrders EXCEPT ![p] = IF fits THEN @ + 1 ELSE @]
       /\ orders' = [orders EXCEPT ![p] = OrderOf(r, IF fits THEN "paid" ELSE "paid_unfulfilled")]
       /\ Goes(r, "recording")
       /\ UNCHANGED <<stored, disk, reserved, money, outside, faults, crashes>>

(* An error, which an order that was made may be answered with too. *)
PlatformFails(r) ==
    LET p == req[r].payment
        units == req[r].copy.units
    IN /\ At(r, "creating") /\ faults < MaxFaults
       /\ faults' = faults + 1
       /\ \/ UNCHANGED <<stock, platformOrders>>
          \/ /\ units <= stock
             /\ stock' = stock - units
             /\ platformOrders' = [platformOrders EXCEPT ![p] = @ + 1]
       /\ orders' = [orders EXCEPT ![p] = OrderOf(r, "paid_unfulfilled")]
       /\ Goes(r, "recording")
       /\ UNCHANGED <<stored, disk, reserved, money, outside, crashes>>

RecordAnyones(r) ==
    LET p == req[r].payment
    IN /\ req[r].at \in {"recording", "replaying"}
       /\ disk' = [disk EXCEPT ![p] = orders[p]]
       /\ Goes(r, "close")
       /\ UNCHANGED <<stored, orders, stock, platformOrders, reserved, money, outside, faults, crashes>>
(* OrderStore.put reaches the database.  Another checkout's order is kept, and
   this one stays held.                                                     *)
Record(r) ==
    LET p == req[r].payment
    IN /\ req[r].at \in {"recording", "replaying"}
       /\ disk' = [disk EXCEPT ![p] = orders[p]]
       /\ IF orders[p].session = req[r].session
          THEN Goes(r, "close") /\ UNCHANGED reserved
          ELSE Ends({r})
       /\ UNCHANGED <<stored, orders, stock, platformOrders, money, outside, faults, crashes>>

Close(r) ==
    /\ At(r, "close")
    /\ Save(r, [req[r].copy EXCEPT !.status = "completed"])
    /\ Ends({r})
    /\ UNCHANGED <<placed, money, outside, faults, crashes>>

-----------------------------------------------------------------------------
(* A call of the request throws: nothing is saved, the finally blocks run, and
   so do those of the requests awaiting the order it was creating.          *)
Waiters(r) == {w \in Requests : r \in CreatorOf(req[r].payment) /\ At(w, "waiting")
                                  /\ req[w].payment = req[r].payment}
Fail(r) ==
    /\ req[r].at \notin {"idle", "creating", "waiting", "settle", "order"} /\ faults < MaxFaults
    /\ faults' = faults + 1
    /\ Ends({r} \cup Waiters(r))
    /\ UNCHANGED <<stored, placed, money, outside, crashes>>

Crash ==
    /\ crashes < MaxCrashes
    /\ crashes' = crashes + 1
    /\ req' = [r \in Requests |-> Idle]
    /\ reserved' = 0
    /\ orders' = disk
    /\ UNCHANGED <<stored, disk, stock, platformOrders, money, outside, faults>>

MovePrice(p) ==
    /\ moves < MaxMoves /\ p # price
    /\ price' = p
    /\ moves' = moves + 1
    /\ UNCHANGED <<stored, placed, reserved, req, money, expired, faults, crashes>>

Expire(s) ==
    /\ stored[s] # None /\ s \notin expired
    /\ expired' = expired \cup {s}
    /\ UNCHANGED <<stored, placed, reserved, req, money, price, moves, faults, crashes>>

Next ==
    \/ \E r \in Requests, s \in Sessions :
        \/ \E units \in Units, deliverable \in BOOLEAN :
              Open(r, s, units, deliverable) \/ Update(r, s, units, deliverable)
        \/ \E op \in {"get", "cancel"} : ReadExpired(r, s, op)
        \/ Cancel(r, s) \/ CompleteUnready(r, s) \/ CompletePaid(r, s)
        \/ \E p \in Payments : CompleteReady(r, s, p)
    \/ \E r \in Requests :
        \/ Answer(r) \/ Requote(r) \/ SaveCanceled(r)
        \/ StaleTerms(r) \/ TurnAway(r) \/ Reserve(r) \/ SaveInProgress(r)
        \/ \E outcome \in {"settled", "refused", "unknown"} : Settle(r, outcome)
        \/ Refused(r) \/ Unknown(r) \/ SaveSettlement(r)
        \/ Fulfil(r) \/ Awaken(r) \/ CreateOrder(r) \/ PlatformFails(r)
        \/ Record(r) \/ Close(r) \/ Fail(r)
    \/ Crash
    \/ \E p \in Prices : MovePrice(p)
    \/ \E s \in Sessions : Expire(s)

Spec == Init /\ [][Next]_vars

-----------------------------------------------------------------------------
(* A checkout is never charged twice, whatever is retried, refused, lost in a
   crash or answered late (ucp/checkout.ts:947, 959, 1044).                 *)
ChargedOnce == \A s \in Sessions : Cardinality({p \in Payments : <<s, p>> \in charged}) <= 1

(* Once money may have moved for a session, the database never says it can be
   paid or changed (ucp/checkout.ts:606-607, 959, 1044).                    *)
PaidIsNeverPayable ==
    \A s \in Sessions, p \in Payments :
        <<s, p>> \in charged => stored[s].status \notin Live

(* A settlement that was saved can always become an order: the snapshot kept
   with the session is for its lines and adds up to the payment, over every
   change of cart and price (ucp/checkout.ts:272-276, 1131-1139, 1155).     *)
SettledIsAccounted ==
    \A s \in Sessions :
        stored[s] # None /\ stored[s].settlement # None => Accounted(stored[s])

(* A session that says completed has its own order in the database, for what
   it quoted: the order survives any crash that the answer survives.        *)
CompletedHasItsOrder ==
    \A s \in Sessions :
        stored[s] # None /\ stored[s].status = "completed" =>
            /\ disk[stored[s].settlement] # None
            /\ disk[stored[s].settlement].session = s
            /\ disk[stored[s].settlement].units = stored[s].units

(* One settlement is one order (checkout.ts:405-408): of concurrent requests,
   retries and lost answers only a restart makes the platform create another,
   and nothing replaces a recorded order by another's.                      *)
OneOrderPerSettlement ==
    /\ [](\A p \in Payments : platformOrders[p] <= 1 + crashes)
    /\ [][\A p \in Payments :
            orders[p] # None /\ orders'[p] # None => orders'[p] = orders[p]]_vars

(* Units are held by requests in flight and by nothing else: no answer, error
   or refusal leaks a reservation (ucp/checkout.ts:1095-1097).              *)
HeldByRequests == reserved = HeldBy(Requests)
=============================================================================
