---------------------------- MODULE StoreEscrow -----------------------------
(***************************************************************************)
(* One store's server (packages/vitrinee-gateway) driving its escrow: the   *)
(* AnchorWorker records each paid order with hold and anchors its receipt,  *)
(* OrderEvents learns from the platform what left, EscrowReleases sends     *)
(* mark_shipped and release.  All of them share one signing account.        *)
(*                                                                          *)
(* order is what OrderStore keeps (an update is written before its caller   *)
(* goes on); a crash loses everything else, and resume() rebuilds it.  The  *)
(* escrow itself is PurchaseEscrow; the payment of order o is called o.     *)
(***************************************************************************)
EXTENDS Integers, Sequences, FiniteSets

CONSTANTS
    Orders, TxHashes, Accounts, Payee, NoOne, MaxAmount, MaxArrived,
    ReleaseWindow, ResponseWindow, ResolveWindow, MaxTime,
    Buyer,           \* the account that pays
    Price,           \* what every order costs
    HoldRetries,     \* retryDelaysMs.length of the AnchorWorker
    ReleaseRetries,  \* RELEASE_RETRY_DELAYS_MS.length
    MaxParcels,      \* most shipments a platform reports for one order
    MaxFaults,       \* bound on calls that fail or go unconfirmed
    MaxCrashes       \* bound on restarts of the server

ASSUME StoreAssumption ==
    /\ IsFiniteSet(Orders)
    /\ Orders \subseteq TxHashes
    /\ NoOne \notin Orders
    /\ Buyer \in Accounts \ {Payee}
    /\ MaxAmount \in Nat /\ MaxTime \in Nat \ {0}
    /\ Price \in 1..MaxAmount
    /\ {HoldRetries, ReleaseRetries, MaxFaults, MaxCrashes} \subseteq Nat
    /\ MaxParcels \in Nat \ {0}

VARIABLES
    (* the ledger, as in PurchaseEscrow *)
    now, balance, canReceive, allocated, purchase, payment, arrived, paid,
    registry,  \* orders whose receipt hash the receipt registry has
    ghosts,    \* the store's transactions that went unconfirmed and may land
    (* durable *)
    order,     \* OrderStore: the fields these workers share
    (* lost in a crash *)
    work,      \* orders in the AnchorWorker's queue, or waiting on a retry timer
    pass,      \* the order being processed, and how far
    asking,    \* the platform's answer being recorded, parcel by parcel; owed: the
               \* parcel at hand is recorded and afterShipment is still to be called
    queue,     \* EscrowReleases.running: steps chained behind each other
    step,      \* the release step at work on each order
    timer,     \* EscrowReleases.timers: at most one per order
    (* outside *)
    platform,  \* where the store's platform has each order
    faults, crashes,
    skipped    \* history: orders whose afterShipment was never called since the start

Escrow == INSTANCE PurchaseEscrow

ledgerVars == <<now, balance, canReceive, allocated, purchase, payment, arrived, paid>>
chainVars == <<ledgerVars, registry, ghosts>>
passVars == <<work, pass>>
releaseVars == <<queue, step, timer>>
outside == <<platform, crashes, skipped>>
vars == <<chainVars, order, passVars, asking, releaseVars, platform, faults, crashes, skipped>>

NoOrder ==
    [hold |-> "none", holdAttempts |-> 0, anchor |-> "none", anchorAttempts |-> 0,
     fulfillment |-> "none", release |-> "none", attempts |-> 0, shippedAt |-> FALSE]
NoPass == [order |-> NoOne, at |-> "idle"]
NoStep == [kind |-> "none", at |-> "idle", seen |-> "None"]
NoAnswer == [state |-> "none", left |-> 0, owed |-> FALSE]
Parcels == 1..MaxParcels

Init ==
    /\ Escrow!Init
    /\ registry = {}
    /\ ghosts = {}
    /\ order = [o \in Orders |-> NoOrder]
    /\ work = {}
    /\ pass = NoPass
    /\ asking = [o \in Orders |-> NoAnswer]
    /\ queue = [o \in Orders |-> <<>>]
    /\ step = [o \in Orders |-> NoStep]
    /\ timer = [o \in Orders |-> "none"]
    /\ platform = [o \in Orders |-> "open"]
    /\ faults = 0
    /\ crashes = 0
    /\ skipped = {}

-----------------------------------------------------------------------------
(* Transactions of the signing account.  A transaction that went unconfirmed
   used the account's next sequence number, as the one sent after it does:
   when one of them lands the others never will.                            *)

Lands(A) == A /\ ghosts' = {}

Fault == faults < MaxFaults /\ faults' = faults + 1

(* A call fails for a reason other than the contract's word.  If it went out
   and was never confirmed, it may still land.                              *)
FailsOrGoesUnconfirmed(kind, o) ==
    /\ Fault
    /\ ghosts' \in {ghosts, ghosts \cup {<<kind, o>>}}
    /\ UNCHANGED <<ledgerVars, registry>>

GhostLands(kind, o) ==
    /\ <<kind, o>> \in ghosts
    /\ CASE kind = "hold" -> Escrow!Hold(o, Buyer, Price, o) /\ UNCHANGED registry
         [] kind = "ship" -> Escrow!MarkShipped(o) /\ UNCHANGED registry
         [] kind = "release" -> Escrow!Release(o) /\ UNCHANGED registry
         [] kind = "anchor" -> /\ o \notin registry
                               /\ registry' = registry \cup {o}
                               /\ UNCHANGED ledgerVars
    /\ ghosts' = {}
    /\ UNCHANGED <<order, passVars, asking, releaseVars, outside, faults>>

(* Past its 60 seconds, or no longer applicable. *)
GhostExpires(kind, o) ==
    /\ <<kind, o>> \in ghosts
    /\ ghosts' = ghosts \ {<<kind, o>>}
    /\ UNCHANGED <<ledgerVars, registry, order, passVars, asking, releaseVars, outside, faults>>

-----------------------------------------------------------------------------
(* Checkout and the AnchorWorker. *)

(* The payment settles into the escrow; createPaidOrder records and enqueues. *)
Place(o) ==
    /\ order[o] = NoOrder
    /\ Escrow!Arrive(Price)
    /\ order' = [order EXCEPT ![o].hold = "pending", ![o].anchor = "pending"]
    /\ work' = work \cup {o}
    /\ UNCHANGED <<registry, ghosts, pass, asking, releaseVars, outside, faults>>

NeedsWork(o) ==
    /\ order[o] # NoOrder
    /\ order[o].anchor # "anchored" \/ order[o].hold # "held"

BeginPass(o) ==
    /\ pass = NoPass
    /\ o \in work
    /\ work' = work \ {o}
    /\ pass' = CASE ~NeedsWork(o) -> NoPass
                 [] order[o].hold # "held" -> [order |-> o, at |-> "hold"]
                 [] OTHER -> [order |-> o, at |-> "anchor"]
    /\ UNCHANGED <<chainVars, order, asking, releaseVars, outside, faults>>

ThenAnchor(o) == IF order[o].anchor = "anchored" THEN NoPass
                                                 ELSE [order |-> o, at |-> "anchor"]

HoldQuoted(o) == Escrow!Hold(o, Buyer, MaxAmount, o)
(* What the worker asks the escrow to record: the order's own payment. *)
HoldOrder(o) == Escrow!Hold(o, Buyer, Price, o)

(* The hold lands, or an earlier attempt's already had (alreadyHeld). *)
SendHold(o) ==
    /\ pass = [order |-> o, at |-> "hold"]
    /\ \/ Lands(HoldOrder(o))
       \/ purchase[o].status # "None" /\ UNCHANGED <<ledgerVars, ghosts>>
    /\ pass' = [pass EXCEPT !.at = "held"]
    /\ UNCHANGED <<registry, order, work, asking, releaseVars, outside, faults>>

RecordHeld(o) ==
    /\ pass = [order |-> o, at |-> "held"]
    /\ order' = [order EXCEPT ![o].hold = "held",
                              ![o].holdAttempts = @ + 1]
    /\ pass' = ThenAnchor(o)
    /\ UNCHANGED <<chainVars, work, asking, releaseVars, outside, faults>>

(* The call fails, or it went well and the order could not be saved. *)
AttemptFails(o, kind, done) ==
    \/ pass = [order |-> o, at |-> kind] /\ FailsOrGoesUnconfirmed(kind, o)
    \/ pass = [order |-> o, at |-> done] /\ Fault /\ UNCHANGED chainVars

HoldFailsOnwards(o) ==
    LET attempt == order[o].holdAttempts + 1
        again == attempt <= HoldRetries
    IN  /\ AttemptFails(o, "hold", "held")
        /\ order' = [order EXCEPT ![o].hold = IF again THEN "pending" ELSE "failed",
                                  ![o].holdAttempts = attempt]
        /\ work' = IF again THEN work \cup {o} ELSE work
        /\ pass' = ThenAnchor(o)
        /\ UNCHANGED <<asking, releaseVars, outside>>
HoldFailsSilently(o) ==
    /\ AttemptFails(o, "hold", "held")
    /\ order' = [order EXCEPT ![o].holdAttempts = @ + 1]
    /\ pass' = NoPass
    /\ UNCHANGED <<work, asking, releaseVars, outside>>
(* A hold that will be retried keeps the anchor waiting; one that ran out of
   retries lets it go.                                                      *)
HoldFails(o) ==
    LET attempt == order[o].holdAttempts + 1
        again == attempt <= HoldRetries
    IN  /\ AttemptFails(o, "hold", "held")
        /\ order' = [order EXCEPT ![o].hold = IF again THEN "pending" ELSE "failed",
                                  ![o].holdAttempts = attempt]
        /\ work' = IF again THEN work \cup {o} ELSE work
        /\ pass' = IF again THEN NoPass ELSE ThenAnchor(o)
        /\ UNCHANGED <<asking, releaseVars, outside>>

(* The anchor lands, or an earlier attempt's already had. *)
SendAnchor(o) ==
    /\ pass = [order |-> o, at |-> "anchor"]
    /\ \/ o \notin registry /\ Lands(registry' = registry \cup {o})
       \/ o \in registry /\ UNCHANGED <<registry, ghosts>>
    /\ pass' = [pass EXCEPT !.at = "anchored"]
    /\ UNCHANGED <<ledgerVars, order, work, asking, releaseVars, outside, faults>>

RecordAnchored(o) ==
    /\ pass = [order |-> o, at |-> "anchored"]
    /\ order' = [order EXCEPT ![o].anchor = "anchored",
                              ![o].anchorAttempts = @ + 1]
    /\ pass' = NoPass
    /\ UNCHANGED <<chainVars, work, asking, releaseVars, outside, faults>>

(* A retry runs the whole pass again, a hold that gave up included. *)
AnchorFails(o) ==
    LET attempt == order[o].anchorAttempts + 1
        again == attempt <= HoldRetries
    IN  /\ AttemptFails(o, "anchor", "anchored")
        /\ order' = [order EXCEPT ![o].anchor = IF again THEN "pending" ELSE "failed",
                                  ![o].anchorAttempts = attempt]
        /\ work' = IF again THEN work \cup {o} ELSE work
        /\ pass' = NoPass
        /\ UNCHANGED <<asking, releaseVars, outside>>

-----------------------------------------------------------------------------
(* OrderEvents: what the store's platform says left. *)

(* askPlatform, from the watcher or a read of the order: one question at a
   time per order, and none once it all left or was cancelled.              *)
AskPlatform(o, left) ==
    /\ order[o] # NoOrder
    /\ order[o].fulfillment \notin {"fulfilled", "canceled"}
    /\ asking[o] = NoAnswer
    /\ \/ /\ platform[o] \in {"partial", "fulfilled"}
          /\ asking' = [asking EXCEPT ![o] = [state |-> platform[o], left |-> left,
                                                     owed |-> FALSE]]
          /\ UNCHANGED order
       \/ /\ platform[o] = "canceled"
          /\ order' = [order EXCEPT ![o].fulfillment = "canceled"]
          /\ UNCHANGED asking
    /\ UNCHANGED <<chainVars, passVars, releaseVars, outside, faults>>

ShipmentStatePartialToo(o) == "fulfilled"
(* Parcels of one answer carry its state; a later partial one does not undo
   "fulfilled".                                                             *)
ShipmentState(o) ==
    IF order[o].fulfillment = "fulfilled" THEN "fulfilled" ELSE asking[o].state

(* All of it left an order held in the escrow: the release window is owed. *)
OwesRelease(o, state) ==
    state = "fulfilled" /\ order[o].hold = "held" /\ order[o].release = "none"

(* The loop over the parcels of one answer. *)
NextParcel(o) ==
    IF asking[o].left = 1 THEN NoAnswer
    ELSE [state |-> asking[o].state, left |-> asking[o].left - 1, owed |-> FALSE]

(* The durable half.  The awaited queue() of the webhook follows it. *)
RecordShipment(o) ==
    LET state == ShipmentState(o)
        release == IF OwesRelease(o, state) THEN "pending" ELSE order[o].release
    IN  /\ asking[o].left > 0 /\ ~asking[o].owed
        /\ order' = [order EXCEPT ![o].fulfillment = state, ![o].release = release]
        /\ asking' = IF release = "pending" THEN [asking EXCEPT ![o].owed = TRUE]
                                            ELSE [asking EXCEPT ![o] = NextParcel(o)]
        /\ UNCHANGED <<chainVars, passVars, releaseVars, outside, faults>>

AfterShipment(o) ==
    /\ asking[o].owed
    /\ asking' = [asking EXCEPT ![o] = NextParcel(o)]
    /\ queue' = [queue EXCEPT ![o] = Append(@, "ship")]
    /\ UNCHANGED <<chainVars, order, passVars, step, timer, outside, faults>>

IdleRelease(o) == queue[o] = <<>> /\ step[o] = NoStep /\ timer[o] = "none"

(* A save throws, of the shipment or of its webhook: the rest of the answer is
   dropped, and with it the call of afterShipment.                          *)
ShipmentFails(o) ==
    /\ asking[o].left > 0
    /\ Fault
    /\ asking' = [asking EXCEPT ![o] = NoAnswer]
    /\ skipped' = IF asking[o].owed /\ IdleRelease(o) THEN skipped \cup {o} ELSE skipped
    /\ UNCHANGED <<chainVars, order, passVars, releaseVars, platform, crashes>>

-----------------------------------------------------------------------------
(* EscrowReleases. *)

(* A timer fires when its delay is over, or sooner: a wait is cut at 24 hours,
   and the server's clock is not the ledger's.                              *)
TimerFires(o) ==
    /\ timer[o] # "none"
    /\ timer' = [timer EXCEPT ![o] = "none"]
    /\ queue' = [queue EXCEPT ![o] = Append(@, timer[o])]
    /\ UNCHANGED <<chainVars, order, passVars, asking, step, outside, faults>>

(* The early returns of markShipped and release. *)
StepApplies(o, kind) ==
    LET r == order[o]
    IN  /\ r.hold = "held"
        /\ IF kind = "ship"
           THEN /\ r.fulfillment = "fulfilled"
                /\ r.release = "pending" \/ (r.release = "failed" /\ ~r.shippedAt)
           ELSE r.release = "shipped" \/ (r.release = "failed" /\ r.shippedAt)

(* The purchase is read first: the step goes on with what it saw. *)
BeginStep(o) ==
    LET kind == Head(queue[o])
        seen == purchase[o].status
        sends == seen = IF kind = "ship" THEN "Held" ELSE "Shipped"
        at == IF sends THEN "send" ELSE IF kind = "ship" THEN "settle" ELSE "sent"
    IN  /\ queue[o] # <<>>
        /\ step[o] = NoStep
        /\ queue' = [queue EXCEPT ![o] = Tail(@)]
        /\ step' = IF StepApplies(o, kind)
                   THEN [step EXCEPT ![o] = [kind |-> kind, at |-> at, seen |-> seen]]
                   ELSE step
        /\ UNCHANGED <<chainVars, order, passVars, asking, timer, outside, faults>>

Sending(o, kind) == step[o].kind = kind /\ step[o].at = "send" /\ pass = NoPass

(* In the signer's turn.  WrongStatus means an earlier attempt or the payer
   got there first: the escrow's state, read next, says which.              *)
SendShip(o) ==
    /\ Sending(o, "ship")
    /\ \/ Lands(Escrow!MarkShipped(o))
       \/ purchase[o].status # "Held" /\ UNCHANGED <<ledgerVars, ghosts>>
    /\ step' = [step EXCEPT ![o].at = "sent"]
    /\ UNCHANGED <<registry, order, passVars, asking, queue, timer, outside, faults>>

SendRelease(o) ==
    /\ Sending(o, "release")
    /\ \/ Lands(Escrow!Release(o))
       \/ purchase[o].status # "Shipped" /\ UNCHANGED <<ledgerVars, ghosts>>
    /\ step' = [step EXCEPT ![o].at = "sent"]
    /\ UNCHANGED <<registry, order, passVars, asking, queue, timer, outside, faults>>

(* The escrow's window decides: wait for it, without counting a failure. *)
ReleaseTooEarly(o) ==
    /\ Sending(o, "release")
    /\ purchase[o].status = "Shipped" /\ now < Escrow!ReleaseAt(o)
    /\ step' = [step EXCEPT ![o] = NoStep]
    /\ timer' = [timer EXCEPT ![o] = "release"]
    /\ UNCHANGED <<chainVars, order, passVars, asking, queue, outside, faults>>

ReadAgain(o) ==
    /\ step[o].at = "sent"
    /\ step' = [step EXCEPT ![o].at = "settle", ![o].seen = purchase[o].status]
    /\ UNCHANGED <<chainVars, order, passVars, asking, queue, timer, outside, faults>>

fromChainShipped(status) == IF status = "Released" THEN "released" ELSE "shipped"
fromChain(status) ==
    CASE status = "Shipped" -> "shipped"
      [] status = "Released" -> "released"
      [] OTHER -> "disputed"

(* Keeps what the escrow said, and schedules the release while the window
   runs.                                                                    *)
Settle(o) ==
    LET next == fromChain(step[o].seen)
    IN  /\ step[o].at = "settle"
        /\ step[o].seen \notin {"None", "Held"}  \* else it throws: StepFails
        /\ order' = [order EXCEPT ![o].release = next, ![o].attempts = 0,
                                  ![o].shippedAt = (next = "shipped")]
        /\ step' = [step EXCEPT ![o] = NoStep]
        /\ timer' = IF next = "shipped" THEN [timer EXCEPT ![o] = "release"] ELSE timer
        /\ UNCHANGED <<chainVars, passVars, asking, queue, outside, faults>>

(* retry: a read, a send, the wait for it or the save failed. *)
StepFails(o) ==
    LET attempts == order[o].attempts + 1
        again == attempts <= ReleaseRetries
        kind == step[o].kind
    IN  /\ step[o] # NoStep
        /\ IF Sending(o, kind) THEN FailsOrGoesUnconfirmed(kind, o)
                               ELSE Fault /\ UNCHANGED chainVars
        /\ order' = [order EXCEPT ![o].attempts = attempts,
                                  ![o].release = IF again THEN @ ELSE "failed"]
        /\ step' = [step EXCEPT ![o] = NoStep]
        /\ timer' = IF again THEN [timer EXCEPT ![o] = kind] ELSE timer
        /\ UNCHANGED <<passVars, asking, queue, outside>>

-----------------------------------------------------------------------------
(* The server stops anywhere and starts again: AnchorWorker.resume queues all
   that is not held or not anchored, EscrowReleases.resume what is owed.    *)

ResumedTimerPendingOnly(o) ==
    IF order[o].release = "pending" /\ order[o].hold = "held" THEN "ship" ELSE "none"
ResumedTimer(o) ==
    LET r == order[o]
    IN  CASE r.hold # "held" -> "none"
          [] r.release = "pending" \/ (r.release = "failed" /\ ~r.shippedAt) -> "ship"
          [] r.release \in {"shipped", "failed"} -> "release"
          [] OTHER -> "none"

Crash ==
    /\ crashes < MaxCrashes
    /\ crashes' = crashes + 1
    /\ work' = {o \in Orders : NeedsWork(o)}
    /\ pass' = NoPass
    /\ asking' = [o \in Orders |-> NoAnswer]
    /\ queue' = [o \in Orders |-> <<>>]
    /\ step' = [o \in Orders |-> NoStep]
    /\ timer' = [o \in Orders |-> ResumedTimer(o)]
    /\ skipped' = {}
    /\ UNCHANGED <<chainVars, order, platform, faults>>

-----------------------------------------------------------------------------
(* Everyone else. *)

(* The platform prepares, ships or cancels the order. *)
PlatformMoves(o, to) ==
    /\ order[o] # NoOrder
    /\ <<platform[o], to>> \in {<<"open", "partial">>, <<"open", "fulfilled">>,
                                <<"partial", "fulfilled">>, <<"open", "canceled">>}
    /\ platform' = [platform EXCEPT ![o] = to]
    /\ UNCHANGED <<chainVars, order, passVars, asking, releaseVars, faults, crashes, skipped>>

(* The payer, the payee, the arbiter, and anyone: release and expire are open
   to all.                                                                  *)
LedgerMoves(o) ==
    /\ \/ Escrow!OpenDispute(o)
       \/ Escrow!Respond(o)
       \/ \E refund \in {0, Price} : Escrow!Resolve(o, refund)
       \/ Escrow!Expire(o)
       \/ Escrow!Release(o)
    /\ UNCHANGED <<registry, ghosts, order, passVars, asking, releaseVars, outside, faults>>

Tick ==
    /\ Escrow!Tick
    /\ UNCHANGED <<registry, ghosts, order, passVars, asking, releaseVars, outside, faults>>

AnchorWorker(o) ==
    \/ BeginPass(o)
    \/ SendHold(o)
    \/ RecordHeld(o)
    \/ HoldFails(o)
    \/ SendAnchor(o)
    \/ RecordAnchored(o)
    \/ AnchorFails(o)

EscrowReleases(o) ==
    \/ TimerFires(o)
    \/ BeginStep(o)
    \/ SendShip(o)
    \/ SendRelease(o)
    \/ ReleaseTooEarly(o)
    \/ ReadAgain(o)
    \/ Settle(o)
    \/ StepFails(o)

Next ==
    \/ \E o \in Orders :
          \/ Place(o)
          \/ AnchorWorker(o)
          \/ \E left \in Parcels : AskPlatform(o, left)
          \/ RecordShipment(o) \/ AfterShipment(o) \/ ShipmentFails(o)
          \/ EscrowReleases(o)
          \/ \E kind \in {"hold", "anchor", "ship", "release"} :
                GhostLands(kind, o) \/ GhostExpires(kind, o)
          \/ \E to \in {"partial", "fulfilled", "canceled"} : PlatformMoves(o, to)
          \/ LedgerMoves(o)
    \/ Crash
    \/ Tick

Spec == Init /\ [][Next]_vars

(* The event loop runs what is queued and timers fire; the watcher keeps
   asking; ledgers keep closing.  The signer's queue is first come, first
   served, so a job that waits for its turn again and again gets it.        *)
FairSpec ==
    /\ Spec
    /\ WF_vars(Tick)
    /\ \A o \in Orders :
          /\ SF_vars(BeginPass(o))
          /\ WF_vars(SendHold(o) \/ RecordHeld(o) \/ SendAnchor(o) \/ RecordAnchored(o))
          /\ WF_vars(\E left \in Parcels : AskPlatform(o, left))
          /\ WF_vars(RecordShipment(o) \/ AfterShipment(o))
          /\ WF_vars(TimerFires(o))
          /\ WF_vars(BeginStep(o))
          /\ SF_vars(SendShip(o) \/ SendRelease(o) \/ ReleaseTooEarly(o))
          /\ WF_vars(ReadAgain(o) \/ Settle(o))

-----------------------------------------------------------------------------
(* What must hold. *)

OnChain(o) == purchase[o].status # "None"

(* What the store's record says of an order is true on the ledger, whatever
   landed, failed, went unconfirmed or was cut by a restart: a hold recorded
   is this payment's purchase, a receipt recorded is anchored, and the
   release state is the escrow's own (anchoring.ts:5-7, escrow-release.ts:8). *)
RecordMatchesChain ==
    \A o \in Orders :
        LET r == order[o]
            p == purchase[o]
        IN  /\ r.hold = "held" =>
                 OnChain(o) /\ p.payer = Buyer /\ p.amount = Price /\ p.tx_hash = o
            /\ r.anchor = "anchored" => o \in registry
            /\ r.release = "shipped" => p.shipped_at > 0
            /\ r.release = "released" => p.status = "Released"
            /\ r.release = "disputed" => p.opened_at > 0

(* mark_shipped starts the payer's last window to complain, so it is never
   sent for an order of which a parcel is still to leave, or a cancelled one. *)
ShippedMeansAllLeft ==
    \A o \in Orders : purchase[o].shipped_at > 0 => platform[o] = "fulfilled"

(* "Held first (X-20)" (anchoring.ts:108): a receipt is public only once its
   payment is allocated, unless the hold ran out of retries.                *)
HeldBeforeAnchored ==
    \A o \in registry : OnChain(o) \/ order[o].hold = "failed"

(* Every payment that has arrived and is not a purchase yet is still there,
   unallocated: no retry, late landing or other order's hold has used it, so
   the hold still to come is always funded.                                 *)
HoldsStayFunded ==
    balance - allocated =
        Price * Cardinality({o \in Orders : order[o] # NoOrder /\ ~OnChain(o)})

(* A hold that fails, goes unconfirmed, lands late or is cut by a restart is
   tried until the purchase is on the ledger and the record says so, or every
   retry is spent.                                                          *)
PaymentsGetHeld ==
    \A o \in Orders :
        order[o].hold = "pending" ~>
            \/ order[o].hold = "held"
            \/ order[o].hold = "failed" /\ order[o].holdAttempts > HoldRetries

(* "a restart resumes every pending step" (escrow-release.ts:10): a release
   that is owed ends with the money at the store or in a dispute, and the
   record saying which, or every retry is spent; or a save that failed right
   after the shipment was recorded left it to the next restart, which nothing
   brings about (order-events.ts:198-201, 224).                             *)
OwedReleaseHappens ==
    \A o \in Orders :
        order[o].release = "pending" ~>
            \/ order[o].release \in {"released", "disputed"}
            \/ order[o].release = "failed" /\ order[o].attempts > ReleaseRetries
            \/ o \in skipped

(* "When the store's platform says an order paid into the escrow left in full
   (Shopify, T147), the store calls mark_shipped" (escrow-release.ts:4-5).  *)
ShipmentDrivesTheMoney ==
    \A o \in Orders :
        (order[o].fulfillment = "fulfilled") ~> (OnChain(o) /\ purchase[o].status # "Held")
=============================================================================
