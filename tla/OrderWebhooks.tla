--------------------------- MODULE OrderWebhooks ----------------------------
(***************************************************************************)
(* How the platform that bought hears about one order of one store:         *)
(* ucp/order-events.ts with ucp/escrow-events.ts and OrderStore, and the    *)
(* StorefrontPool that replaces the store's app when the store changed.     *)
(*                                                                          *)
(* Every app keeps its own copy of the order; an update changes that copy   *)
(* and writes the whole record.  An await is where another step may come    *)
(* between.  The order's payment is held in the escrow from the start.      *)
(***************************************************************************)
EXTENDS Integers, Sequences, FiniteSets, SequencesExt

CONSTANTS
    Apps, Gets,     \* generations of the store's app; requests that ask the pool for it
    Parcels, None,
    Refunds,        \* what the arbiter may give back: "none", "part" or "all"
    MaxAttempts,    \* one more than WEBHOOK_RETRY_DELAYS_MS has entries
    MaxDeliveries,
    MaxUpsets       \* bound: changes of the store, deaths of the process, failed builds

Events == {"created"} \cup Parcels
          \cup {"dispute.opened", "dispute.responded", "dispute.resolved",
                "escrow.refunded", "escrow.released"}
Deliveries == [id : Nat, event : Events, status : {"pending", "finished"}, attempts : Nat]
Statuses == {"held", "shipped", "released", "disputed", "responded", "resolved", "expired"}
Record ==
    [webhook : BOOLEAN, queue : SUBSET Deliveries, shipped : SUBSET Parcels,
     state : {"unshipped", "partial", "fulfilled", "canceled"}, seen : Statuses \cup {None},
     issued : Nat]
Lookup == [status : Statuses, answered : BOOLEAN, refund : {"none", "part", "all"}]
Cached == [version : Nat, app : Apps \cup {None}, by : Gets \cup {None}]

ASSUME WebhooksAssumption ==
    /\ {MaxAttempts, MaxDeliveries} \subseteq Nat \ {0}
    /\ MaxUpsets \in Nat
    /\ Refunds \subseteq {"none", "part", "all"}
    /\ {"idle", "building"} \cap Apps = {}
ASSUME NoneAssumption ==
    None \notin Record \cup Lookup \cup Deliveries \cup Cached \cup Apps \cup Statuses

VARIABLES
    db,        \* the order's record in Postgres
    mem,       \* each app's copy of it, None for an app that does not run
    stopped,   \* OrderEvents.stopped
    armed,     \* the order has a timer or a drain in this app
    queueing,  \* events whose queue() awaits its reads, per app
    asking,    \* the shipment check of each app
    reading,   \* the escrow read of each app
    sending,   \* the delivery each app's drain is POSTing
    built,     \* the pool's cached app: None, or its version and app
    get,       \* what each request is doing in the pool
    version,   \* the comercio's updatedAt
    failures,  \* deaths of the process and failed builds
    overlapped,  \* history: a request built an app next to another's
    platform, escrow,  \* what the platform and the escrow would answer
    happened, told     \* history: the escrow's events, and those queued

vars == <<db, mem, stopped, armed, queueing, asking, reading, sending, built, get, version,
          failures, overlapped, platform, escrow, happened, told>>
pool == <<built, get, version, stopped, overlapped>>
world == <<failures, platform, escrow, happened>>

NotAsking == [asked |-> FALSE, todo |-> {}, all |-> FALSE]
NewOrder == [webhook |-> FALSE, queue |-> {}, shipped |-> {}, state |-> "unshipped",
             seen |-> None, issued |-> 0]
NoTasks ==
    /\ queueing = [a \in Apps |-> {}]
    /\ asking = [a \in Apps |-> NotAsking]
    /\ reading = [a \in Apps |-> None]
    /\ sending = [a \in Apps |-> None]

Init ==
    /\ db = NewOrder
    /\ mem = [a \in Apps |-> None]
    /\ stopped = [a \in Apps |-> FALSE]
    /\ armed = [a \in Apps |-> FALSE]
    /\ NoTasks
    /\ built = None
    /\ get = [g \in Gets |-> "idle"]
    /\ version = 0 /\ failures = 0 /\ overlapped = FALSE
    /\ platform = [left |-> {}, canceled |-> FALSE]
    /\ escrow = [status |-> "held", answered |-> FALSE, refund |-> "none"]
    /\ happened = <<>> /\ told = <<>>

(* OrderStore.update in app a: its copy and the whole record. *)
Update(a, record) ==
    /\ mem' = [mem EXCEPT ![a] = record]
    /\ db' = record

-----------------------------------------------------------------------------
(* The queue in the order. *)

Finished(delivery) == delivery.status = "finished"
(* appendDeliveries: past the limit the oldest finished go, never a pending
   one.  The queue is the set of its deliveries; their ids grow along it.   *)
Older(queue, delivery) == {d \in queue : Finished(d) /\ d.id < delivery.id}
Trim(queue) ==
    LET excess == Cardinality(queue) - MaxDeliveries
    IN  {d \in queue : ~Finished(d) \/ Cardinality(Older(queue, d)) >= excess}

Delivery(id, event) == [id |-> id, event |-> event, status |-> "pending", attempts |-> 0]
AppendDeliveries(record, events) ==
    IF events = <<>> THEN record
    ELSE [record EXCEPT
            !.queue = Trim(@ \cup {Delivery(record.issued + i, events[i]) : i \in DOMAIN events}),
            !.issued = @ + Len(events)]

(* schedule(): a stopped app sends nothing more. *)
Schedule(a) == armed' = [armed EXCEPT ![a] = @ \/ ~stopped[a]]

(* A request that completes a checkout; it may hold an app that was replaced. *)
AttachWebhook(a) ==
    /\ mem[a] # None /\ ~mem[a].webhook
    /\ Update(a, [mem[a] EXCEPT !.webhook = TRUE])
    /\ queueing' = [queueing EXCEPT ![a] = @ \cup {"created"}]
    /\ UNCHANGED <<asking, reading, sending, armed, told, pool, world>>

(* queue(), after it read the escrow and the disputes. *)
Queue(a, event) ==
    /\ event \in queueing[a]
    /\ Update(a, AppendDeliveries(mem[a], <<event>>))
    /\ Schedule(a)
    /\ queueing' = [queueing EXCEPT ![a] = @ \ {event}]
    /\ UNCHANGED <<asking, reading, sending, told, pool, world>>

-----------------------------------------------------------------------------
(* Shipments. *)

(* checkShipment: one question at a time, in a stopped app too. *)
AskPlatform(a) ==
    /\ mem[a] # None /\ mem[a].state \notin {"fulfilled", "canceled"}
    /\ asking[a] = NotAsking /\ queueing[a] \cap Parcels = {}
    /\ Update(a, mem[a])  \* fulfillmentCheckedAt
    /\ asking' = [asking EXCEPT ![a].asked = TRUE]
    /\ UNCHANGED <<queueing, reading, sending, armed, told, pool, world>>

PlatformAnswers(a) ==
    /\ asking[a].asked
    /\ IF platform.canceled
       THEN /\ Update(a, [mem[a] EXCEPT !.state = "canceled"])
            /\ asking' = [asking EXCEPT ![a] = NotAsking]
       ELSE /\ UNCHANGED <<db, mem>>
            /\ asking' = [asking EXCEPT ![a] = [asked |-> FALSE, todo |-> platform.left,
                                                all |-> platform.left = Parcels]]
    /\ UNCHANGED <<queueing, reading, sending, armed, told, pool, world>>

(* recordShipment of one parcel of the answer; the next waits for its queue(). *)
RecordShipment(a, p) ==
    /\ p \in asking[a].todo /\ queueing[a] \cap Parcels = {}
    /\ Update(a, [mem[a] EXCEPT !.shipped = @ \cup {p},
                                !.state = IF asking[a].all \/ @ = "fulfilled"
                                          THEN "fulfilled" ELSE "partial"])
    /\ queueing' = [queueing EXCEPT ![a] =
                      IF mem[a].webhook /\ p \notin mem[a].shipped THEN @ \cup {p} ELSE @]
    /\ asking' = [asking EXCEPT ![a] =
                    IF @.todo = {p} THEN NotAsking
                    ELSE [asked |-> FALSE, todo |-> @.todo \ {p}, all |-> @.all]]
    /\ UNCHANGED <<reading, sending, armed, told, pool, world>>

-----------------------------------------------------------------------------
(* The escrow. *)

InDispute == {"disputed", "responded", "resolved", "expired"}
Answered == {"responded", "resolved", "expired"}
Settled == {"released", "resolved", "expired"}
If(condition, event) == IF condition THEN <<event>> ELSE <<>>

RespondedFromStatus(previous, purchase) ==
    purchase.status \in Answered /\ previous \notin Answered
Responded(previous, purchase) ==
    /\ purchase.status \in Answered /\ purchase.answered
    /\ previous \notin Answered
(* How the payment ended, with the ruling if it took one. *)
Ending(purchase) ==
    LET resolved == purchase.status = "resolved" IN
       If(resolved, "dispute.resolved")
    \o If((resolved /\ purchase.refund # "none") \/ purchase.status = "expired", "escrow.refunded")
    \o If((resolved /\ purchase.refund # "all") \/ purchase.status = "released", "escrow.released")
escrowEvents(previous, purchase) ==
    LET current == purchase.status IN
    IF current = previous THEN <<>> ELSE
       If(previous \notin InDispute /\ current \in InDispute, "dispute.opened")
    \o If(Responded(previous, purchase), "dispute.responded")
    \o Ending(purchase)

Seen(record) == IF record.seen = None THEN "held" ELSE record.seen

ReadEscrow(a) ==
    /\ mem[a] # None /\ ~stopped[a] /\ reading[a] = None
    /\ mem[a].webhook /\ mem[a].seen \notin Settled
    /\ mem[a].seen # escrow.status
    /\ reading' = [reading EXCEPT ![a] = escrow]
    /\ UNCHANGED <<db, mem, queueing, asking, sending, armed, told, pool, world>>

(* The deliveries and the state they report are one write. *)
ReportEscrow(a) ==
    LET events == escrowEvents(Seen(mem[a]), reading[a]) IN
    /\ reading[a] # None
    /\ reading' = [reading EXCEPT ![a] = None]
    /\ IF stopped[a] THEN UNCHANGED <<db, mem, armed, told>>
       ELSE /\ Update(a, AppendDeliveries([mem[a] EXCEPT !.seen = reading[a].status], events))
            /\ Schedule(a)
            /\ told' = told \o events
    /\ UNCHANGED <<queueing, asking, sending, pool, world>>

-----------------------------------------------------------------------------
(* Deliveries: one drain per app. *)

Pending(record) == {d \in record.queue : ~Finished(d)}
NextUpNewest(record, delivery) == \A e \in Pending(record) : delivery.id >= e.id
NextUp(record, delivery) == \A e \in Pending(record) : delivery.id <= e.id

Send(a) ==
    /\ mem[a] # None /\ ~stopped[a] /\ armed[a] /\ sending[a] = None
    /\ \E delivery \in Pending(mem[a]) :
          /\ NextUp(mem[a], delivery)
          /\ sending' = [sending EXCEPT ![a] = delivery]
    /\ UNCHANGED <<db, mem, queueing, asking, reading, armed, told, pool, world>>

(* classify and what attempt writes.  A delivery that is delivered or failed
   is finished either way; one deferred by the process's own budget counts no
   attempt and is a Send that comes later.                                  *)
Outcomes == {"delivered or given up", "retry"}
After(delivery, outcome) ==
    IF outcome = "retry" /\ delivery.attempts + 1 < MaxAttempts
    THEN [delivery EXCEPT !.attempts = @ + 1]
    ELSE [delivery EXCEPT !.attempts = 0, !.status = "finished"]
Attempt(a, outcome) ==
    LET done == After(sending[a], outcome) IN
    /\ sending[a] # None
    /\ sending' = [sending EXCEPT ![a] = None]
    /\ Update(a, [mem[a] EXCEPT !.queue =
                    {IF d.id = done.id THEN done ELSE d : d \in @}])
    /\ UNCHANGED <<queueing, asking, reading, armed, told, pool, world>>

-----------------------------------------------------------------------------
(* StorefrontPool.get, one request after another or overlapping. *)

Order == <<db, mem, told>>

(* Nothing cached: the build is cached before it is awaited.  The store has
   not changed: its app.  It has: the cached app is stopped.                *)
Get(g) ==
    /\ get[g] = "idle"
    /\ \/ /\ built = None
          /\ built' = [version |-> version, app |-> None, by |-> g]
          /\ get' = [get EXCEPT ![g] = "building"]
          /\ UNCHANGED stopped
       \/ /\ built # None /\ built.app # None /\ built.version # version
          /\ stopped' = [stopped EXCEPT ![built.app] = TRUE]
          /\ get' = [get EXCEPT ![g] = built.app]
          /\ UNCHANGED built
    /\ UNCHANGED <<Order, armed, queueing, asking, reading, sending, version, overlapped, world>>

IdleSends(a) == sending[a] = None
(* orderEvents.idle(): no delivery and no escrow read is running. *)
Idle(a) == sending[a] = None /\ reading[a] = None
(* The build replaces what is cached.  When that is no longer the app this
   request stopped, another request's app is never stopped: they overlap.   *)
Replace(g) ==
    /\ get[g] \in Apps /\ Idle(get[g])
    /\ overlapped' = (overlapped \/ (built # None /\ built.app # get[g]))
    /\ built' = [version |-> version, app |-> None, by |-> g]
    /\ get' = [get EXCEPT ![g] = "building"]
    /\ UNCHANGED <<Order, stopped, armed, queueing, asking, reading, sending, version, world>>

ResumesNothing(record) == FALSE
Resumes(record) == Pending(record) # {}
(* build loads the order and resumes what it says is pending.  The requests of
   a stopped app are taken to have ended by now: see the README.  An app that
   a request still waits for keeps its name.                                *)
Free(b) == mem[b] = None /\ \A h \in Gets : get[h] # b
Ready(g) ==
    LET a == CHOOSE b \in Apps : Free(b)
        Gone(b) == stopped[b] /\ Idle(b)
    IN
    /\ get[g] = "building" /\ \E b \in Apps : Free(b)
    /\ mem' = [b \in Apps |-> IF b = a THEN db ELSE IF Gone(b) THEN None ELSE mem[b]]
    /\ stopped' = [b \in Apps |-> b # a /\ ~Gone(b) /\ stopped[b]]
    /\ armed' = [b \in Apps |-> IF b = a THEN Resumes(db) ELSE ~Gone(b) /\ armed[b]]
    /\ queueing' = [b \in Apps |-> IF b = a \/ Gone(b) THEN {} ELSE queueing[b]]
    /\ asking' = [b \in Apps |-> IF b = a \/ Gone(b) THEN NotAsking ELSE asking[b]]
    /\ built' = IF built # None /\ built.by = g THEN [built EXCEPT !.app = a, !.by = None]
                ELSE built
    /\ get' = [get EXCEPT ![g] = "idle"]
    /\ UNCHANGED <<db, told, reading, sending, version, overlapped, world>>

(* "A failed build is not cached: the next request tries again", and so does
   each that awaited it: the build of the last one stays cached.            *)
BuildFails(g) ==
    /\ get[g] = "building"
    /\ version + failures < MaxUpsets /\ failures' = failures + 1
    /\ \E waiters \in SUBSET {h \in Gets : get[h] = "idle"} :
          /\ overlapped' = (overlapped \/ \E h, k \in waiters : h # k)
          /\ built' = IF waiters # {}
                      THEN [version |-> version, app |-> None, by |-> CHOOSE h \in waiters : TRUE]
                      ELSE IF built # None /\ built.by = g THEN None ELSE built
          /\ get' = [h \in Gets |-> IF h \in waiters THEN "building"
                                    ELSE IF h = g THEN "idle" ELSE get[h]]
    /\ UNCHANGED <<Order, stopped, armed, queueing, asking, reading, sending, version,
                   platform, escrow, happened>>

(* The process dies with every app in it. *)
Crash ==
    /\ version + failures < MaxUpsets /\ failures' = failures + 1
    /\ mem' = [a \in Apps |-> None]
    /\ stopped' = [a \in Apps |-> FALSE]
    /\ armed' = [a \in Apps |-> FALSE]
    /\ queueing' = [a \in Apps |-> {}]
    /\ asking' = [a \in Apps |-> NotAsking]
    /\ reading' = [a \in Apps |-> None]
    /\ sending' = [a \in Apps |-> None]
    /\ built' = None
    /\ get' = [g \in Gets |-> "idle"]
    /\ UNCHANGED <<db, told, version, overlapped, platform, escrow, happened>>

-----------------------------------------------------------------------------
(* The world: the merchant's settings, its platform, the escrow contract. *)

inside == <<Order, armed, queueing, asking, reading, sending, stopped, built, get,
            overlapped, failures>>
ChangeStore ==
    /\ version + failures < MaxUpsets /\ version' = version + 1
    /\ UNCHANGED <<inside, platform, escrow, happened>>

ParcelLeaves(p) ==
    /\ p \notin platform.left /\ ~platform.canceled
    /\ platform' = [platform EXCEPT !.left = @ \cup {p}]
    /\ UNCHANGED <<inside, version, escrow, happened>>
CancelOrder ==
    /\ platform.left = {} /\ ~platform.canceled
    /\ platform' = [platform EXCEPT !.canceled = TRUE]
    /\ UNCHANGED <<inside, version, escrow, happened>>

EscrowMoves(from, to, refund, events) ==
    /\ escrow.status \in from
    /\ escrow' = [status |-> to, refund |-> refund,
                  answered |-> escrow.answered \/ to = "responded"]
    /\ happened' = happened \o events
    /\ UNCHANGED <<inside, version, platform>>
EscrowSteps ==
    \/ EscrowMoves({"held"}, "shipped", "none", <<>>)
    \/ EscrowMoves({"shipped"}, "released", "none", <<"escrow.released">>)
    \/ EscrowMoves({"held", "shipped"}, "disputed", "none", <<"dispute.opened">>)
    \/ EscrowMoves({"disputed"}, "responded", "none", <<"dispute.responded">>)
    \/ \E refund \in Refunds :
          EscrowMoves({"disputed", "responded"}, "resolved", refund,
                      <<"dispute.resolved">> \o If(refund # "none", "escrow.refunded")
                                             \o If(refund # "all", "escrow.released"))
    \/ EscrowMoves({"disputed", "responded"}, "expired", "all", <<"escrow.refunded">>)

Duties(a) ==
    \/ ReadEscrow(a) \/ ReportEscrow(a)
    \/ Send(a) \/ \E outcome \in Outcomes : Attempt(a, outcome)
AppSteps(a) ==
    \/ AttachWebhook(a)
    \/ \E event \in {"created"} \cup Parcels : Queue(a, event)
    \/ AskPlatform(a) \/ PlatformAnswers(a)
    \/ \E p \in Parcels : RecordShipment(a, p)
    \/ Duties(a)
PoolSteps(g) == Get(g) \/ Replace(g) \/ Ready(g) \/ BuildFails(g)

Next ==
    \/ \E a \in Apps : AppSteps(a)
    \/ \E g \in Gets : PoolSteps(g)
    \/ Crash \/ ChangeStore
    \/ CancelOrder \/ \E p \in Parcels : ParcelLeaves(p)
    \/ EscrowSteps

Spec == Init /\ [][Next]_vars

(* Requests for the store keep coming, so a stopped process rebuilds its app;
   the escrow's watcher runs every minute, a drain goes on while something is
   pending, and an attempt is answered or times out.                        *)
Fairness ==
    /\ WF_vars(\E g \in Gets : PoolSteps(g))
    /\ WF_vars(\E a \in Apps : Duties(a))
FairSpec == Spec /\ Fairness

-----------------------------------------------------------------------------
(* Deliveries go out in order: a later one waits behind an earlier one and its
   retries, across crashes, rebuilds and the trimming of the queue
   (order-events.ts:410-436), as long as no two requests replace one app.   *)
DeliveredInOrder ==
    ~overlapped => \A d, e \in db.queue :
        d.id < e.id /\ ~Finished(d) => ~Finished(e) /\ e.attempts = 0

(* Whatever the reads skip and wherever the process dies, the escrow events
   queued are the ones that happened, in their order and each once
   (order-events.ts:330-336, escrow-events.ts:4-8).                         *)
EscrowToldOnce == ~overlapped => IsPrefix(told, happened)

(* "the one in flight finishes before the new app loads the orders"
   (platform/storefronts.ts:77-79): once the store has its new app, no delivery
   and no escrow read of a replaced one is left to write over it.           *)
ReplacedIsIdle ==
    ~overlapped => \A a \in Apps :
        built # None /\ built.app \notin {None, a} => sending[a] = None /\ reading[a] = None

(* What the escrow ended with is reported in full, and every delivery queued
   by then is delivered or given up.                                        *)
SettledIsTold ==
    (escrow.status \in Settled /\ db.webhook)
        ~> ((told = happened /\ Pending(db) = {}) \/ overlapped)
=============================================================================
