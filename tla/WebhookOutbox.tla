--------------------------- MODULE WebhookOutbox ----------------------------
(***************************************************************************)
(* The partner webhooks of one partner: the rows that packages/directory    *)
(* queues in the same statement as the change they announce, and the passes *)
(* of apps/web's webhook-drain.ts that claim, send and mark them.           *)
(*                                                                          *)
(* A pass is a process: it claims a batch in one statement and then sends   *)
(* one event at a time.  Passes overlap, in one server and across servers.  *)
(* Time is counted in minutes until a row is due again, so it has no end.   *)
(***************************************************************************)
EXTENDS Integers, FiniteSets

CONSTANTS
    Mandates, Purchases,
    Endpoints, Subscriptions,  \* endpoints, and the sets of types they may ask for
    Passes,       \* drainWebhooks calls that may overlap
    None,
    Batch,        \* WEBHOOK_DRAIN_BATCH
    MaxAttempts,  \* MAX_WEBHOOK_ATTEMPTS
    Lease,        \* the claim's interval, 2 minutes
    MaxFaults     \* bound on dead passes and failed writes

ASSUME OutboxAssumption ==
    /\ {Batch, MaxAttempts, Lease} \subseteq Nat \ {0}
    /\ MaxFaults \in Nat
    /\ IsFiniteSet(Passes)

Outcomes == {"settled", "refused"}
Changes == ({"mandate.activated", "mandate.revoked"} \X Mandates)
           \cup ({"payment.settled", "payment.refused"} \X Purchases)
Rows == Changes \X Endpoints  \* `<event id>:<endpoint id>`
Delivery == [attempts : Nat, wait : Nat, delivered : BOOLEAN, gaveUp : BOOLEAN]

ASSUME NoneAssumption == None \notin Delivery

VARIABLES
    mandate,   \* directory_mandates: "none", "active" or "revoked"
    purchase,  \* directory_purchases: "none" or its outcome
    endpoint,  \* directory_webhook_endpoints: None until created
    row,       \* directory_webhook_deliveries: None until queued
    pass,      \* the rows each pass has claimed and not yet dealt with
    overran,   \* history: a pass kept a row past its lease
    faults

vars == <<mandate, purchase, endpoint, row, pass, overran, faults>>
changed == <<mandate, purchase, endpoint>>

Idle == [r \in {} |-> 0]
Owed(r) == row[r] # None /\ ~row[r].delivered /\ ~row[r].gaveUp

Init ==
    /\ mandate = [m \in Mandates |-> "none"]
    /\ purchase = [p \in Purchases |-> "none"]
    /\ endpoint = [e \in Endpoints |-> None]
    /\ row = [r \in Rows |-> None]
    /\ pass = [d \in Passes |-> Idle]
    /\ overran = FALSE
    /\ faults = 0

-----------------------------------------------------------------------------
(* The changes, and the rows each queues in its own statement. *)

Queued == [attempts |-> 0, wait |-> 0, delivered |-> FALSE, gaveUp |-> FALSE]
Queue(type, subject) ==
    row' = [r \in Rows |->
              IF r[1] = <<type, subject>> /\ endpoint[r[2]] # None
                 /\ endpoint[r[2]].live /\ type \in endpoint[r[2]].events
              THEN Queued ELSE row[r]]

RecordMandate(m) ==
    /\ mandate[m] = "none"
    /\ mandate' = [mandate EXCEPT ![m] = "active"]
    /\ Queue("mandate.activated", m)
    /\ UNCHANGED <<purchase, endpoint, pass, overran, faults>>

(* A second revocation updates no row and queues nothing. *)
RevokeMandate(m) ==
    /\ mandate[m] = "active"
    /\ mandate' = [mandate EXCEPT ![m] = "revoked"]
    /\ Queue("mandate.revoked", m)
    /\ UNCHANGED <<purchase, endpoint, pass, overran, faults>>

CreatePurchase(p, outcome) ==
    /\ purchase[p] = "none"
    /\ purchase' = [purchase EXCEPT ![p] = outcome]
    /\ Queue(IF outcome = "settled" THEN "payment.settled" ELSE "payment.refused", p)
    /\ UNCHANGED <<mandate, endpoint, pass, overran, faults>>

CreateWebhookEndpoint(e, events) ==
    /\ endpoint[e] = None
    /\ endpoint' = [endpoint EXCEPT ![e] = [live |-> TRUE, events |-> events]]
    /\ UNCHANGED <<mandate, purchase, row, pass, overran, faults>>

(* Soft: what was queued for it stays queued. *)
DeleteWebhookEndpoint(e) ==
    /\ endpoint[e] # None /\ endpoint[e].live
    /\ endpoint' = [endpoint EXCEPT ![e].live = FALSE]
    /\ UNCHANGED <<mandate, purchase, row, pass, overran, faults>>

-----------------------------------------------------------------------------
(* A pass. *)

DueUntried == {r \in Rows : Owed(r) /\ row[r].wait = 0 /\ row[r].attempts < MaxAttempts}
Due == {r \in Rows : Owed(r) /\ row[r].wait = 0}
Taken(rs) == [r \in rs |-> [attempts |-> row[r].attempts + 1, lease |-> Lease]]
Batches == {rs \in SUBSET Due : Cardinality(rs) <= Batch /\ (rs = Due \/ Cardinality(rs) = Batch)}

ClaimWithoutLease(d) ==
    /\ pass[d] = Idle
    /\ Due # {}
    /\ \E rs \in Batches :
          /\ row' = [r \in Rows |-> IF r \in rs THEN [row[r] EXCEPT !.attempts = @ + 1] ELSE row[r]]
          /\ pass' = [pass EXCEPT ![d] = Taken(rs)]
    /\ UNCHANGED <<changed, overran, faults>>
(* claimDueWebhookDeliveries: one statement counts the attempt and makes the
   row due again only after the lease.  Which of the due rows come first is
   left open.                                                               *)
Claim(d) ==
    /\ pass[d] = Idle
    /\ Due # {}
    /\ \E rs \in Batches :
          /\ row' = [r \in Rows |-> IF r \in rs
                                    THEN [row[r] EXCEPT !.attempts = @ + 1, !.wait = Lease]
                                    ELSE row[r]]
          /\ pass' = [pass EXCEPT ![d] = Taken(rs)]
    /\ UNCHANGED <<changed, overran, faults>>

(* webhookBackoffMs, in minutes. *)
Backoff(attempts) ==
    LET minutes == 3 ^ (IF attempts > 1 THEN attempts - 1 ELSE 0)
    IN  IF minutes \in 1..135 THEN minutes ELSE 135

GiveUpOnRefusal(answer, attempts) == answer = "no"
GiveUp(answer, attempts) == answer = "no" \/ attempts >= MaxAttempts

(* markWebhookDelivered and markWebhookFailed: whatever the row has become. *)
Marked(r, answer, attempts) ==
    IF answer = "ok" THEN [row[r] EXCEPT !.delivered = TRUE]
    ELSE [row[r] EXCEPT !.gaveUp = GiveUp(answer, attempts),
                        !.wait = IF GiveUp(answer, attempts) THEN @ ELSE Backoff(attempts)]

(* deliverOne, at the moment its answer is recorded: the POST was answered 2xx
   ("ok"), below 500 or was never made because the host does not resolve to a
   public address ("no"), or ended in 5xx, a timeout or a broken connection
   ("error").                                                               *)
Answers == {"ok", "no", "error"}
Without(d, r) == [pass EXCEPT ![d] = [q \in DOMAIN @ \ {r} |-> @[q]]]
DeliverOne(d, answer) ==
    \E r \in DOMAIN pass[d] :
        /\ row' = [row EXCEPT ![r] = Marked(r, answer, pass[d][r].attempts)]
        /\ pass' = Without(d, r)
        /\ UNCHANGED <<changed, overran, faults>>

(* The write fails: the row is left to its lease and the batch goes on. *)
MarkFails(d) ==
    /\ faults < MaxFaults
    /\ faults' = faults + 1
    /\ \E r \in DOMAIN pass[d] : pass' = Without(d, r)
    /\ UNCHANGED <<changed, row, overran>>

(* The process dies, and the pass with it. *)
Crash(d) ==
    /\ pass[d] # Idle
    /\ faults < MaxFaults
    /\ faults' = faults + 1
    /\ pass' = [pass EXCEPT ![d] = Idle]
    /\ UNCHANGED <<changed, row, overran>>

Less(n) == IF n = 0 THEN 0 ELSE n - 1
Tick ==
    /\ \/ \E r \in Rows : Owed(r) /\ row[r].wait > 0
       \/ \E d \in Passes : \E r \in DOMAIN pass[d] : pass[d][r].lease > 0
    /\ row' = [r \in Rows |-> IF Owed(r) THEN [row[r] EXCEPT !.wait = Less(@)] ELSE row[r]]
    /\ pass' = [d \in Passes |-> [r \in DOMAIN pass[d] |-> [pass[d][r] EXCEPT !.lease = Less(@)]]]
    /\ overran' = (overran \/ \E d \in Passes : \E r \in DOMAIN pass[d] :
                                 pass[d][r].lease <= 1)
    /\ UNCHANGED <<changed, faults>>

Next ==
    \/ \E m \in Mandates : RecordMandate(m) \/ RevokeMandate(m)
    \/ \E p \in Purchases, outcome \in Outcomes : CreatePurchase(p, outcome)
    \/ \E e \in Endpoints : DeleteWebhookEndpoint(e)
    \/ \E e \in Endpoints, events \in Subscriptions : CreateWebhookEndpoint(e, events)
    \/ \E d \in Passes : Claim(d) \/ MarkFails(d) \/ Crash(d)
    \/ \E d \in Passes, answer \in Answers : DeliverOne(d, answer)
    \/ Tick

Spec == Init /\ [][Next]_vars

(* A new pass starts every 30 seconds whatever the others do, a POST answers
   or times out, and time passes.                                           *)
Fairness ==
    /\ WF_vars(Tick)
    /\ \A d \in Passes :
          /\ WF_vars(Claim(d))
          /\ WF_vars(MarkFails(d) \/ \E answer \in Answers : DeliverOne(d, answer))
FairSpec == Spec /\ Fairness

-----------------------------------------------------------------------------
(* As long as no pass has kept a row longer than its lease, no event is in
   the hands of two passes, and none is recorded as both delivered and given
   up: two drains "cannot both take the same row" (directory.ts:1300-1306). *)
LeaseProtects ==
    ~overran =>
        /\ \A d1, d2 \in Passes : d1 # d2 =>
              DOMAIN pass[d1] \cap DOMAIN pass[d2] = {}
        /\ \A r \in Rows : row[r] # None => ~(row[r].delivered /\ row[r].gaveUp)

(* A dead endpoint is not tried forever: beyond MAX_WEBHOOK_ATTEMPTS only a
   lost mark adds an attempt (webhook-drain.ts:30-37, 127-136).  A pass that
   outlives its lease may take back another's giving up (directory.ts:1351):
   its older attempt was not the last.  That too comes to an end.           *)
AttemptsEnd ==
    LET passes == Cardinality(Passes) IN
    \A r \in Rows : row[r] # None =>
        row[r].attempts <= MaxAttempts + faults + IF overran THEN passes * (passes - 1) ELSE 0

(* Whatever dies or overlaps, every queued event ends delivered or given up
   on record (webhook-drain.ts:10-23).                                      *)
OwedIsSettled == \A r \in Rows : Owed(r) ~> ~Owed(r)
=============================================================================
