-------------------------- MODULE TenantPurchase ----------------------------
(***************************************************************************)
(* POST /v1/purchases for one tenant: handleCreatePurchase and its          *)
(* idempotency record, executeTenantPurchase, the PolicyRail that reserves  *)
(* the day's budget, the sponsored policy_rail it deploys and funds, and    *)
(* the x402 payment with its one-way door.                                  *)
(*                                                                          *)
(* A request is a process and every await ends a step.  Its intent and the  *)
(* rail it may deploy are named after it.  One product at one price.        *)
(***************************************************************************)
EXTENDS Integers, FiniteSets

CONSTANTS
    Requests, Keys, None,
    Total, PerDay,     \* what a purchase costs; the tighter daily limit
    Funding, Reserve,  \* INITIAL_FUNDING; the reserve's USDC at the start
    MaxDay, MaxFaults  \* bounds: days; lost answers, failed writes, dead requests

ASSUME PurchaseAssumption ==
    /\ {Total, PerDay, Funding} \subseteq Nat \ {0}
    /\ {Reserve, MaxDay, MaxFaults} \subseteq Nat
    /\ IsFiniteSet(Requests)

(* A spend or a cached response that is there is not None. *)
ASSUME NoneAssumption ==
    /\ None \notin Requests
    /\ None \notin [state : {"granted", "released"}, day : 0..MaxDay]
    /\ None \notin [outcome : {None, "refused", "settled", "error"}, old : BOOLEAN]

VARIABLES
    req,        \* each request: where it is, its key, the rail it pays from, its outcome,
                \* and (history) the requests under way when it arrived
    spend,      \* the vault's spend of each intent: None, or granted or released, and its day
    row,        \* the agent's policy_rail_contract_id and policy_rail_funded_at
    balance,    \* USDC of each deployed rail
    reserve,
    idem,       \* directory_idempotency
    purchases,  \* directory_purchases
    day,
    moved,      \* history: the intents whose payment moved
    lost,       \* history: transfers that landed and were answered with an error
    faults

vars == <<req, spend, row, balance, reserve, idem, purchases, day, moved, lost, faults>>

Init ==
    /\ req = [r \in Requests |-> [pc |-> "new", key |-> None, rail |-> None, outcome |-> None,
                              beside |-> {}]]
    /\ spend = [r \in Requests |-> None]
    /\ row = [contract |-> None, funded |-> FALSE]
    /\ balance = [r \in Requests |-> 0]
    /\ reserve = Reserve
    /\ idem = [k \in Keys |-> None]
    /\ purchases = [r \in Requests |-> None]
    /\ day = 0 /\ moved = {} /\ lost = 0 /\ faults = 0

At(r, pc) == req[r].pc = pc
Go(r, pc) == req' = [req EXCEPT ![r].pc = pc]
Ends(r, pc, outcome) == req' = [req EXCEPT ![r].pc = pc, ![r].outcome = outcome]
Fault == faults < MaxFaults /\ faults' = faults + 1

chain == <<balance, reserve, moved, lost>>
tables == <<row, idem, purchases>>

-----------------------------------------------------------------------------
(* The route. *)

UnderWay == {r \in Requests : req[r].pc \notin {"new", "done", "dead"}}

Replayed(k) == idem[k] # None /\ ~idem[k].old
(* resolveIdempotency: a record within its 24 hours is replayed.  A key
   stands for its request body.                                             *)
Arrive(r, k) ==
    /\ At(r, "new")
    /\ req' = [req EXCEPT ![r] = IF Replayed(k)
                                 THEN [@ EXCEPT !.pc = "done", !.key = k, !.outcome = idem[k].outcome]
                                 ELSE [@ EXCEPT !.pc = "context", !.key = k, !.beside = UnderWay]]
    /\ UNCHANGED <<spend, tables, chain, day, faults>>

(* createPurchase: settled or refused, the attempt is recorded. *)
CreatePurchase(r) ==
    /\ At(r, "record")
    /\ purchases' = [purchases EXCEPT ![r] = req[r].outcome]
    /\ Go(r, "respond")
    /\ UNCHANGED <<spend, row, idem, chain, day, faults>>

(* What execute() throws becomes the response, and is recorded as one. *)
CreatePurchaseFails(r) ==
    /\ At(r, "record")
    /\ Fault
    /\ Ends(r, "respond", "error")
    /\ UNCHANGED <<spend, tables, chain, day>>

SettledOnly(r) == IF req[r].outcome = "settled" THEN [outcome |-> "settled", old |-> FALSE]
                  ELSE idem[req[r].key]
(* recordIdempotentResponse: an upsert of any response that leaves created_at
   as it was.                                                               *)
Cached(r) ==
    LET record == idem[req[r].key]
    IN  [outcome |-> req[r].outcome, old |-> record # None /\ record.old]
Respond(r) ==
    /\ At(r, "respond")
    /\ idem' = [idem EXCEPT ![req[r].key] = Cached(r)]
    /\ Go(r, "done")
    /\ UNCHANGED <<spend, row, purchases, chain, day, faults>>

(* The process dies, wherever the request is, or the write of its response
   fails: nothing is there to replay.                                       *)
Die(r) ==
    /\ r \in UnderWay
    /\ Fault
    /\ Ends(r, "dead", "error")
    /\ UNCHANGED <<spend, tables, chain, day>>

-----------------------------------------------------------------------------
(* The budget. *)

SpentSettled(d) ==
    Total * Cardinality({r \in Requests : spend[r] # None /\ spend[r].day = d
                                          /\ purchases[r] = "settled"})
(* spentOn: what was granted for the day and not given back. *)
Spent(d) ==
    Total * Cardinality({r \in Requests : spend[r] # None /\ spend[r].day = d
                                          /\ spend[r].state = "granted"})

(* resolveTenantPurchaseContext and every check that refuses before the
   budget is touched.                                                       *)
Resolve(r) ==
    /\ At(r, "context")
    /\ Go(r, "authorise") \/ Ends(r, "record", "refused")
    /\ UNCHANGED <<spend, tables, chain, day, faults>>

(* create_purchase_intent: the day's total, the decision and the record are
   one critical section of the tenant's vault.                              *)
Authorise(r) ==
    /\ At(r, "authorise")
    /\ IF Spent(day) + Total <= PerDay
       THEN /\ spend' = [spend EXCEPT ![r] = [state |-> "granted", day |-> day]]
            /\ Go(r, "preflight")
       ELSE /\ UNCHANGED spend
            /\ Ends(r, "record", "refused")
    /\ UNCHANGED <<tables, chain, day, faults>>

(* Ceiling, route and the venue's first quote (steps 5 to 6b). *)
Preflight(r) ==
    /\ At(r, "preflight")
    /\ Go(r, "rail") \/ Go(r, "release")
    /\ UNCHANGED <<spend, tables, chain, day, faults>>

(* releaseUnpaidSpend never throws: what it cannot give back stays counted. *)
Release(r) ==
    /\ At(r, "release")
    /\ spend' = [spend EXCEPT ![r].state = "released"]
    /\ Ends(r, "record", "refused")
    /\ UNCHANGED <<tables, chain, day, faults>>
ReleaseFails(r) ==
    /\ At(r, "release")
    /\ Fault
    /\ Ends(r, "record", "refused")
    /\ UNCHANGED <<spend, tables, chain, day>>

-----------------------------------------------------------------------------
(* The rail: ensureTenantPolicyRail. *)

EnsureRail(r) ==
    /\ At(r, "rail")
    /\ \/ /\ row.contract # None
          /\ req' = [req EXCEPT ![r].rail = row.contract,
                                ![r].pc = IF row.funded THEN "balance" ELSE "claim"]
       \/ /\ row.contract = None  \* requireSponsoredCredit
          /\ Go(r, IF reserve >= Funding THEN "deploy" ELSE "release")
    /\ UNCHANGED <<spend, tables, chain, day, faults>>

Deploy(r) ==
    /\ At(r, "deploy")
    /\ Go(r, "persist") \/ Go(r, "release")
    /\ UNCHANGED <<spend, tables, chain, day, faults>>

KeepOwnRail(r) == r
(* setAgentPolicyRail: the first write wins, and funding follows the row. *)
KeepRail(r) == IF row.contract = None THEN r ELSE row.contract
PersistRail(r) ==
    /\ At(r, "persist")
    /\ row' = [row EXCEPT !.contract = IF @ = None THEN r ELSE @]
    /\ req' = [req EXCEPT ![r].pc = "claim", ![r].rail = KeepRail(r)]
    /\ UNCHANGED <<spend, idem, purchases, chain, day, faults>>

(* claimRailFunding: one conditional update. *)
ClaimRailFunding(r) ==
    /\ At(r, "claim")
    /\ row' = [row EXCEPT !.funded = TRUE]
    /\ Go(r, IF row.funded THEN "balance" ELSE "transfer")
    /\ UNCHANGED <<spend, idem, purchases, chain, day, faults>>

Move(r) ==
    /\ reserve >= Funding
    /\ reserve' = reserve - Funding
    /\ balance' = [balance EXCEPT ![req[r].rail] = @ + Funding]
FundRail(r) ==
    /\ At(r, "transfer")
    /\ Move(r)
    /\ Go(r, "balance")
    /\ UNCHANGED <<spend, tables, moved, lost, day, faults>>

(* The transfer is answered with an error, having landed or not; the claim is
   given back unless that write fails too.                                  *)
FundRailFails(r) ==
    /\ At(r, "transfer")
    /\ Fault
    /\ \/ Move(r) /\ lost' = lost + 1
       \/ UNCHANGED <<balance, reserve, lost>>
    /\ row' = [row EXCEPT !.funded = FALSE] \/ UNCHANGED row
    /\ Go(r, "release")
    /\ UNCHANGED <<spend, idem, purchases, moved, day>>

-----------------------------------------------------------------------------
(* The payment. *)

(* Step 7b: a balance that cannot be read refuses nothing. *)
CheckBalance(r) ==
    /\ At(r, "balance")
    /\ \/ Go(r, "pay")
       \/ balance[req[r].rail] < Total /\ Go(r, "release")
    /\ UNCHANGED <<spend, tables, chain, day, faults>>

(* executeBazaarPayment up to its door: the second authorise finds the spend
   recorded; the venue's terms, the simulation and the signature may refuse. *)
Sign(r) ==
    /\ At(r, "pay")
    /\ \/ balance[req[r].rail] >= Total /\ Go(r, "sent")
       \/ Go(r, "release")
    /\ UNCHANGED <<spend, tables, chain, day, faults>>

Pays(r) ==
    /\ balance[req[r].rail] >= Total
    /\ balance' = [balance EXCEPT ![req[r].rail] = @ - Total]
    /\ moved' = moved \cup {r}
Settle(r) ==
    /\ At(r, "sent")
    /\ Pays(r)
    /\ Ends(r, "record", "settled")
    /\ UNCHANGED <<spend, tables, reserve, lost, day, faults>>

UnconfirmedReleases(r) == "release"
(* mayHaveBeenPaid: after the door the spend stays, paid or not. *)
AfterTheDoor(r) == "record"
Unconfirmed(r) ==
    /\ At(r, "sent")
    /\ Pays(r) \/ UNCHANGED <<balance, moved>>
    /\ Ends(r, AfterTheDoor(r), "refused")
    /\ UNCHANGED <<spend, tables, reserve, lost, day, faults>>

-----------------------------------------------------------------------------

NextDay ==
    /\ day < MaxDay /\ day' = day + 1
    /\ idem' = [k \in Keys |-> IF idem[k] = None THEN None ELSE [idem[k] EXCEPT !.old = TRUE]]
    /\ UNCHANGED <<req, spend, row, purchases, chain, faults>>

Step(r) ==
    \/ \E k \in Keys : Arrive(r, k)
    \/ Resolve(r) \/ Authorise(r) \/ Preflight(r) \/ Release(r) \/ ReleaseFails(r)
    \/ EnsureRail(r) \/ Deploy(r) \/ PersistRail(r) \/ ClaimRailFunding(r)
    \/ FundRail(r) \/ FundRailFails(r)
    \/ CheckBalance(r) \/ Sign(r) \/ Settle(r) \/ Unconfirmed(r)
    \/ CreatePurchase(r) \/ CreatePurchaseFails(r) \/ Respond(r) \/ Die(r)
Next == NextDay \/ \E r \in Requests : Step(r)

Spec == Init /\ [][Next]_vars

-----------------------------------------------------------------------------
(* Budget is given back only for what certainly was not paid: a payment that
   moved stays counted, whatever was answered and whoever died
   (tenant-purchase.ts:864-872, x402.ts:338-354).                           *)
PaidIsCounted == \A r \in moved : spend[r] # None /\ spend[r].state = "granted"

(* Concurrent purchases of one tenant never reserve more than the day's
   limit, counting those still on their way (policy-rail.ts:165-179, 323).  *)
WithinTheDay ==
    \A d \in 0 .. MaxDay :
        LET reserved == {r \in Requests : spend[r] = [state |-> "granted", day |-> d]}
        IN  Total * Cardinality(reserved) <= PerDay

(* The reserve funds the rail the agent pays from and no other, and again only
   after a transfer that landed and was answered with an error, though
   tenant-rail.ts:228 says "exactly once, ever" (253-259, 300-311).         *)
SponsoredOnce ==
    LET funded == {r \in Requests : balance[r] > 0} IN
    /\ funded \subseteq {row.contract}
    /\ Reserve - reserve <= Funding * (1 + lost)

(* Repeating a key charges again only beside the first request while it is
   under way, after one of the two died with no response recorded, or past its
   24 hours: an answer lost after the payment moved, a release, a funding or a
   record of the purchase that failed are replayed as well
   (idempotency.ts, GUION-PRUEBA-COMPLETA.md:323).                          *)
RepeatsAreReplayed ==
    day = 0 =>
        \A r, s \in moved : req[r].key = req[s].key =>
            \/ r = s \/ r \in req[s].beside \/ s \in req[r].beside
            \/ At(r, "dead") \/ At(s, "dead")
=============================================================================
