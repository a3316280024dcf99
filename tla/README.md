# AgentPey in TLA+

A verification project for AgentPey: AI agents that buy from online stores and pay in USDC on Stellar. The modules
model the parts that hold, move or owe money and the consent behind it, translated from the source (Rust contracts, the
TypeScript store server, the buyers' web app and its directory). TLC checks them
on small instances; TLAPS proves every invariant and action property the runs check for every instance.

Run any check with `tlc -config <cfg> <module>` and any proof with `tlapm <module>.tla`. `PROJECT.json` lists the
runs, the source lines behind every definition, one mutant per property, the hazards and the theorems.

## 1. The system

| Part | State it keeps | Operations | Talks to |
|---|---|---|---|
| `contracts/purchase-escrow` | purchases, the payment index, one running total | hold, mark_shipped, release, open, respond, resolve, expire, claim_refund | the token; called by store, payer, arbiter, anyone |
| `contracts/receipt-registry` | one record per receipt hash, a count per merchant | anchor | read by agent-resolve |
| `contracts/agent-resolve` | a guarantee per merchant, one dispute per receipt | deposit, withdraw, open, resolve | registry, token |
| `contracts/policy-rail` | owner key, the day's counter (a temporary entry) | `__check_auth`, withdraw, set_owner | the token |
| `contracts/agent-registry` | issuers, anchored hashes | register_issuer, deactivate_issuer, anchor, revoke | read by verifiers, written by the web app and by wallets |
| `packages/vitrinee-gateway`: checkout | sessions (database), orders (memory and database), reservations and locks (memory) | open, update, cancel, complete, read | store platform, facilitator, database |
| `packages/vitrinee-gateway`: AnchorWorker | queue and timers; hold and anchor fields of the order | hold, anchor, retry, resume | escrow and registry contracts through one signing account |
| `packages/vitrinee-gateway`: OrderEvents | shipment events, fulfilment state, webhook deliveries | ask the platform, record a shipment, deliver | store platform, buyer's platform, EscrowReleases |
| `packages/vitrinee-gateway`: EscrowReleases | timers, a chain of steps per order; release field of the order | mark_shipped, release, retry, resume | escrow contract through the same signing account |
| `packages/vitrinee-gateway`: StorefrontPool | one app per store | get, build, replace when the store changes | all of the above |
| `packages/resolve`, dispute routes | claims and evidence | open, answer, rule | the two dispute contracts |
| `apps/agent` | spend ledger, vault, intents | authorise, pay, release | policy rail, venues |
| `apps/web`: purchases | idempotency records, purchases, the agent's rail and its funding | create a purchase | directory, vault, venue, reserve account |
| `apps/web`: consent | the session's rows, prepared writes | verify, start, consent, anchor, revoke | wallets, agent-registry, directory |
| `packages/directory`, `webhooks`, drain | mandates, purchases, webhook outbox | queue with the change, claim, deliver, mark | database, partners' endpoints |
| `apps/mcp`, `apps/gateway`, `apps/realops`, `apps/signaldesk`, UIs, SDKs | tokens, caches | protocol fronts and demo services | the above |

What is hard here:

* **One pool, many claims.** The escrow and agent-resolve keep everybody's tokens in one balance and track claims with
  running totals. A unit freed twice is another customer's money.
* **Undeliverable transfers.** A Stellar account without a trustline cannot receive. Half of a payout may fail.
* **Transactions nobody confirmed.** The RPC stops answering; the transaction may still land, next to its own retry.
* **Money between two saves.** The facilitator settles while the server is between two database writes, and the server
  may stop there.
* **Awaits.** Node's event loop interleaves requests at each `await`: stock, sessions and reservations read before one
  are used after it.
* **Memory that is not durable.** Locks, reservations, timers and queues vanish in a restart.
* **Clocks and boundaries.** Windows compare one instant with opposite operators; a day's counter is an entry that expires.
* **Two hands on one row.** Drains, tabs, processes and generations of an app share rows that are read, awaited over and
  written back.

Per component, what makes it correct: the escrow stays solvent, pays each purchase once and always leaves exactly one
remedy; agent-resolve can pay every open dispute out of the right merchant's guarantee; the rail's daily limit is never
exceeded; the store's record of an order says what the ledger says and owed steps happen; a checkout charges once and a
charge leads to one order; the buyer's platform hears of an order's escrow in order and once; a partner's event ends
delivered or given up; a tenant's day bounds what it pays and a repeated key does not pay again; a mandate on record is on
the chain and revocable. The hazards in `PROJECT.json` place each of these at its line, including those no property covers.

## 2. Modules

| Module | Models | Run by | Proofs |
|---|---|---|---|
| `TokenUnits` | sums of amounts, as sets of units | through the contracts | with each contract's |
| `Custody` | what an escrow promises, abstractly | through `KeepsItsPromise` | |
| `PurchaseEscrow` | `contracts/purchase-escrow` | `MCPurchaseEscrow` | `PurchaseEscrowProofs` |
| `ReceiptRegistry` | `contracts/receipt-registry` | through `AgentResolve` | `AgentResolveProofs` |
| `AgentResolve` (instantiates `ReceiptRegistry`) | `contracts/agent-resolve` | `MCAgentResolve` | `AgentResolveProofs` |
| `PolicyRail` | `contracts/policy-rail` | `MCPolicyRail` | `TenantPurchaseProofs` (last part) |
| `StoreEscrow` (instantiates `PurchaseEscrow`) | AnchorWorker, OrderEvents and EscrowReleases over the escrow | `MCStoreEscrow` | `StoreEscrowProofs` |
| `UcpCheckout` | the UCP checkout and `fulfilPaidPurchase` | `MCUcpCheckout` | `UcpCheckoutProofs` |
| `OrderWebhooks` | OrderEvents' webhook queue and escrow reads, StorefrontPool | `MCOrderWebhooks` | `OrderWebhooksProofs` |
| `WebhookOutbox` | the directory's outbox and `webhook-drain.ts` | `MCWebhookOutbox` | `WebhookOutboxProofs` |
| `TenantPurchase` | `POST /v1/purchases`: idempotency, budget, sponsored rail, x402 payment | `MCTenantPurchase` | `TenantPurchaseProofs` |
| `AgentRegistry` | `contracts/agent-registry` | through `ConsentFlow` | `ConsentFlowProofs` |
| `ConsentFlow` (instantiates `AgentRegistry`) | a consent session and the revocation page of `apps/web` | `MCConsentFlow` | `ConsentFlowProofs` |

### Contracts

A Soroban call is atomic and a call that returns an error leaves no trace, so each entry point is one action and each
error is the negation of a guard. `require_auth` says who takes the step; since every party is free to act, the actions
do not carry a caller, except the key that signs for a rail. Hashes of claims, answers, verdicts and receipts are opaque
to the contracts and left out, as are events and the rent of storage entries (the one entry whose life matters, the
rail's counter, is modelled: `liveUntil`). The token is external: a transfer succeeds when the receiver is in
`canReceive` and the balance suffices; `SetTrust` adds and removes receivers at any time.

`PurchaseEscrow` keeps the code's names. The checks each entry point makes of status and clock are operators of their own
(`MayRelease`, `MayRespond`, ...), so that `OneRemedyAtATime` can compare them. `Close` is `close`: the refund that cannot
be delivered becomes `refund_owed`
and stays allocated, the store's part must arrive or the call has no effect. Deadlines saturate at `MaxTime` as
`u64::saturating_add` does. `arrived` and `paid` are history variables. `Custody` says the same promise without
statuses, clocks or parties: deposit, keep, settle once, deliver what could not be delivered; `Promise` is the
refinement mapping.

`AgentResolve` adds `held` (tokens that came by deposit; tokens merely sent to the address belong to nobody there) and
the histories `deposited` and `own`.

`PolicyRail` counts time in the shortest time a ledger takes. `Extended` is `set` followed by `extend_ttl`: an entry
whose remaining life is under the threshold gets `ExtendTo` ledgers.

### StoreEscrow

`order` is the part of `OrderRecord` the three workers share; an update is on disk before its caller continues, so it
survives `Crash`, and everything else does not. `pass` is the AnchorWorker's pass over one order (`process`): hold, record,
anchor, record, each a step of its own. `AskPlatform` is `askPlatform`. `recordShipment` takes two steps for each parcel:
`RecordShipment` is its durable half, and `AfterShipment` the call that wakes EscrowReleases, made only after the webhook's
own save was awaited (`order-events.ts:198-201`). `ShipmentFails` is a save that throws before either: the rest of the answer
is dropped. A release recorded as owed whose call was dropped has nobody to start it, since the platform is not asked again
about a fulfilled order; `skipped` remembers such orders until a restart resumes them. `queue`, `step` and `timer` are the chain of steps per order (`serialized`), the step at work and the
timers of EscrowReleases; a step reads the purchase, sends, reads again and keeps what it saw. All sends share the signing
account's turn (`signerTurn`): `Sending` waits while a pass is under way.

A call may fail with or without having gone out. One that went out unconfirmed joins `ghosts` and may land at any
later time, until another transaction of the account takes its sequence number (`Lands` empties `ghosts`). `LedgerMoves`
is everybody else on the contract.

Left out: a failed database write that leaves memory ahead of disk (the failed attempt is recorded next, which restores
the earlier value), a failed write of that failed attempt (`anchoring.ts:167`, `escrow-release.ts:181-185`: no timer is set and
the step waits for a restart), the content of the webhooks (`OrderWebhooks` has them), and a second app for the same store.

### UcpCheckout

A request is a process. It gives way at each await: asking the platform for the product (`Asks`, `Answer`), saving the
session, settling, creating the platform's order, writing the order. `stored` is the `checkout_sessions` table, `copy` what
the request loaded; GET reads and may write without the lock. `holds` is what the request reserved, `reserved` the
counter the store keeps (`HeldBy`, what requests hold, is the size of a set of units, so that it can be proved about); `Ends` is what the `finally` blocks do. The facilitator settles, refuses or leaves the outcome
unknown, and in the last case the money may or may not have moved; a payment moves at most once. `Fail` is an awaited call
that throws, `Crash` a restart: sessions and recorded orders survive. `PlatformFails` is an order the platform did not make, or
made although its answer was lost.

Abstractions: the store sells one product, so a cart is a number of units and a snapshot is units and price; a payment
stands for its signed transaction, its hash and its order; delivery, AP2, consent and the buyer's details are the one
bit `deliverable`. Idempotency replays, credential, AP2 and negotiation refusals answer without changing any of this state.
A product whose platform does not track stock is never refused and is left out, and so is `fulfilOrder`, the seller's own
retry of an order that was not fulfilled (`checkout.ts:604`): it makes another order if the lost answer hid one.

### OrderWebhooks

One order. `mem` is the copy each app of the store keeps in memory and `db` the record; `Update` changes the copy and
writes the whole record, as `OrderStore.update` does, so an older copy written later would undo the newer one. `queueing`,
`asking`, `reading` and `sending` are the places where an app waits: in `queue()` for its reads, for the platform, for the
escrow, for the receiver. The queue is the set of its deliveries and `id` gives their order, since each is appended behind
the last. `Trim` is `appendDeliveries`. A delivery that is delivered and one given up are both finished.

`Get`, `Replace`, `Ready` and `BuildFails` are `StorefrontPool.get` for each request of `Gets`: stop the cached app, wait until
it is idle, build the next one, and take a failed build out of the cache, so that each request that awaited it builds again.
Requests overlap there. Two that find one app changed both stop it and both build, and the app of the first is never
stopped; the same when two awaited a failed build. `overlapped` remembers it, and the properties say what holds until then.
`happened` and `told` are histories of the escrow's events.

Assumptions. A request sees the store as it is: the five seconds for which `lookup` may answer from its cache are left out.
The order is younger than the baseline age at its first escrow read, so it is compared with "held". The
requests an old app is serving have ended when the new one is ready: `idle()` waits for deliveries and escrow reads
only, so a request that lasts longer than the build could still write its copy; see "Known behaviour". A crash between
a shipment's record and its `queue()` loses that event (the code has no memory of it); the properties speak of the
escrow's events, which are one write with the state they report.

### WebhookOutbox

A row is `<event>:<endpoint>` and is queued by the statement that makes the change. A pass (`drainWebhooks`) claims a
batch, which counts the attempt and leases the row, and then sends one at a time; `DeliverOne` is the moment the answer
is marked. Time is relative, in minutes until a row is due, so it has no bound. `overran` remembers that a pass kept a
row past its lease: twenty deliveries of ten seconds may, and then two passes can hold one row. A mark is written whatever
the row has become, so a pass that outlived its lease may take back another's giving up: its own attempt was not the last.
`AttemptsEnd` bounds that as well: with *n* passes it adds at most *n(n - 1)* attempts, since a pass holds a row once.

### TenantPurchase

A request is a process that gives way at each await: idempotency lookup, resolution of mandate and venue, budget, quote,
rail (deploy, persist, claim, fund), balance, payment, purchase record, idempotency record. A request names its intent and
the rail it may deploy. Refusals by venue, scope, mandate or verifier are one choice, since they differ only in their
code. After the door (`sent`) an answer may be lost with the money moved or not. `Die` is a request whose process
stops or whose response cannot be saved: it is "dead" and left nothing to replay.
The rail's on-chain limits are `PolicyRail`'s subject. A tenant has one agent.

### AgentRegistry and ConsentFlow

A tab is a page with at most one request on its way; tabs share the session's rows: the proven wallet, the pending
documents, the prepared writes. Each start makes its own documents. `PrepareAnchor` patches the row as it is at that
moment (`updatePendingConsentSession`), which is not always the row that was read. Challenges are
single-use nonces and are left out. Rows expire at any time (`ExpirePending`, `ExpireWrite`).

Both pages end in `submitSigned` (`registry.ts:396-419`), which takes the write the request names and simulates it again
(`Submit`, `SubmitFails`) and then sends whatever the wallet signed. The code compares that transaction with nothing and reads
its hash, not its result; so it may be the prepared call (`Send`), another call of the registry by any wallet (`SendOther`), or
nothing that took effect (`SendInVain`), and the request goes on to record or to mark the mandate. `SendAnsweredLate` lands and
is answered with an error. `RevokeSubmit` takes any write there is and any mandate of the directory as its URL's, since
the route ties neither to the other (`server.ts:2062-2091`). The pages send back the pair and the transaction they were given
(`consent.html:498-504`, `revocar.html:429-434`), so a request that carries anything else counts as a fault; a transaction
that fails because the call no longer applies when it is sent does not. `astray` are the documents that a request records or
marks beside a transaction that is not theirs or did not take effect, the replaced row of `PrepareAnchor` among them.

## 3. Runs

| Run | Distinct states | What it shows |
|---|---|---|
| `escrow` | 151 thousand | the running total, solvency, single payout, the payment index, one remedy at each instant, fixed terms, refinement of `Custody`; disputes end without store or arbiter; an owed refund is delivered |
| `resolve` | 28 thousand | locks are the open disputes; guarantees are backed; each merchant pays its own; receipts are counted once |
| `rail` | 21 thousand | the daily limit, although its counter expires |
| `store_one_order` | 253 thousand | the store's record is true on the ledger; mark_shipped only after everything left; held before anchored; payments get held; an owed release ends at the store or in a dispute, or every retry is spent, or waits for a restart (`skipped`) |
| `store_pool` | 478 thousand | every payment still to be held is unallocated and there |
| `checkout` | 91 thousand | one charge per checkout; a charged checkout is never payable; completed means its own order is on disk; reservations belong to requests; one platform order per settlement and restart, and a recorded order is never replaced |
| `checkout_cart` | 28 thousand | a settled session can always become an order for its lines at the price paid |
| `order_webhooks` | 467 thousand | until two apps of the store run at once: deliveries in order; each escrow event once; a replaced app writes nothing more from its drain or escrow read; the end is told |
| `outbox` | 184 thousand | a leased row is in one pair of hands; attempts end; every row ends delivered or given up |
| `purchase` | 2.8 million | what was paid stays counted; concurrent purchases stay within the day; only the row's rail is sponsored, and again only after a transfer that landed was answered with an error; a repeated key is replayed |
| `consent` | 560 thousand | what is recorded is anchored by its wallet, and revoked means revoked on chain and active means revocable, unless astray; a session completes once |

One run is expected to fail. It checks a sentence of the repository against the code:

* `shipment_before_hold`: a shipment recorded while the hold is pending leaves `escrowRelease` unset for good, so
  `mark_shipped` is never sent (`ucp/order-events.ts:174`; the sentence is `escrow-release.ts:4-6`).

### Known behaviour

Disagreements between a sentence and the code met while modelling, which the properties above leave room for:

* The last unit. Two requests are quoted with one unit in stock; the first sells it and releases its reservation, the
  second reserves against the stock it was told before, and pays (`ucp/checkout.ts:1036`; `reservations.ts:2-4`).
* A restart between the platform's order and its record lets a retried complete make a second platform order
  (`checkout.ts:542`; `SPEC-agent-storefront.md:229-230`). `OneOrderPerSettlement` allows one more order per restart.
  An order whose answer was lost is made without a recorded number (`PlatformFails`), and `fulfilOrder`, which is not modelled, would make another.
* A GET of a session past its time writes it without the lock (`ReadExpired`) and may save it as canceled while a `complete`
  that began in time is settling (`ucp/checkout.ts:752-753`). `PaidIsNeverPayable` and `CompletedHasItsOrder` hold all the same.
* Repeating an idempotency key while the first request is under way buys twice: the record is written after the purchase
  (`partner-routes.ts:341`; `GUION-PRUEBA-COMPLETA.md:323`). So does a repetition after the 24 hours of the first use, since the
  upsert keeps `created_at`. `RepeatsAreReplayed` excludes exactly these and a request that died with no response recorded.
* `platform/storefronts.ts:76-77` says a replaced app never writes over the orders; this holds for its drains and escrow
  reads (`ReplacedIsIdle`), and not for a request it is still serving. Two requests that both see the change, or both awaited
  a build that failed, both build, and the first one's app keeps running beside the second's (`storefronts.ts:74-84`).
  `overlapped` marks it.
* A rail may be funded twice, although `tenant-rail.ts:228` says "exactly once, ever": a transfer that landed and was answered
  with an error gives the claim back (253-259), and the next purchase funds the rail again. `SponsoredOnce` allows one more
  transfer for each such answer (`lost`), so one with `lost` left out is violated on the run's instance.
* An owed release nobody starts: the shipment is recorded, the save of its webhook throws and `afterShipment` is not called
  (`order-events.ts:198-201`); the order is fulfilled, so the platform is not asked again (224). The next restart resumes it.
  `OwedReleaseHappens` accepts it (`skipped`).
* A consent row replaced by another start between `wallet-consent`'s read and its patch makes `wallet-anchor` record the new
  documents with the old transaction, although they are not anchored (`server.ts:1824`).
* `wallet-anchor` records a mandate whose transaction never took effect: it stopped applying between its simulation and its
  ledger, since its result is not read, or it was another (`registry.ts:396-412`, `server.ts:1855-1889`), although
  `server.ts:1612` says "persist now that both documents are genuinely anchored".
* The revocation page's submit marks the mandate of its URL revoked by whatever was sent: another mandate's write, another
  transaction, one that failed (`server.ts:2086-2091`), although `server.ts:2082-2084` says the contract "refuses it otherwise".
  For these three, `astray` marks the documents, and `RecordedIsAnchored` and `RevocationHolds` speak of all others. With
  `\ astray` left out TLC finds both violated on the run's instance, the first without any fault.
* Two tabs that each finish their own documents record two mandates for one session; the second completion throws and its
  mandate stays, active and revocable (`directory.ts:591`).
* A pass that outlasts its two-minute lease and fails on an attempt that was not the last clears the `gave_up_at` another
  pass wrote since (`directory.ts:1351`); the row is tried again. A host name that fails to resolve is given up at once (`webhook-drain.ts:89-91`).
* Two first requests of a tenant may create two agents (`tenant-agent.ts:77`).

### Bounds and why they are enough

* Escrow: two orders (what one may take from another), two payments, amounts to 2 (so that refunds split), 2 tokens in all
  (one order can be short), time to 4 with windows of one, so that every window opens and closes and late ones saturate. The
  proofs remove the bounds for safety.
* Agent-resolve and its registry: two merchants, two hashes, one more unit of funds than a receipt. Proved for all.
* Rail: days of four of the shortest ledgers, ledgers of 1 to 3, nine units: two days and a bit; a new entry lives one
  ledger, so an unextended counter is lost. Proved for all.
* StoreEscrow: one order with two faults, one restart, two parcels, one retry per step, and time to 2 with windows
  of one, so that a release comes too early and then in time and a dispute is answered and resolved. A dispute that
  expires, at 4, is one more way to be closed for the store (`fromChain` has one case for all of them); the invariants also
  hold with the clock at 4 (949 thousand states). Two orders with one fault for the shared pool. Interactions of orders go only through the signing account and the escrow's balance, which
  `store_pool` has; the rest is per order.
* UcpCheckout: two requests, two sessions and two payments, one failed call, one restart; two units and two prices for
  the cart, chosen so that two carts cost the same. Sessions, requests and payments are symmetric.
* OrderWebhooks: two generations of the app, two requests that may overlap, one crash, change of the store or failed
  build, a queue of one, two attempts, one parcel and a verdict that splits (the one with the most events): the queue is full
  at every second event. `CONSTRAINT Separate` ends a behaviour where two apps run at once, since the properties claim nothing
  from there on. The proofs remove the bounds for safety.
* WebhookOutbox: two overlapping passes of up to two rows, two attempts, one dead pass or lost mark; one mandate and one
  purchase at one endpoint that hears of a revocation and a settlement. `AttemptsEnd` was also checked with three passes,
  where attempts do pass `MaxAttempts + faults + 3`. Proved for all.
* TenantPurchase: three requests with one key against a day that holds two, a reserve that could fund two rails, one fault,
  and the next day. Requests are symmetric.
* ConsentFlow: two tabs, two wallets, two starts, one fault: a request that dies, is answered late, or carries what is not its
  own. Proved for all.

`CHECK_DEADLOCK FALSE` stands where the system may stop: the clock's bound ends a run, every order is closed, or nothing is
owed. The escrow, the rail and agent-resolve check for deadlock, since accounts may always change their trustline or keys.

### Fairness

* Escrow: ledgers close (`WF Tick`). `expire` and `claim_refund` are open to anyone, and the payer wants them:
  `WF Expire`, `SF ClaimRefund`, since a payer may lose and regain its trustline.
* StoreEscrow: the event loop runs what is queued, timers fire, the watcher keeps asking, an answer of the platform is worked
  through (weak fairness of each).
  The signing account's queue is first come, first served, so a job that waits again and again gets its turn: strong
  fairness of `BeginPass` and of the sends. No fairness on failures, crashes, late landings, the platform, or any other party.
  Retries are finite in the code, so the two properties also accept "failed, with every retry spent" on record.
* OrderWebhooks: requests for the store keep coming (a restarted process builds an app only when asked for it), the escrow
  watcher runs every minute, a drain goes on while something is pending, a POST answers or times out: weak fairness of
  the requests' steps in the pool together, and of the apps' reads and deliveries together. None of the shipments, the
  escrow or the merchant.
* WebhookOutbox: a pass starts every 30 seconds whatever the others do, a POST answers or times out, time passes.

## 4. Proofs

| Module | Theorems |
|---|---|
| `PurchaseEscrowProofs` | `TypeCorrect`, `AllocatedIsTheSum`, `AlwaysSolvent`, `NobodyPaidTwice`, `PaymentsAreUnique`, `ImplementsCustody`, `TermsNeverChange`, `RemediesTileTime` |
| `AgentResolveProofs` | `LocksAreExact`, `AlwaysBacked`, `NobodyPaysForAnother`, `VerdictsAreFinal`, `EveryReceiptCountsOnce` |
| `StoreEscrowProofs` | `RecordsAreTrue`, `ShippedOnlyInFull`, `HeldFirst`, `EveryHoldIsFunded`, `StoreObeysTheContract` |
| `UcpCheckoutProofs` | `NeverChargedTwice`, `PaidIsClosed`, `SettlementsAddUp`, `CompletedIsOrdered`, `NothingLeaks`, `SettlementsOrderOnce` |
| `TenantPurchaseProofs` | `NothingPaidIsGivenBack`, `NeverOverTheDay`, `SponsorshipIsBounded`, `KeysAreReplayed`; of the rail it pays from, `NeverOverTheDailyLimit`, `CounterIsTrue` |
| `ConsentFlowProofs` | `DirectoryFollowsTheChain`, `RevocationIsNeverLost`, `SessionsCompleteOnce` |
| `WebhookOutboxProofs` | `LeasesProtect`, `AttemptsAreBounded` |
| `OrderWebhooksProofs` | `DeliveriesInOrder`, `EscrowIsToldOnce`, `ReplacedAppsAreIdle` |

**Sums.** A running total equal to a sum needs facts about sums, and induction over a set is out of the provers' reach.
`Total` is therefore the cardinality of a set of units: unit *i* of entry *e* is `<<e, i>>`. The library's
theorems on finite sets then give `TotalSplits` (one entry against the others) and from it `TotalUpdate` (changing one entry
changes the sum by the difference). The two contracts that keep such totals each have these lemmas in their proofs.

**PurchaseEscrow.** `IInv` joins the type invariant, `WellFormed` (an absent order has no fields set, an open one no
refund), the running total, `allocated <= balance`, `PaidOnce` and the payment index. None is inductive alone: that a
payout leaves the balance at least `allocated` needs the paid order's amount to be part of `allocated`
(`LockedIsAllocated`), which needs the total to be the sum. There is one lemma per action; the three that close a purchase
share `CloseStep`. `ImplementsCustody` maps each action to a step of `Custody` or a stutter. Assumptions: finitely many
orders, the named bounds, positive windows (the constructor's check). `RemediesTileTime` needs that the response deadline is never
after the resolve deadline, which saturation keeps, and for the release that the amount of an open purchase is there
(`LockedIsAllocated` and solvency).

**AgentResolve.** `IInv` joins the three sums with `OverAnchored` (a dispute is over a receipt on record, an open one has
refunded nothing) and `Complete` (a record names a merchant). Resolving needs `AmountIsLocked` and `BalanceIsHeld`: the
amount is in the merchant's lock, the lock in its balance, the balance in what is held. `EveryReceiptCountsOnce` needs of
`IInv` only the types: an anchor adds one hash to exactly one merchant's set, and only a hash not on record.

**PolicyRail** (at the end of `TenantPurchaseProofs`, which extends it beside `TenantPurchase`; that is why its definitions are
`RailInit`, `RailNext`, `RailSpec`). `OutlivesTheDay` is the point: the counter's remaining ledgers are at least the day's remaining time, kept
because no ledger takes less than one unit and every write extends. Assumptions: a new entry is under the threshold
and `Day <= ExtendTo` (`RailAssumption`): the 34,560 ledgers an entry gets (`lib.rs:38, 53`) outlast a day when none takes less than 2.5
seconds. The code counts on five.

**StoreEscrow.** What the workers know is old: a step acts on a purchase it read before an await, and a call may land after
the store gave up on it. The proof rests on facts that only move forward. `Proceeds` says how a purchase
may change once it is there (same terms, no date lost, a release stays) and `LedgerAdvances` that such a change, a late
landing included, keeps the invariant: what was read or is in flight stays true. `IInv` joins
the types, `HoldsStayFunded` and one conjunction per order: nothing is under way for an order that was not placed
(`Fresh`), a purchase is on the store's own terms (`PurchaseAgrees`), the pass and the release step saw what is still so
(`PassAgrees`, `StepAgrees`), whatever supposes that all parcels left is right, calls without an answer included
(`LeftAgrees`), a receipt waits for its hold or for its giving up (`AnchorAgrees`), and the record is true (`RecordAgrees`).
An action touches one order and `Frame` disposes of the others. The funded balance needs the sums: the orders still to be
held are counted, and a hold removes one of them and its price. `StoreObeysTheContract` is the refinement: every step of
the store is a step of `PurchaseEscrow` or leaves its variables alone, so the theorems of `PurchaseEscrowProofs` hold of the
store's ledger. Assumptions: finitely many orders, each its own payment, at a price the escrow accepts, and at least one parcel.

**UcpCheckout.** `IInv` says what a request may rely on at each of its awaits. `Shape` is what a request carries there;
`InStep` is how it stands to its session: until it asks the facilitator nothing was charged, and once it saved, the
stored session is not payable and, if it has a settlement, is the request's own copy. (A GET, which has no lock, can only
turn a session without a settlement into a canceled one.) `SessionAgrees` and `PaymentAgrees` tie sessions,
charges, settlements and orders together; `OneHolder` and `OneCreator` say that a session's lock and a settlement's order
are in one request's hands. `OnlyFor(s)` is the step of a lock's holder: it changes its own session and no other, so each
action is argued for one session and one request. That a charge is never repeated comes from both together: a charged session
is not payable, so only a request that began before the charge could charge again, and the lock leaves no such request;
the one way back to a payable session is a refusal, where nothing moved. `NothingLeaks` is again a matter of cardinalities (`HeldUnits`). Assumptions:
finitely many requests, positive prices, units and amounts, `None` is not a value.

**TenantPurchase.** `IInv` joins `Budgets` (a request on its way to the door has its reservation, and keeps it for good once its payment moved),
the day's sum, `OneRail` and `OneFunding` (every request pays from the row's rail, only that one was funded, and one
transfer at a time is under way), and `Replays` (who was charged, is done and did not die left a response to replay, so two
such requests that may both be charged for one key were under way together).
The day's sum is a cardinality; a grant adds one request and its guard left room for it. Assumptions: finitely many
requests and positive amounts.

**ConsentFlow.** The chain and the directory only grow (`Grows`), so what a tab saw anchored stays so. `RowAgrees` is about the
session's row, `TabAgrees` about what each tab carries from one request to the next, `DirectoryAgrees` about the tables, and
`SessionAgrees` about the completed session. A tab past its send carries documents whose call took effect, unless they are in
`astray`: so the proof shows that the three ways `astray` records (a replaced row, a request whose write, transaction and
mandate do not belong together, a transaction that had no effect) are the only ones by which the directory and the chain
part. The code closes none of them: see "Known behaviour". Assumptions: the
platform's account is no buyer's wallet, `None` is not a value.

**WebhookOutbox.** `InLease` is what holds of a row while no lease has run out: its wait and the claim's lease run down
together, so a held row is not due, and the attempts on the row are those of the pass that holds it. `Ending` is about a row
that has had its last attempt, leases overrun or not. It bounds the attempts made together with those that can still come: one by
each pass that does not hold the row while it is owed (`Free`), and one by every pass each time an early attempt still in
some pass's hands (`Early`) takes the giving up back. A claim uses up a free pass, a late mark uses up an early attempt,
a fault pays for itself, and nothing makes a new early attempt once the row has had its last. `QueuedOnce` is needed so that a
change does not queue over a row in flight. Assumptions: finitely many passes, `None` is not a row, positive limits.

**OrderWebhooks.** `IInv` is two parts. Some of it always holds: the types, an app that does not run has nothing under way, an app
a request waits for was stopped, and what happened in the escrow is what one look at it would tell (`History`). The rest,
`Apart`, holds until two apps overlap: whoever builds is the one cached (`OneBuilder`); an app that is not the cached one was
stopped and has finished (`OthersStopped`); so at most one copy of the order exists and it is the record (`OneCopy`), which is
what makes a write of the whole record safe. On that rest the queue (`QueueOK`: ids are given once, only the first pending was
tried; `SendsNext`: what is being sent is that one) and the telling (`ToldSoFar`, `ReadsCover`). `Telescopes` is the lemma about
`escrowEvents`: the events up to a status and then those from it to a later one are the events up to the later one, whatever
the reads skipped. `OneCopy` is not inductive without `OneBuilder`, nor that without `overlapped`: the replacement of an app
that is no longer the cached one is exactly the step that breaks it. Assumptions: positive limits, the pool's two states are
no apps, `None` is not a value.

`TypeCorrect`, `VerdictsAreFinal`, `CounterIsTrue` and `StoreObeysTheContract` state properties only the proofs cover. Every
inductive invariant was first checked by TLC on the runs' instances.

Only model-checked: the liveness properties (`DisputesEnd`, `OwedRefundsAreDelivered`, `PaymentsGetHeld`, `OwedReleaseHappens`,
`SettledIsTold`, `OwedIsSettled`), since fairness is out of the provers' reach. `OneRemedyAtATime` compares the guards of the
actions; that these, with `PayeeReceives`, are when the actions are enabled was checked by TLC on all states of `escrow`.

## 5. Not modelled, and the plan

Not modelled: parsing, schemas, signatures and document formats (AP2, mandates, receipts, UCP profiles), user interfaces,
command-line tools, demo services and scripts: no protocol state of their own. They are most of the repository's lines, so
the map covers a small share of it and most of the lines that move money or consent. The database and the platforms appear
as what the code in `src/` uses of them. Every part is in `PROJECT.json` with its reason. Also left out: the x402 door's own
handler and `fulfilOrder`, two apps of one store under one checkout, the demo session of the home page (the consent flow's
steps over rows of its own), the vault's hash chain, OAuth tokens of the MCP server.

Order of work; all but the last line are done:

1. `PurchaseEscrow` with `Custody` and proofs; `ReceiptRegistry`, `AgentResolve`, `PolicyRail` with proofs; `StoreEscrow`; `UcpCheckout`.
2. `OrderWebhooks`, `WebhookOutbox`, `TenantPurchase`, `AgentRegistry`, `ConsentFlow`.
3. Proofs for `AgentResolve`'s registry, `StoreEscrow`, `UcpCheckout`, `TenantPurchase` and `ConsentFlow`.
4. Proofs for `WebhookOutbox` and `OrderWebhooks`, and of the escrow's windows.
5. The x402 door and `fulfilOrder` in `UcpCheckout`; overlapping apps of one store beyond the point where they overlap.
