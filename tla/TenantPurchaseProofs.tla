------------------------ MODULE TenantPurchaseProofs ------------------------
(***************************************************************************)
(* The budget, the sponsored rail and the replayed keys of a tenant, for    *)
(* any number of concurrent requests, keys and days and any limits.         *)
(* What a tenant spends in a day is counted twice, by the server's vault    *)
(* and by the contract of the rail it pays from: the limits of PolicyRail   *)
(* are proved in the last part.                                             *)
(***************************************************************************)
EXTENDS TenantPurchase, PolicyRail, FiniteSetTheorems, TLAPS

Outcomes == {None, "refused", "settled", "error"}
(* Where a request has its day's budget reserved and nothing paid. *)
WithBudget == {"preflight", "release", "rail", "deploy", "persist", "claim", "transfer",
               "balance", "pay", "sent"}
(* Where it knows which rail it pays from. *)
WithRail == {"claim", "transfer", "balance", "pay", "sent"}
Over == {"record", "respond", "done", "dead"}
Places == {"new", "context", "authorise"} \cup WithBudget \cup Over

Granted == [state : {"granted"}, day : 0..MaxDay]
Spends == [state : {"granted", "released"}, day : 0..MaxDay]
Responses == [outcome : Outcomes, old : BOOLEAN]

Request == [pc : Places, key : Keys \cup {None}, rail : Requests \cup {None},
            outcome : Outcomes, beside : SUBSET Requests]

TypeOK ==
    /\ req \in [Requests -> Request]
    /\ \A r \in Requests : req[r].pc # "new" => req[r].key \in Keys
    /\ spend \in [Requests -> Spends \cup {None}]
    /\ row \in [contract : Requests \cup {None}, funded : BOOLEAN]
    /\ balance \in [Requests -> Nat]
    /\ reserve \in 0..Reserve
    /\ idem \in [Keys -> Responses \cup {None}]
    /\ day \in 0..MaxDay
    /\ moved \in SUBSET Requests
    /\ lost \in Nat
    /\ faults \in Nat

(* A request on its way to the door has its budget, and keeps it for good
   once its payment moved: only "release" gives it back, and no request past
   the door goes there.                                                     *)
Budgets ==
    /\ \A r \in Requests : req[r].pc \in WithBudget => spend[r] \in Granted
    /\ \A r \in moved : spend[r] \in Granted /\ req[r].pc \in Over

(* Every request pays from the rail of the row, which never changes. *)
OneRail ==
    /\ \A r \in Requests : req[r].pc \in WithRail =>
          row.contract \in Requests /\ req[r].rail = row.contract
    /\ \A r \in Requests : r # row.contract => balance[r] = 0

(* The claim admits one transfer at a time, and a second funding only where
   the first one's answer was lost.                                         *)
OneFunding ==
    /\ \A r, s \in Requests : At(r, "transfer") /\ At(s, "transfer") => r = s
    /\ \A r \in Requests : At(r, "transfer") => row.funded
    /\ Reserve - reserve <= Funding * lost + Funding
    /\ ~row.funded \/ (\E r \in Requests : At(r, "transfer")) =>
          Reserve - reserve <= Funding * lost

(* While the day lasts, whoever was charged and is done left a response to
   replay, so two requests that may both be charged for one key, and did not
   die, were under way together.                                            *)
Charging(r) == req[r].pc # "dead" /\ (r \in moved \/ req[r].pc \notin {"new", "done"})
Beside(r, s) == r = s \/ r \in req[s].beside \/ s \in req[r].beside
Replays ==
    day = 0 =>
        /\ \A k \in Keys : idem[k] # None => ~idem[k].old
        /\ \A r \in moved : At(r, "done") => idem[req[r].key] # None
        /\ \A r, s \in Requests :
              Charging(r) /\ Charging(s) /\ req[r].key = req[s].key => Beside(r, s)

IInv == TypeOK /\ Budgets /\ WithinTheDay /\ OneRail /\ OneFunding /\ Replays

(* A request that ends stays a well-formed one. *)
LEMMA EndsTyped ==
    ASSUME TypeOK, NEW r \in Requests, NEW pc \in Places, NEW outcome \in Outcomes,
           Ends(r, pc, outcome)
    PROVE  req' \in [Requests -> Request]
<1> DEFINE q == [req[r] EXCEPT !.pc = pc]
<1>1. req \in [Requests -> Request] /\ req[r] \in Request
  BY DEF TypeOK
<1>2. q \in Request
  BY <1>1 DEF Request
<1>3. [q EXCEPT !.outcome = outcome] \in Request
  BY <1>2 DEF Request
<1>4. req' = [req EXCEPT ![r] = [q EXCEPT !.outcome = outcome]]
  BY <1>1 DEF Ends
<1> QED BY <1>1, <1>3, <1>4

(* The steps that only move a request on, to a place no better. *)
Ordinary(r) ==
    \/ Resolve(r) \/ Preflight(r) \/ ReleaseFails(r) \/ Deploy(r) \/ CheckBalance(r) \/ Sign(r)
    \/ CreatePurchase(r) \/ CreatePurchaseFails(r) \/ Die(r)
MovesOn(r) ==
    /\ req' \in [Requests -> Request]
    /\ \A x \in Requests \ {r} : req'[x] = req[x]
    /\ \A x \in Requests : /\ req'[x].key = req[x].key /\ req'[x].rail = req[x].rail
                           /\ req'[x].beside = req[x].beside
    /\ req[r].pc # "new" /\ req'[r].pc \notin {"new", "transfer"}
    /\ req'[r].pc \in WithBudget => req[r].pc \in WithBudget
    /\ req'[r].pc \in WithRail => req[r].pc \in WithRail
    /\ req[r].pc \in Over => req'[r].pc \in Over
    /\ req'[r].pc # "done"
    /\ UNCHANGED <<spend, row, balance, reserve, idem, day, moved, lost>>
    /\ faults' \in Nat /\ faults' >= faults

(* The steps that only move one request on. *)
LEMMA OrdinaryMovesOn ==
    ASSUME TypeOK, NEW r \in Requests, Ordinary(r)
    PROVE  MovesOn(r)
<1>3. faults \in Nat /\ req \in [Requests -> Request]
  BY DEF TypeOK
<1> USE <1>3 DEF MovesOn, Request, Places, WithBudget, WithRail, Over, Outcomes, At, tables,
   chain, Go
<1>4. CASE Resolve(r)
  <2>1. req' \in [Requests -> Request]
    BY <1>4, EndsTyped DEF Resolve
  <2> QED BY <1>4, <2>1 DEF Resolve, Ends
<1>5. CASE Preflight(r) \/ Deploy(r) \/ CheckBalance(r) \/ Sign(r) \/ CreatePurchase(r)
  BY <1>5 DEF Preflight, Deploy, CheckBalance, Sign, CreatePurchase
<1>6. CASE ReleaseFails(r) \/ CreatePurchaseFails(r) \/ Die(r)
  <2>1. req' \in [Requests -> Request]
    BY <1>6, EndsTyped DEF ReleaseFails, CreatePurchaseFails, Die
  <2> QED BY <1>6, <2>1 DEF ReleaseFails, CreatePurchaseFails, Die, UnderWay, Fault, Ends
<1> QED BY <1>4, <1>5, <1>6 DEF Ordinary

(* The others stay where they are. *)
LEMMA ReqTyped ==
    ASSUME IInv, NEW r \in Requests, Step(r)
    PROVE  /\ req' \in [Requests -> Request]
           /\ \A x \in Requests : req'[x].pc # "new" => req'[x].key \in Keys
           /\ \A x \in Requests \ {r} : req'[x] = req[x]
<1> DEFINE Good == /\ req' \in [Requests -> Request]
                   /\ \A x \in Requests : req'[x].pc # "new" => req'[x].key \in Keys
                   /\ \A x \in Requests \ {r} : req'[x] = req[x]
<1>1. /\ TypeOK /\ req \in [Requests -> Request]
      /\ \A x \in Requests : req[x].pc # "new" => req[x].key \in Keys
  BY DEF IInv, TypeOK
<1>2. ASSUME NEW k \in Keys, Arrive(r, k) PROVE Good
  <2>1. UnderWay \in SUBSET Requests
    BY DEF UnderWay
  <2>2. Replayed(k) => idem[k].outcome \in Outcomes
    BY <1>1 DEF Replayed, TypeOK, Responses
  <2>3. ASSUME NEW pc \in {"done", "context"}
        PROVE  [[req[r] EXCEPT !.pc = pc] EXCEPT !.key = k] \in Request
    <3>1. [req[r] EXCEPT !.pc = pc] \in Request
      BY <1>1 DEF Request, Places, Over
    <3> QED BY <3>1 DEF Request
  <2>4. req'[r] \in Request /\ req'[r].key = k
    BY <1>1, <1>2, <2>1, <2>2, <2>3 DEF Arrive, Request
  <2> QED BY <1>1, <1>2, <2>4 DEF Arrive
<1>3. CASE Ordinary(r)
  BY <1>1, <1>3, OrdinaryMovesOn DEF MovesOn
<1>4. ASSUME NEW pc \in Places, NEW outcome \in Outcomes, Ends(r, pc, outcome), req[r].pc # "new"
      PROVE  Good
  BY <1>1, <1>4, EndsTyped DEF Ends, Request
<1>5. CASE Release(r) \/ Settle(r) \/ Unconfirmed(r)
  BY <1>4, <1>5 DEF Release, Settle, Unconfirmed, AfterTheDoor, At, Places, Over, Outcomes
<1>6. CASE Authorise(r)
  <2>1. CASE Go(r, "preflight")
    BY <1>1, <1>6, <2>1 DEF Authorise, At, Go, Request, Places, WithBudget
  <2>2. CASE Ends(r, "record", "refused")
    BY <1>4, <1>6, <2>2 DEF Authorise, At, Places, Over, Outcomes
  <2> QED BY <1>6, <2>1, <2>2 DEF Authorise
<1>7. CASE ClaimRailFunding(r) \/ FundRail(r) \/ FundRailFails(r) \/ Respond(r)
  BY <1>1, <1>7 DEF ClaimRailFunding, FundRail, FundRailFails, Respond, At, Go, Request, Places,
                    WithBudget, Over
<1>8. CASE EnsureRail(r)
  <2>1. row.contract \in Requests \cup {None}
    BY <1>1 DEF TypeOK
  <2>2. [req[r] EXCEPT !.rail = row.contract] \in Request
    BY <1>1, <2>1 DEF Request
  <2> QED BY <1>1, <1>8, <2>1, <2>2 DEF EnsureRail, At, Go, Request, Places, WithBudget
<1>9. CASE PersistRail(r)
  <2>1. KeepRail(r) \in Requests \cup {None}
    BY <1>1 DEF TypeOK, KeepRail
  <2>2. [req[r] EXCEPT !.pc = "claim"] \in Request
    BY <1>1 DEF Request, Places, WithBudget
  <2> QED BY <1>1, <1>9, <2>1, <2>2 DEF PersistRail, At, Request
<1> QED BY <1>2, <1>3, <1>5, <1>6, <1>7, <1>8, <1>9 DEF Step, Ordinary

(* Who writes what. *)
LEMMA Writers ==
    ASSUME NEW r \in Requests, Step(r)
    PROVE  /\ UNCHANGED day
           /\ UNCHANGED spend \/ Authorise(r) \/ Release(r)
           /\ UNCHANGED row \/ PersistRail(r) \/ ClaimRailFunding(r) \/ FundRailFails(r)
           /\ UNCHANGED <<balance, reserve, lost>> \/ FundRail(r) \/ FundRailFails(r)
                 \/ Settle(r) \/ Unconfirmed(r)
           /\ UNCHANGED idem \/ Respond(r)
           /\ UNCHANGED moved \/ Settle(r) \/ Unconfirmed(r)
           /\ UNCHANGED faults \/ Fault
<1> USE DEF Step, Arrive, Resolve, Authorise, Preflight, Release, ReleaseFails, EnsureRail, Deploy,
         PersistRail, ClaimRailFunding, FundRail, FundRailFails, CheckBalance, Sign, Settle,
         Unconfirmed, CreatePurchase, CreatePurchaseFails, Respond, Die,
         tables, chain
<1>1. UNCHANGED day /\ (UNCHANGED spend \/ Authorise(r) \/ Release(r))
  OBVIOUS
<1>2. UNCHANGED row \/ PersistRail(r) \/ ClaimRailFunding(r) \/ FundRailFails(r)
  OBVIOUS
<1>3. UNCHANGED <<balance, reserve, lost>> \/ FundRail(r) \/ FundRailFails(r)
         \/ Settle(r) \/ Unconfirmed(r)
  OBVIOUS
<1>4. UNCHANGED idem \/ Respond(r)
  OBVIOUS
<1>5. UNCHANGED moved \/ Settle(r) \/ Unconfirmed(r)
  OBVIOUS
<1>6. UNCHANGED faults \/ Fault
  OBVIOUS
<1> QED BY <1>1, <1>2, <1>3, <1>4, <1>5, <1>6

(* Every step of a request keeps the types. *)
LEMMA TypeKept ==
    ASSUME IInv, NEW r \in Requests, Step(r)
    PROVE  TypeOK'
<1>1. TypeOK /\ Budgets /\ OneRail
  BY DEF IInv
<1> USE <1>1, PurchaseAssumption DEF TypeOK
<1>2. spend' \in [Requests -> Spends \cup {None}]
  <2>1. CASE UNCHANGED spend
    BY <2>1
  <2>2. CASE Authorise(r)
    BY <2>2 DEF Authorise, Spends
  <2>3. CASE Release(r)
    BY <2>3 DEF Release, At, Budgets, WithBudget, Granted, Spends
  <2> QED BY <2>1, <2>2, <2>3, Writers
<1>3. row' \in [contract : Requests \cup {None}, funded : BOOLEAN]
  <2>1. CASE UNCHANGED row
    BY <2>1
  <2>2. CASE PersistRail(r) \/ ClaimRailFunding(r) \/ FundRailFails(r)
    BY <2>2 DEF PersistRail, ClaimRailFunding, FundRailFails
  <2> QED BY <2>1, <2>2, Writers
<1>4. balance' \in [Requests -> Nat] /\ reserve' \in 0..Reserve
  <2> DEFINE Good == balance' \in [Requests -> Nat] /\ reserve' \in 0..Reserve
  <2>1. CASE UNCHANGED <<balance, reserve>>
    BY <2>1
  <2>2. ASSUME req[r].pc \in WithRail PROVE req[r].rail \in Requests
    BY <2>2 DEF OneRail
  <2>3. ASSUME Move(r), At(r, "transfer") PROVE Good
    BY <2>2, <2>3 DEF Move, At, WithRail
  <2>4. ASSUME Pays(r), UNCHANGED reserve, At(r, "sent") PROVE Good
    BY <2>2, <2>4 DEF Pays, At, WithRail
  <2> QED BY <2>1, <2>3, <2>4, Writers DEF FundRail, FundRailFails, Settle, Unconfirmed
<1>5. idem' \in [Keys -> Responses \cup {None}]
  <2>1. CASE UNCHANGED idem
    BY <2>1
  <2>2. CASE Respond(r)
    BY <2>2 DEF Respond, Cached, Responses, Request
  <2> QED BY <2>1, <2>2, Writers
<1>6. day' \in 0..MaxDay /\ moved' \in SUBSET Requests
  <2>1. day' = day
    BY Writers
  <2>2. moved' \in SUBSET Requests
    BY Writers DEF Settle, Unconfirmed, Pays
  <2> QED BY <2>1, <2>2
<1>7. faults' \in Nat
  <2>1. CASE UNCHANGED faults
    BY <2>1
  <2>2. CASE Fault
    BY <2>2 DEF Fault
  <2> QED BY <2>1, <2>2, Writers
<1>8. lost' \in Nat
  <2>1. CASE UNCHANGED lost
    BY <2>1
  <2>2. CASE lost' = lost + 1
    BY <2>2
  <2> QED BY <2>1, <2>2, Writers DEF FundRail, FundRailFails, Settle, Unconfirmed
<1> QED BY <1>2, <1>3, <1>4, <1>5, <1>6, <1>7, <1>8, ReqTyped

(* Where each step that is not ordinary comes from and leads to. *)
Leads(r, from, to) ==
    /\ req[r].pc = from /\ req'[r].pc \in to
    /\ req'[r].key = req[r].key /\ req'[r].beside = req[r].beside

(* Where each step takes its request. *)
LEMMA WhereTo ==
    ASSUME TypeOK, NEW r \in Requests
    PROVE  /\ Authorise(r) => Leads(r, "authorise", {"preflight", "record"})
           /\ Release(r) => Leads(r, "release", {"record"})
           /\ EnsureRail(r) => Leads(r, "rail", {"balance", "claim", "deploy", "release"})
           /\ PersistRail(r) => Leads(r, "persist", {"claim"})
           /\ ClaimRailFunding(r) => Leads(r, "claim", {"balance", "transfer"})
           /\ FundRail(r) => Leads(r, "transfer", {"balance"})
           /\ FundRailFails(r) => Leads(r, "transfer", {"release"})
           /\ Settle(r) => Leads(r, "sent", {"record"})
           /\ Unconfirmed(r) => Leads(r, "sent", {"record"})
           /\ Respond(r) => Leads(r, "respond", {"done"})
           /\ ClaimRailFunding(r) \/ FundRail(r) \/ FundRailFails(r) => req'[r].rail = req[r].rail
<1> USE DEF Leads, At, Go, Ends, TypeOK, Request
<1>1. Authorise(r) => Leads(r, "authorise", {"preflight", "record"})
  BY DEF Authorise
<1>2. Release(r) => Leads(r, "release", {"record"})
  BY DEF Release
<1>3. EnsureRail(r) => Leads(r, "rail", {"balance", "claim", "deploy", "release"})
  BY DEF EnsureRail
<1>4. PersistRail(r) => Leads(r, "persist", {"claim"})
  BY DEF PersistRail
<1>5. ClaimRailFunding(r) => Leads(r, "claim", {"balance",
   "transfer"}) /\ req'[r].rail = req[r].rail
  BY DEF ClaimRailFunding
<1>6. FundRail(r) => Leads(r, "transfer", {"balance"}) /\ req'[r].rail = req[r].rail
  BY DEF FundRail
<1>7. FundRailFails(r) => Leads(r, "transfer", {"release"}) /\ req'[r].rail = req[r].rail
  BY DEF FundRailFails
<1>8. Settle(r) => Leads(r, "sent", {"record"})
  BY DEF Settle
<1>9. Unconfirmed(r) => Leads(r, "sent", {"record"})
  BY DEF Unconfirmed, AfterTheDoor
<1>10. Respond(r) => Leads(r, "respond", {"done"})
  BY DEF Respond
<1> HIDE DEF Leads, At, Go, Ends, TypeOK, Request
<1> QED BY <1>1, <1>2, <1>3, <1>4, <1>5, <1>6, <1>7, <1>8, <1>9, <1>10

(* What is paid or may be paid stays reserved. *)
LEMMA BudgetsKept ==
    ASSUME IInv, NEW r \in Requests, Step(r)
    PROVE  Budgets'
<1>1. TypeOK /\ Budgets /\ moved \in SUBSET Requests
  BY DEF IInv, TypeOK
<1>2. \A x \in Requests \ {r} : req'[x] = req[x]
  BY ReqTyped
<1> USE <1>1, <1>2 DEF Budgets, WithBudget, Over, Leads
<1>3. CASE Ordinary(r)
  BY <1>3, OrdinaryMovesOn DEF MovesOn
<1>4. ASSUME NEW k \in Keys, Arrive(r, k) PROVE Budgets'
  BY <1>4 DEF Arrive, At, chain, TypeOK, Request
<1>5. CASE Authorise(r)
  <2>1. CASE spend' = [spend EXCEPT ![r] = [state |-> "granted", day |-> day]]
    <3>1. spend'[r] \in Granted /\ \A x \in Requests \ {r} : spend'[x] = spend[x]
      BY <2>1 DEF TypeOK, Granted
    <3> QED BY <1>5, <3>1, WhereTo DEF Authorise, chain
  <2>2. CASE UNCHANGED spend /\ Ends(r, "record", "refused")
    <3>1. req'[r].pc = "record"
      BY <2>2 DEF Ends, TypeOK, Request
    <3> QED BY <1>5, <2>2, <3>1, WhereTo DEF Authorise, chain
  <2> QED BY <1>5, <2>1, <2>2 DEF Authorise
<1>6. CASE Release(r)
  <2>1. \A x \in Requests \ {r} : spend'[x] = spend[x]
    BY <1>6 DEF Release, TypeOK
  <2>2. req[r].pc = "release" /\ req'[r].pc = "record" /\ moved' = moved
    BY <1>6, WhereTo DEF Release, chain
  <2>3. r \notin moved
    BY <2>2
  <2> QED BY <2>1, <2>2, <2>3
<1>7. CASE EnsureRail(r) \/ PersistRail(r) \/ ClaimRailFunding(r) \/ FundRail(r) \/ FundRailFails(r)
  <2>1. UNCHANGED <<spend, moved>>
    BY <1>7 DEF EnsureRail, PersistRail, ClaimRailFunding, FundRail, FundRailFails, chain
  <2> QED BY <1>7, <2>1, WhereTo
<1>8. CASE Settle(r) \/ Unconfirmed(r)
  <2>1. UNCHANGED spend /\ moved' \subseteq moved \cup {r}
    BY <1>8 DEF Settle, Unconfirmed, Pays
  <2> QED BY <1>8, <2>1, WhereTo
<1>9. CASE Respond(r)
  <2>1. UNCHANGED <<spend, moved>>
    BY <1>9 DEF Respond, chain
  <2> QED BY <1>9, <2>1, WhereTo
<1> QED BY <1>3, <1>4, <1>5, <1>6, <1>7, <1>8, <1>9 DEF Step, Ordinary

Reserved(d) == {r \in Requests : spend[r] = [state |-> "granted", day |-> d]}

(* A day has finitely many reservations. *)
LEMMA ReservedFinite == \A d : IsFiniteSet(Reserved(d)) /\ Cardinality(Reserved(d)) \in Nat
BY PurchaseAssumption, FS_Subset, FS_CardinalityType DEF Reserved

(* Fewer reservations cost less. *)
LEMMA FewerCostLess ==
    ASSUME NEW m \in Nat, NEW n \in Nat, m <= n
    PROVE  Total * m <= Total * n
BY PurchaseAssumption

(* What the day's decision is taken on is what was reserved. *)
LEMMA SpentIsReserved ==
    ASSUME TypeOK
    PROVE  Spent(day) = Total * Cardinality(Reserved(day))
<1>1. \A r \in Requests : spend[r] \in Spends \cup {None}
  BY DEF TypeOK
<1>2. \A r \in Requests : (spend[r] # None /\ spend[r].day = day /\ spend[r].state = "granted")
                          <=> spend[r] = [state |-> "granted", day |-> day]
  BY <1>1, NoneAssumption DEF Spends, TypeOK
<1>3. {r \in Requests : spend[r] # None /\ spend[r].day = day
                        /\ spend[r].state = "granted"} = Reserved(day)
  BY <1>2 DEF Reserved
<1> QED BY <1>3 DEF Spent

(* authorise looks at the day before it adds to it. *)
LEMMA WithinTheDayKept ==
    ASSUME IInv, NEW r \in Requests, Step(r)
    PROVE  WithinTheDay'
<1>1. TypeOK /\ \A d \in 0..MaxDay : Total * Cardinality(Reserved(d)) <= PerDay
  BY DEF IInv, WithinTheDay, Reserved
<1> SUFFICES ASSUME NEW d \in 0..MaxDay
             PROVE  Total * Cardinality(Reserved(d)') <= PerDay
  BY DEF WithinTheDay, Reserved
<1>2. IsFiniteSet(Reserved(d)) /\ Cardinality(Reserved(d)) \in Nat
  BY ReservedFinite
<1>3. ASSUME Reserved(d)' \subseteq Reserved(d)
      PROVE  Total * Cardinality(Reserved(d)') <= PerDay
  <2>1. Cardinality(Reserved(d)') \in Nat /\ Cardinality(Reserved(d)') <= Cardinality(Reserved(d))
    BY <1>2, <1>3, FS_Subset, FS_CardinalityType
  <2> QED BY <1>1, <1>2, <2>1, FewerCostLess, PurchaseAssumption
<1>4. CASE UNCHANGED spend
  BY <1>3, <1>4 DEF Reserved
<1>5. CASE Release(r)
  BY <1>1, <1>3, <1>5 DEF Release, Reserved, TypeOK
<1>6. CASE Authorise(r) /\ ~UNCHANGED spend
  <2>1. /\ spend' = [spend EXCEPT ![r] = [state |-> "granted", day |-> day]]
        /\ Spent(day) + Total <= PerDay
    BY <1>6 DEF Authorise
  <2>2. CASE d # day
    BY <1>1, <1>3, <2>1, <2>2 DEF Reserved, TypeOK
  <2>3. CASE d = day
    <3>1. Reserved(d)' \subseteq Reserved(d) \cup {r}
      BY <1>1, <2>1, <2>3 DEF Reserved, TypeOK
    <3>2. /\ IsFiniteSet(Reserved(d) \cup {r})
          /\ Cardinality(Reserved(d) \cup {r}) <= Cardinality(Reserved(d)) + 1
      BY <1>2, FS_AddElement
    <3>3. /\ Cardinality(Reserved(d)') \in Nat
          /\ Cardinality(Reserved(d)') <= Cardinality(Reserved(d)) + 1
      BY <1>2, <3>1, <3>2, FS_Subset, FS_CardinalityType
    <3>4. Total * Cardinality(Reserved(d)') <= Total * (Cardinality(Reserved(d)) + 1)
      BY <1>2, <3>3, FewerCostLess
    <3>5. Total * (Cardinality(Reserved(d)) + 1) = Total * Cardinality(Reserved(d)) + Total
      BY <1>2, PurchaseAssumption
    <3>6. Total * Cardinality(Reserved(d)) + Total <= PerDay
      BY <1>1, <2>1, <2>3, SpentIsReserved
    <3> QED BY <1>2, <3>3, <3>4, <3>5, <3>6, PurchaseAssumption
  <2> QED BY <2>2, <2>3
<1> QED BY <1>4, <1>5, <1>6, Writers

(* A rail that was deployed is the one the row names, or is still to be named. *)
LEMMA OneRailKept ==
    ASSUME IInv, NEW r \in Requests, Step(r)
    PROVE  OneRail'
<1>1. TypeOK /\ OneRail
  BY DEF IInv, TypeOK
<1>2. \A x \in Requests \ {r} : req'[x] = req[x]
  BY ReqTyped
<1> USE <1>1, <1>2 DEF OneRail, WithRail, Leads
<1>3. CASE Ordinary(r)
  BY <1>3, OrdinaryMovesOn DEF MovesOn
<1>4. ASSUME NEW k \in Keys, Arrive(r, k) PROVE OneRail'
  BY <1>4 DEF Arrive, At, tables, chain, TypeOK, Request
<1>5. CASE Authorise(r) \/ Release(r) \/ Respond(r)
  <2>1. UNCHANGED <<row, balance>>
    BY <1>5 DEF Authorise, Release, Respond, tables, chain
  <2> QED BY <1>5, <2>1, WhereTo
<1>6. CASE EnsureRail(r)
  <2>1. CASE row.contract # None /\ req'[r].rail = row.contract
    <3>1. row.contract \in Requests
      BY <2>1 DEF TypeOK
    <3> QED BY <1>6, <2>1, <3>1 DEF EnsureRail, tables, chain
  <2>2. CASE req'[r].pc \in {"deploy", "release"}
    BY <1>6, <2>2 DEF EnsureRail, tables, chain
  <2> QED BY <1>6, <2>1, <2>2 DEF EnsureRail, Go, TypeOK, Request
<1>7. CASE PersistRail(r)
  <2>1. /\ row'.contract \in Requests /\ req'[r].rail = row'.contract
        /\ row.contract # None => row'.contract = row.contract
    BY <1>7 DEF PersistRail, KeepRail, TypeOK, Request
  <2>2. UNCHANGED balance
    BY <1>7 DEF PersistRail, chain
  <2> QED BY <2>1, <2>2, NoneAssumption
<1>8. CASE ClaimRailFunding(r)
  <2>1. row'.contract = row.contract /\ UNCHANGED balance
    BY <1>8 DEF ClaimRailFunding, TypeOK, chain
  <2> QED BY <1>8, <2>1, WhereTo
<1>9. CASE FundRail(r) \/ FundRailFails(r)
  <2>1. row'.contract = row.contract
    BY <1>9 DEF FundRail, FundRailFails, tables, TypeOK
  <2>2. \A x \in Requests \ {req[r].rail} : balance'[x] = balance[x]
    BY <1>9 DEF FundRail, FundRailFails, Move, TypeOK
  <2> QED BY <1>9, <2>1, <2>2, WhereTo
<1>10. CASE Settle(r) \/ Unconfirmed(r)
  <2>1. UNCHANGED row
    BY <1>10 DEF Settle, Unconfirmed, tables
  <2>2. \A x \in Requests \ {req[r].rail} : balance'[x] = balance[x]
    BY <1>10 DEF Settle, Unconfirmed, Pays, TypeOK
  <2> QED BY <1>10, <2>1, <2>2, WhereTo
<1> QED BY <1>3, <1>4, <1>5, <1>6, <1>7, <1>8, <1>9, <1>10 DEF Step, Ordinary

(* Adding to a bound keeps it: stated of opaque numbers, for products. *)
LEMMA StillBelow ==
    ASSUME NEW a \in Int, NEW b \in Nat, NEW c \in Nat, a <= b
    PROVE  a <= b + c
OBVIOUS

(* One request at a time is between the claim and the transfer. *)
LEMMA OneFundingKept ==
    ASSUME IInv, NEW r \in Requests, Step(r)
    PROVE  OneFunding'
<1>1. /\ TypeOK /\ OneFunding /\ lost \in Nat /\ Funding \in Nat
      /\ reserve \in Nat /\ Reserve \in Nat /\ row.funded \in BOOLEAN
  BY PurchaseAssumption DEF IInv, TypeOK
<1>2. \A x \in Requests \ {r} : req'[x] = req[x]
  BY ReqTyped
<1>3. Funding * lost \in Nat /\ Funding * (lost + 1) = Funding * lost + Funding
  BY <1>1
<1>4. ASSUME UNCHANGED <<row, reserve, lost>>, req'[r].pc # "transfer"
      PROVE  OneFunding'
  <2>1. \A x \in Requests : At(x, "transfer")' => At(x, "transfer")
    BY <1>2, <1>4 DEF At
  <2> QED BY <1>1, <1>4, <2>1 DEF OneFunding
<1>5. CASE Ordinary(r)
  BY <1>1, <1>4, <1>5, OrdinaryMovesOn DEF MovesOn
<1>6. ASSUME NEW k \in Keys, Arrive(r, k) PROVE OneFunding'
  BY <1>1, <1>4, <1>6 DEF Arrive, tables, chain, TypeOK, Request
<1>7. CASE Authorise(r) \/ Release(r) \/ EnsureRail(r) \/ Settle(r) \/ Unconfirmed(r) \/ Respond(r)
  <2>1. UNCHANGED <<row, reserve, lost>>
    BY <1>7 DEF Authorise, Release, EnsureRail, Settle, Unconfirmed, Respond, tables, chain
  <2> QED BY <1>1, <1>4, <1>7, <2>1, WhereTo DEF Leads
<1>8. CASE PersistRail(r)
  <2>1. UNCHANGED <<reserve, lost>> /\ row'.funded = row.funded
    BY <1>1, <1>8 DEF PersistRail, chain, TypeOK
  <2>2. \A x \in Requests : At(x, "transfer")' => At(x, "transfer")
    BY <1>1, <1>2, <1>8, WhereTo DEF Leads, At
  <2> QED BY <1>1, <2>1, <2>2 DEF OneFunding
<1>9. CASE ClaimRailFunding(r)
  <2>1. UNCHANGED <<reserve, lost>> /\ row'.funded
    BY <1>1, <1>9 DEF ClaimRailFunding, chain, TypeOK
  <2>2. CASE row.funded
    <3>1. req'[r].pc = "balance"
      BY <1>1, <1>9, <2>2 DEF ClaimRailFunding, Go, TypeOK, Request
    <3>2. \A x \in Requests : At(x, "transfer")' => At(x, "transfer")
      BY <1>2, <3>1 DEF At
    <3> QED BY <1>1, <2>1, <2>2, <3>2 DEF OneFunding
  <2>3. CASE ~row.funded
    <3>1. \A x \in Requests : At(x, "transfer")' => x = r
      BY <1>1, <1>2, <2>3 DEF OneFunding, At
    <3> QED BY <1>1, <2>1, <2>3, <3>1 DEF OneFunding
  <2> QED BY <1>1, <2>2, <2>3
<1>10. CASE FundRail(r) \/ FundRailFails(r)
  <2>1. At(r, "transfer") /\ Reserve - reserve <= Funding * lost
    BY <1>1, <1>10 DEF FundRail, FundRailFails, OneFunding
  <2>2. \A x \in Requests : ~At(x, "transfer")'
    BY <1>1, <1>2, <1>10, <2>1, WhereTo DEF Leads, OneFunding, At
  <2>3. CASE FundRail(r)
    <3>1. /\ reserve' = reserve - Funding /\ UNCHANGED <<row, lost>>
          /\ row.funded
      BY <1>1, <2>1, <2>3 DEF FundRail, Move, tables, OneFunding
    <3> QED BY <1>1, <1>3, <2>1, <2>2, <3>1 DEF OneFunding
  <2>4. CASE FundRailFails(r)
    <3>1. \/ reserve' = reserve - Funding /\ lost' = lost + 1
          \/ UNCHANGED <<reserve, lost>>
      BY <2>4 DEF FundRailFails, Move
    <3>2. Reserve - reserve' <= Funding * lost'
      BY <1>1, <1>3, <2>1, <3>1
    <3>3. Funding * lost' \in Nat /\ Reserve - reserve' \in Int /\ Funding \in Nat
      BY <1>1, <1>3, <3>1
    <3>4. Reserve - reserve' <= Funding * lost' + Funding
      BY <3>2, <3>3, StillBelow
    <3> QED BY <2>2, <3>2, <3>4 DEF OneFunding
  <2> QED BY <1>10, <2>3, <2>4
<1> QED BY <1>5, <1>6, <1>7, <1>8, <1>9, <1>10 DEF Step, Ordinary

(* A key that was answered keeps its answer, or its request is still at work. *)
LEMMA ReplaysKept ==
    ASSUME IInv, NEW r \in Requests, Step(r)
    PROVE  Replays'
<1>1. TypeOK /\ Budgets /\ Replays /\ moved \in SUBSET Requests
  BY DEF IInv, TypeOK
<1>2. /\ \A x \in Requests \ {r} : req'[x] = req[x]
      /\ UNCHANGED day
  BY ReqTyped, Writers
<1> SUFFICES ASSUME day' = 0 PROVE Replays'
  BY DEF Replays
<1>3. day = 0
  BY <1>2
<1>4. /\ \A k \in Keys : idem[k] # None => ~idem[k].old
      /\ \A x \in moved : At(x, "done") => idem[req[x].key] # None
      /\ \A x, y \in Requests :
            Charging(x) /\ Charging(y) /\ req[x].key = req[y].key => Beside(x, y)
  BY <1>1, <1>3 DEF Replays
(* A request that goes on, short of its response. *)
<1>5. ASSUME UNCHANGED idem, req[r].pc \notin {"new", "done", "dead"}, req'[r].pc # "done",
             req'[r].key = req[r].key, req'[r].beside = req[r].beside,
             moved' \subseteq moved \cup {r}
      PROVE  Replays'
  <2>1. \A x \in Requests : /\ Charging(x)' => Charging(x)
                            /\ req'[x].key = req[x].key /\ req'[x].beside = req[x].beside
    BY <1>2, <1>5 DEF Charging
  <2>2. \A x \in moved' : At(x, "done")' => x \in moved /\ At(x, "done")
    BY <1>1, <1>2, <1>5 DEF At
  <2> QED BY <1>1, <1>4, <1>5, <2>1, <2>2 DEF Replays, Beside
<1>6. CASE Ordinary(r)
  <2>1. MovesOn(r)
    BY <1>1, <1>6, OrdinaryMovesOn
  <2>2. req[r].pc \notin {"done", "dead"}
    BY <1>6 DEF Ordinary, Resolve, Preflight, ReleaseFails, Deploy, CheckBalance, Sign,
                CreatePurchase, CreatePurchaseFails, Die, UnderWay, At
  <2> QED BY <1>1, <1>3, <1>5, <2>1, <2>2 DEF MovesOn
<1>7. ASSUME NEW k \in Keys, Arrive(r, k) PROVE Replays'
  <2>1. UNCHANGED <<idem, moved>> /\ req[r].pc = "new" /\ r \notin moved
    BY <1>1, <1>7 DEF Arrive, tables, chain, At, Budgets, Over
  <2>2. \A x \in moved' : At(x, "done")' => idem'[req'[x].key] # None
    BY <1>1, <1>2, <1>4, <2>1 DEF At
  <2>3. CASE req'[r].pc = "done"
    <3>1. ~Charging(r)' /\ \A x \in Requests \ {r} : Charging(x)' => Charging(x)
      BY <1>2, <2>1, <2>3 DEF Charging
    <3> QED BY <1>2, <1>4, <2>1, <2>2, <3>1 DEF Replays, Beside
  <2>4. CASE ~Replayed(k) /\ req'[r].key = k /\ req'[r].beside = UnderWay
    <3>1. idem[k] = None
      BY <1>4, <2>4 DEF Replayed
    <3>2. ASSUME NEW x \in Requests \ {r}, Charging(x)', req'[x].key = k
          PROVE  Beside(x, r)' /\ Beside(r, x)'
      <4>1. Charging(x) /\ req[x].key = k
        BY <1>2, <2>1, <3>2 DEF Charging
      <4>2. req[x].pc \notin {"new", "done", "dead"}
        BY <1>1, <1>4, <3>1, <4>1 DEF Charging, At, Budgets, Over
      <4> QED BY <2>4, <4>2 DEF Beside, UnderWay
    <3>3. ASSUME NEW x \in Requests, NEW y \in Requests,
                 Charging(x)', Charging(y)', req'[x].key = req'[y].key
          PROVE  Beside(x, y)'
      <4>1. CASE x = r \/ y = r
        BY <2>4, <3>2, <3>3, <4>1 DEF Beside
      <4>2. CASE x # r /\ y # r
        BY <1>2, <1>4, <2>1, <3>3, <4>2 DEF Beside, Charging
      <4> QED BY <4>1, <4>2
    <3> QED BY <1>4, <2>1, <2>2, <3>3 DEF Replays
  <2> QED BY <1>1, <1>7, <2>3, <2>4 DEF Arrive, TypeOK, Request
<1>8. CASE Authorise(r) \/ Release(r) \/ EnsureRail(r) \/ PersistRail(r) \/ ClaimRailFunding(r)
           \/ FundRail(r) \/ FundRailFails(r) \/ Settle(r) \/ Unconfirmed(r)
  <2>1. UNCHANGED idem
    BY <1>8 DEF Authorise, Release, EnsureRail, PersistRail, ClaimRailFunding, FundRail,
                FundRailFails, Settle, Unconfirmed, tables
  <2>2. moved' \subseteq moved \cup {r}
    BY Writers DEF Settle, Unconfirmed, Pays
  <2> QED BY <1>1, <1>5, <1>8, <2>1, <2>2, WhereTo DEF Leads
<1>9. CASE Respond(r)
  <2>1. Leads(r, "respond", {"done"}) /\ UNCHANGED moved /\ req[r].key \in Keys
    BY <1>1, <1>9, WhereTo DEF Respond, chain, Leads, TypeOK
  <2>2. /\ Cached(r) # None /\ ~Cached(r).old
        /\ idem' = [idem EXCEPT ![req[r].key] = Cached(r)]
    <3>1. Cached(r) \in Responses
      BY <1>1, <2>1 DEF Cached, Responses, TypeOK, Request
    <3>2. ~Cached(r).old
      BY <1>4, <2>1 DEF Cached
    <3> QED BY <1>9, <3>1, <3>2, NoneAssumption DEF Respond, Responses, Outcomes
  <2>3. \A k \in Keys : /\ idem'[k] # None => ~idem'[k].old
                        /\ idem[k] # None => idem'[k] # None
    BY <1>1, <1>4, <2>2 DEF TypeOK
  <2>4. idem'[req[r].key] # None
    BY <1>1, <2>1, <2>2 DEF TypeOK
  <2>5. \A x \in Requests : req'[x].key = req[x].key /\ req'[x].beside = req[x].beside
    BY <1>2, <2>1 DEF Leads
  <2>6. \A x \in moved' : At(x, "done")' => idem'[req'[x].key] # None
    <3>1. \A x \in moved : req[x].key \in Keys
      BY <1>1 DEF TypeOK, Budgets, Over
    <3> QED BY <1>1, <1>2, <1>4, <2>1, <2>3, <2>4, <2>5, <3>1 DEF At
  <2>7. \A x \in Requests : Charging(x)' => Charging(x)
    BY <1>2, <2>1 DEF Charging, Leads
  <2> QED BY <1>4, <2>3, <2>5, <2>6, <2>7 DEF Replays, Beside
<1> QED BY <1>6, <1>7, <1>8, <1>9 DEF Step, Ordinary

(* It holds at the start. *)
LEMMA InitEstablishes == Init => IInv
<1> SUFFICES ASSUME Init PROVE IInv
  OBVIOUS
<1> USE PurchaseAssumption, NoneAssumption DEF Init
<1>1. TypeOK
  BY DEF TypeOK, Request, Places, Outcomes, Spends, Responses
<1>2. Budgets /\ OneRail
  BY DEF Budgets, OneRail, WithBudget, WithRail
<1>3. WithinTheDay
  <2>1. \A d \in 0..MaxDay : [state |-> "granted", day |-> d] # None
    OBVIOUS
  <2>2. \A d \in 0..MaxDay : {r \in Requests : spend[r] = [state |-> "granted", day |-> d]} = {}
    BY <2>1
  <2>3. Total * 0 <= PerDay
    OBVIOUS
  <2> QED BY <2>2, <2>3, FS_EmptySet DEF WithinTheDay
<1>4. OneFunding
  BY DEF OneFunding, At
<1>5. Replays
  BY DEF Replays, Charging
<1> QED BY <1>1, <1>2, <1>3, <1>4, <1>5 DEF IInv

(* A new day only makes answers old. *)
LEMMA NextDayKept == IInv /\ NextDay => IInv'
<1> SUFFICES ASSUME IInv, NextDay PROVE IInv'
  OBVIOUS
<1>1. /\ UNCHANGED <<req, spend, row, purchases, balance, reserve, moved, lost, faults>>
      /\ day' = day + 1 /\ day < MaxDay
      /\ idem' = [k \in Keys |-> IF idem[k] = None THEN None ELSE [idem[k] EXCEPT !.old = TRUE]]
  BY DEF NextDay, chain
<1>2. TypeOK'
  <2>1. idem' \in [Keys -> Responses \cup {None}]
    BY <1>1 DEF IInv, TypeOK, Responses
  <2> QED BY <1>1, <2>1, PurchaseAssumption DEF IInv, TypeOK
<1>3. Budgets' /\ OneRail' /\ OneFunding' /\ WithinTheDay'
  BY <1>1 DEF IInv, Budgets, OneRail, OneFunding, WithinTheDay, At
<1>4. Replays'
  BY <1>1 DEF IInv, TypeOK, Replays
<1> QED BY <1>2, <1>3, <1>4 DEF IInv

(* Every step of the specification keeps the invariant. *)
LEMMA StepPreserves == IInv /\ [Next]_vars => IInv'
<1> SUFFICES ASSUME IInv, [Next]_vars PROVE IInv'
  OBVIOUS
<1>1. ASSUME NEW r \in Requests, Step(r) PROVE IInv'
  BY <1>1, TypeKept, BudgetsKept, WithinTheDayKept, OneRailKept, OneFundingKept,
     ReplaysKept DEF IInv
<1>2. CASE NextDay
  BY <1>2, NextDayKept
<1>3. CASE UNCHANGED vars
  BY <1>3 DEF vars, IInv, TypeOK, Budgets, WithinTheDay, OneRail, OneFunding, Replays, At,
              Charging, Beside
<1> QED BY <1>1, <1>2, <1>3 DEF Next

(* So it holds in every reachable state. *)
LEMMA Invariance == Spec => []IInv
BY InitEstablishes, StepPreserves, PTL DEF Spec

(* A payment that moved stays counted against its day, whichever request died
   or was answered with an error (executeTenantPurchase's one-way door).    *)
THEOREM NothingPaidIsGivenBack == Spec => []PaidIsCounted
<1>1. IInv => PaidIsCounted
  BY NoneAssumption DEF IInv, TypeOK, Budgets, PaidIsCounted, Granted
<1> QED BY <1>1, Invariance, PTL

(* The vault's critical section keeps any number of concurrent purchases
   within each day's limit.                                                 *)
THEOREM NeverOverTheDay == Spec => []WithinTheDay
<1>1. IInv => WithinTheDay
  BY DEF IInv
<1> QED BY <1>1, Invariance, PTL

(* One rail is sponsored, and funded once for each lost answer and once more:
   setAgentPolicyRail and claimRailFunding decide between concurrent first
   purchases.                                                               *)
THEOREM SponsorshipIsBounded == Spec => []SponsoredOnce
<1>1. IInv => SponsoredOnce
  <2> SUFFICES ASSUME IInv PROVE SponsoredOnce
    OBVIOUS
  <2>1. \A r \in Requests : balance[r] > 0 => r = row.contract
    BY DEF IInv, TypeOK, OneRail
  <2>2. Funding * (1 + lost) = Funding * lost + Funding
    BY PurchaseAssumption DEF IInv, TypeOK
  <2>3. Reserve - reserve <= Funding * (1 + lost)
    BY <2>2 DEF IInv, OneFunding
  <2> QED BY <2>1, <2>3 DEF SponsoredOnce
<1> QED BY <1>1, Invariance, PTL

(* A repeated idempotency key is charged again only beside a request under way
   or after one that died, while the record is within its day.              *)
THEOREM KeysAreReplayed == Spec => []RepeatsAreReplayed
<1>1. IInv => RepeatsAreReplayed
  BY DEF IInv, TypeOK, Replays, Charging, Beside, RepeatsAreReplayed, At
<1> QED BY <1>1, Invariance, PTL

-----------------------------------------------------------------------------
(* The rail's own contract: the daily limit holds for any limits, any length
   of a day and any closing times of the ledger.

   In the inductive invariant, the entry of a day in which something was spent
   outlives that day: the ledgers it has left are at least the time the day
   has left, and no ledger takes less than one unit of it.                  *)
OutlivesTheDay == liveUntil[Today] - seq >= Day - (now % Day)

RailInv ==
    /\ RailTypeOK
    /\ DailyLimit
    /\ \A d \in Days : sent[d] = 0 => spent[d] = 0 /\ liveUntil[d] = 0
    /\ \A d \in Days : d > Today => sent[d] = 0
    /\ sent[Today] > 0 => spent[Today] = sent[Today] /\ OutlivesTheDay

(* The day and the time of day. *)
LEMMA DivMod ==
    ASSUME NEW a \in Nat
    PROVE  /\ a \div Day \in 0..a
           /\ a % Day \in 0..(Day - 1)
           /\ a = Day * (a \div Day) + (a % Day)
BY RailAssumption, SMT

(* Every time of the clock is in a day that is counted. *)
LEMMA TodayIsADay ==
    ASSUME NEW t \in 0..MaxTime
    PROVE  t \div Day \in Days /\ t % Day \in 0..(Day - 1)
<1>1. t \in Nat /\ t <= MaxTime /\ MaxTime \in Nat
  BY RailAssumption
<1>2. t \div Day \in 0..t /\ t % Day \in 0..(Day - 1)
  BY <1>1, DivMod
<1>3. t \div Day \in 0..MaxTime
  <2> DEFINE q == t \div Day
  <2>1. q \in 0..t
    BY <1>2
  <2> HIDE DEF q
  <2>2. q \in 0..MaxTime
    BY <1>1, <2>1
  <2> QED BY <2>2 DEF q
<1> QED BY <1>2, <1>3 DEF Days

(* Within one day the remainder grows with the clock. *)
LEMMA SameDay ==
    ASSUME NEW a \in Nat, NEW b \in Nat, a <= b, a \div Day = b \div Day
    PROVE  b % Day = (a % Day) + (b - a)
<1> DEFINE p == Day * (a \div Day)
           ra == a % Day
           rb == b % Day
<1>1. a = p + ra /\ b = p + rb
  BY DivMod
<1>2. p \in Int /\ ra \in Int /\ rb \in Int
  BY DivMod, RailAssumption
<1> HIDE DEF p, ra, rb
<1>3. rb = ra + (b - a)
  BY <1>1, <1>2
<1> QED BY <1>3 DEF ra, rb

(* Days only go on. *)
LEMMA DaysGoOn ==
    ASSUME NEW a \in Nat, NEW b \in Nat, a <= b
    PROVE  a \div Day <= b \div Day
BY DivMod, RailAssumption

(* An entry that outlives its day still counts what moved in it. *)
LEMMA CounterHolds ==
    ASSUME RailInv PROVE CounterIsWhatMoved
<1>1. Today \in Days /\ now % Day \in 0..(Day - 1)
  BY TodayIsADay DEF RailInv, RailTypeOK, Today
<1>2. sent[Today] \in Nat /\ liveUntil[Today] \in Nat /\ seq \in Nat
  BY <1>1 DEF RailInv, RailTypeOK
<1>3. CASE sent[Today] = 0
  BY <1>1, <1>3 DEF RailInv, CounterIsWhatMoved, SpentOn
<1>4. CASE sent[Today] > 0
  BY <1>1, <1>2, <1>4, RailAssumption
     DEF RailInv, CounterIsWhatMoved, SpentOn, OutlivesTheDay
<1> QED BY <1>2, <1>3, <1>4

(* Writing the counter leaves it a life that outlasts the day. *)
LEMMA ExtendedOutlives ==
    ASSUME RailInv
    PROVE  Extended(Today) \in Nat /\ Extended(Today) - seq >= Day - (now % Day)
<1>1. Today \in Days /\ now % Day \in 0..(Day - 1)
  BY TodayIsADay DEF RailInv, RailTypeOK, Today
<1>2. sent[Today] \in Nat /\ liveUntil[Today] \in Nat /\ seq \in Nat
  BY <1>1 DEF RailInv, RailTypeOK
<1>3. CASE sent[Today] = 0
  BY <1>1, <1>2, <1>3, RailAssumption DEF RailInv, Extended
<1>4. CASE sent[Today] > 0
  BY <1>1, <1>2, <1>4, RailAssumption DEF RailInv, Extended, OutlivesTheDay
<1> QED BY <1>2, <1>3, <1>4

(* Nothing is spent at first. *)
LEMMA RailStarts ==
    ASSUME RailInit PROVE RailInv
<1>1. RailTypeOK
  BY RailAssumption DEF RailInit, RailTypeOK, Days
<1>2. Today \in Days
  BY <1>1, TodayIsADay DEF RailTypeOK, Today
<1> QED BY <1>1, <1>2, RailAssumption DEF RailInit, RailInv, DailyLimit, Days

(* A payment is checked against, and added to, what really moved. *)
LEMMA RailSpends ==
    ASSUME RailInv, NEW key \in RailKeys, NEW amount \in 0..MaxFunds,
           Spend(key, amount)
    PROVE  RailInv'
<1>1. Today \in Days /\ Today' = Today /\ now' % Day = now % Day
  BY TodayIsADay DEF RailInv, RailTypeOK, Spend, Debit, clock, Today
<1>2. /\ SpentOn(Today) = sent[Today]
      /\ sent[Today] \in Nat /\ amount \in Nat \ {0}
  BY <1>1, CounterHolds, RailAssumption
     DEF CounterIsWhatMoved, RailInv, RailTypeOK, Spend
<1>3. /\ sent' = [sent EXCEPT ![Today] = sent[Today] + amount]
      /\ spent' = [spent EXCEPT ![Today] = sent[Today] + amount]
      /\ liveUntil' = [liveUntil EXCEPT ![Today] = Extended(Today)]
      /\ sent[Today] + amount <= RailPerDay
      /\ UNCHANGED <<now, seq, owner, funded, returned>>
      /\ railBalance' = railBalance - amount /\ amount <= railBalance
  BY <1>2 DEF Spend, Debit, clock
<1>4. Extended(Today) \in Nat /\ Extended(Today) - seq >= Day - (now % Day)
  BY ExtendedOutlives
<1>5. RailTypeOK'
  BY <1>1, <1>2, <1>3, <1>4 DEF RailInv, RailTypeOK
<1>6. DailyLimit'
  BY <1>1, <1>2, <1>3 DEF RailInv, RailTypeOK, DailyLimit
<1>7. \A d \in Days : sent'[d] = 0 => spent'[d] = 0 /\ liveUntil'[d] = 0
  BY <1>1, <1>2, <1>3 DEF RailInv, RailTypeOK
<1>8. \A d \in Days : d > Today' => sent'[d] = 0
  BY <1>1, <1>2, <1>3 DEF RailInv, RailTypeOK, Days
<1>9. spent'[Today'] = sent'[Today'] /\ OutlivesTheDay'
  BY <1>1, <1>3, <1>4 DEF RailInv, RailTypeOK, OutlivesTheDay
<1> QED BY <1>5, <1>6, <1>7, <1>8, <1>9 DEF RailInv

(* A ledger closes: within the day the entry ages no faster than the day, and
   a new day starts with nothing spent.                                     *)
LEMMA LedgerCloses ==
    ASSUME RailInv, NEW time \in 1..MaxClose, Close(time)
    PROVE  RailInv'
<1>1. /\ now \in Nat /\ now' = now + time /\ now' \in 0..MaxTime /\ time \in Nat \ {0}
      /\ seq \in Nat /\ seq' = seq + 1
      /\ UNCHANGED <<owner, railBalance, spent, liveUntil, funded, sent, returned>>
  BY RailAssumption DEF RailInv, RailTypeOK, Close
<1>2. RailTypeOK'
  BY <1>1 DEF RailInv, RailTypeOK
<1>3. Today \in Days /\ Today' \in Days
  BY <1>1, <1>2, TodayIsADay DEF RailInv, Today, RailTypeOK
<1>4. Today <= Today'
  BY <1>1, DaysGoOn DEF Today
<1>5. DailyLimit' /\ \A d \in Days : sent'[d] = 0 => spent'[d] = 0 /\ liveUntil'[d] = 0
  BY <1>1 DEF RailInv, DailyLimit
<1>6. \A d \in Days : d > Today' => sent'[d] = 0
  BY <1>1, <1>3, <1>4 DEF RailInv, Days
<1>7. ASSUME sent'[Today'] > 0
      PROVE  spent'[Today'] = sent'[Today'] /\ OutlivesTheDay'
  <2>1. Today' = Today
    BY <1>1, <1>3, <1>4, <1>7 DEF RailInv, Days
  <2>2. now' % Day = (now % Day) + time
    <3>1. now' \in Nat /\ now <= now' /\ now' - now = time
      BY <1>1
    <3>2. now \div Day = now' \div Day
      BY <2>1 DEF Today
    <3>3. now' % Day = (now % Day) + (now' - now)
      BY <1>1, <3>1, <3>2, SameDay
    <3> QED BY <3>1, <3>3
  <2>3. spent[Today] = sent[Today] /\ liveUntil[Today] - seq >= Day - (now % Day)
    BY <1>1, <1>7, <2>1 DEF RailInv, OutlivesTheDay
  <2>4. liveUntil[Today] \in Nat /\ now % Day \in Nat
    BY <1>3, TodayIsADay, RailAssumption DEF RailInv, RailTypeOK
  <2>5. liveUntil[Today] - (seq + 1) >= Day - ((now % Day) + time)
    BY <1>1, <2>3, <2>4, RailAssumption
  <2> QED BY <1>1, <2>1, <2>2, <2>3, <2>5 DEF OutlivesTheDay
<1> QED BY <1>2, <1>5, <1>6, <1>7 DEF RailInv

(* Steps that touch neither the clock nor what was spent. *)
LEMMA RailOtherSteps ==
    ASSUME RailInv,
           \/ \E amount \in 0..MaxFunds : Withdraw(amount) \/ Fund(amount)
           \/ \E key \in RailKeys : SetOwner(key)
           \/ UNCHANGED railVars
    PROVE  RailInv'
<1>1. UNCHANGED <<now, seq, spent, liveUntil, sent>>
  BY DEF Withdraw, Fund, SetOwner, railVars, clock
<1>2. RailTypeOK'
  BY RailAssumption
     DEF RailInv, RailTypeOK, Withdraw, Fund, SetOwner, railVars, clock
<1> QED BY <1>1, <1>2 DEF RailInv, DailyLimit, Today, OutlivesTheDay

(* Every step of the contract keeps the invariant. *)
LEMMA RailStep ==
    ASSUME RailInv, [RailNext]_railVars PROVE RailInv'
BY RailSpends, LedgerCloses, RailOtherSteps DEF RailNext

(* So it holds in every reachable state. *)
LEMMA RailInvariance == RailSpec => []RailInv
<1>1. RailInit => RailInv
  BY RailStarts
<1>2. RailInv /\ [RailNext]_railVars => RailInv'
  BY RailStep
<1> QED BY <1>1, <1>2, PTL DEF RailSpec

(* The delegated key of a policy-rail never moves more than per_day in a UTC
   day, as long as ExtendTo ledgers outlast a day.                          *)
THEOREM NeverOverTheDailyLimit == RailSpec => []DailyLimit
<1>1. RailInv => DailyLimit
  BY DEF RailInv
<1>2. RailSpec => []RailInv
  BY RailInvariance
<1> QED BY <1>1, <1>2, PTL

(* What spent_on answers for today is what really moved today. *)
THEOREM CounterIsTrue == RailSpec => []CounterIsWhatMoved
<1>1. RailInv => CounterIsWhatMoved
  BY CounterHolds
<1>2. RailSpec => []RailInv
  BY RailInvariance
<1> QED BY <1>1, <1>2, PTL
=============================================================================
