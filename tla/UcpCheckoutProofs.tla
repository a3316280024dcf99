------------------------- MODULE UcpCheckoutProofs --------------------------
(***************************************************************************)
(* One charge and one order per checkout, for any number of requests,       *)
(* sessions, payments, prices, failures and restarts.                       *)
(***************************************************************************)
EXTENDS UcpCheckout, FiniteSetTheorems, TLAPS

(* Where a request is, by what it has done. *)
Quoting == {"asked", "answered"}
Paying == {"begin", "settle", "refused", "unknown", "settled"}
Ordering == {"order", "waiting", "creating", "recording", "replaying", "close"}
Places == {"idle", "cancel"} \cup Quoting \cup Paying \cup Ordering
Saved == (Paying \ {"begin"}) \cup Ordering
Uncharged == Quoting \cup {"begin", "settle", "refused"}
Unordered == Quoting \cup Paying

Request ==
    [op : {"none", "get", "cancel", "refresh", "complete"}, at : Places,
     session : Sessions \cup {None}, payment : Payments \cup {None},
     copy : CheckoutSession \cup {None}, seen : Nat, stock : 0..Stock, price : Prices \cup {0},
     holds : 0..Stock]

TypeOK ==
    /\ stored \in [Sessions -> CheckoutSession \cup {None}]
    /\ disk \in [Payments -> OrderRecord \cup {None}]
    /\ orders \in [Payments -> OrderRecord \cup {None}]
    /\ reserved \in Nat
    /\ req \in [Requests -> Request]
    /\ stock \in 0..Stock
    /\ price \in Prices
    /\ platformOrders \in [Payments -> Nat]
    /\ crashes \in Nat

(* The offer kept with a session: the price of its lines is what it asks for. *)
Quoted(ses) ==
    ses.quote # None /\ ses.quote.units = ses.units /\ ses.requirements = Total(ses.quote)
Consistent(ses) ==
    /\ ses.quote # None /\ ses.requirements # 0 => ses.requirements = Total(ses.quote)
    /\ ses.status = "ready_for_complete" => Quoted(ses)
    /\ ses.status \in Live \cup {"canceled"} => ses.settlement = None
    /\ ses.status = "completed" => ses.settlement # None
    /\ ses.settlement # None => Quoted(ses) /\ ses.requirements = Amount[ses.settlement]

OfSession(p, s) == orders[p] # None /\ orders[p].session = s

(* What a request carries. *)
Shape(r) ==
    /\ At(r, "idle") => req[r].op = "none" /\ req[r].holds = 0
    /\ ~At(r, "idle") => req[r].session \in Sessions /\ req[r].copy \in CheckoutSession
    /\ At(r, "cancel") => /\ req[r].op \in {"get", "cancel"}
                          /\ req[r].copy.status = "canceled" /\ Consistent(req[r].copy)
    /\ req[r].at \in Quoting =>
          /\ req[r].op \in {"refresh", "complete"} /\ req[r].holds = 0
          /\ req[r].copy.settlement = None
          /\ req[r].copy.quote # None /\ req[r].copy.requirements # 0 =>
                req[r].copy.requirements = Total(req[r].copy.quote)
          /\ req[r].op = "complete" => req[r].payment \in Payments /\ Quoted(req[r].copy)
    /\ At(r, "answered") => req[r].price \in Prices
    /\ req[r].at \in Paying \cup Ordering =>
          /\ req[r].op = "complete" /\ req[r].payment \in Payments
          /\ req[r].copy.status = "complete_in_progress" /\ Quoted(req[r].copy)
          /\ req[r].copy.requirements = Amount[req[r].payment]
          /\ req[r].copy.settlement = IF req[r].at \in Paying THEN None ELSE req[r].payment

(* How it stands to what is saved, charged and ordered for its session. *)
InStep(r) ==
    /\ req[r].at \in Saved =>
          /\ stored[req[r].session] # None
          /\ stored[req[r].session].status \notin Live
          /\ stored[req[r].session].settlement # None => stored[req[r].session] = req[r].copy
    /\ req[r].at \in Uncharged => \A p \in Payments : <<req[r].session, p>> \notin charged
    /\ req[r].at \in Unordered => \A p \in Payments : ~OfSession(p, req[r].session)
    /\ req[r].at \in Ordering /\ OfSession(req[r].payment, req[r].session) =>
          orders[req[r].payment].units = req[r].copy.units
    /\ req[r].at \in {"recording", "replaying", "close"} => orders[req[r].payment] # None
    /\ At(r, "close") => disk[req[r].payment] # None
                           /\ disk[req[r].payment].session = req[r].session

(* A session in the database. *)
SessionAgrees(s) ==
    /\ stored[s] # None => Consistent(stored[s])
    /\ \A p \in Payments : <<s, p>> \in charged \/ OfSession(p, s) =>
          stored[s] # None /\ stored[s].status \notin Live
    /\ \A p, q \in Payments : <<s, p>> \in charged /\ <<s, q>> \in charged => p = q
    /\ stored[s] # None /\ stored[s].settlement # None /\ OfSession(stored[s].settlement, s) =>
          orders[stored[s].settlement].units = stored[s].units
    /\ stored[s] # None /\ stored[s].status = "completed" =>
          disk[stored[s].settlement] # None /\ disk[stored[s].settlement].session = s

(* What memory knows, the database and the platform. *)
PaymentAgrees(p) ==
    /\ disk[p] # None => orders[p] = disk[p]
    /\ orders[p] = None => platformOrders[p] <= crashes
    /\ platformOrders[p] <= 1 + crashes

(* deps.inFlight: of the requests that hold a session's lock there is one. *)
Holds(r) == req[r].op \notin {"none", "get"}
OneHolder ==
    \A r, q \in Requests : Holds(r) /\ Holds(q) /\ req[r].session = req[q].session => r = q

(* ordersInFlight: of the requests that create a payment's order there is one. *)
Creates(r) == req[r].at \in {"creating", "recording"}
OneCreator ==
    \A r \in Requests :
        /\ At(r, "creating") =>
              /\ orders[req[r].payment] = None
              /\ \A q \in Requests : Creates(q) /\ req[q].payment = req[r].payment => q = r
        /\ At(r, "waiting") =>
              \/ orders[req[r].payment] # None
              \/ \E q \in Requests : Creates(q) /\ req[q].payment = req[r].payment

IInv ==
    /\ TypeOK
    /\ \A r \in Requests : Shape(r) /\ InStep(r)
    /\ \A s \in Sessions : SessionAgrees(s)
    /\ \A p \in Payments : PaymentAgrees(p)
    /\ OneHolder /\ OneCreator /\ HeldByRequests

-----------------------------------------------------------------------------
(* A step of the request that holds a session's lock changes what is saved,
   charged and ordered for that session, and adds to what is recorded.      *)
OnlyFor(s) ==
    /\ \A c \in Sessions \ {s} :
          /\ stored'[c] = stored[c]
          /\ \A p \in Payments : <<c, p>> \in charged' => <<c, p>> \in charged
    /\ \A p \in Payments :
          /\ orders[p] # None => orders'[p] = orders[p]
          /\ orders[p] = None /\ orders'[p] # None => orders'[p].session = s
          /\ disk[p] # None => disk'[p] = disk[p]

Elsewhere(x, s) == req[x].at \in {"idle", "cancel"} \/ req[x].session # s

(* A request that does not move keeps its shape, ... *)
LEMMA ShapeStays ==
    ASSUME NEW x \in Requests, Shape(x), req'[x] = req[x]
    PROVE  Shape(x)'
BY DEF Shape, At, Consistent

(* ... and stays in step when another session changes. *)
LEMMA OthersInStep ==
    ASSUME NEW s \in Sessions, OnlyFor(s), NEW x \in Requests, Shape(x), InStep(x),
           req'[x] = req[x], Elsewhere(x, s)
    PROVE  InStep(x)'
<1>1. CASE req[x].at \in {"idle", "cancel"}
  BY <1>1 DEF InStep, At, Saved, Uncharged, Unordered, Ordering, Quoting, Paying
<1>2. CASE req[x].at \notin {"idle", "cancel"}
  <2>1. req[x].session \in Sessions \ {s}
    BY <1>2 DEF Elsewhere, Shape, At
  <2>2. \A p \in Payments : OfSession(p, req[x].session)' => OfSession(p, req[x].session)
    BY <2>1 DEF OnlyFor, OfSession
  <2>3. req[x].at \in Ordering => req[x].payment \in Payments
    BY DEF Shape
  <2>4. {"recording", "replaying", "close"} \subseteq Ordering
    BY DEF Ordering
  <2>5. req'[x].at \in Saved =>
          /\ stored'[req'[x].session] # None
          /\ stored'[req'[x].session].status \notin Live
          /\ stored'[req'[x].session].settlement # None => stored'[req'[x].session] = req'[x].copy
    BY <2>1 DEF InStep, OnlyFor
  <2>6. req'[x].at \in Uncharged => \A p \in Payments : <<req'[x].session, p>> \notin charged'
    BY <2>1 DEF InStep, OnlyFor
  <2>7. req'[x].at \in Unordered => \A p \in Payments : ~OfSession(p, req[x].session)'
    BY <2>2 DEF InStep
  <2>8. req'[x].at \in Ordering /\ OfSession(req[x].payment, req[x].session)' =>
          orders'[req'[x].payment].units = req'[x].copy.units
    BY <2>2, <2>3 DEF InStep, OnlyFor, OfSession
  <2>9. req'[x].at \in {"recording", "replaying", "close"} => orders'[req'[x].payment] # None
    BY <2>3, <2>4 DEF InStep, OnlyFor
  <2>10. At(x, "close")' => disk'[req'[x].payment] # None
                           /\ disk'[req'[x].payment].session = req'[x].session
    BY <2>3, <2>4 DEF InStep, OnlyFor, At
  <2> QED BY <2>5, <2>6, <2>7, <2>8, <2>9, <2>10 DEF InStep
<1> QED BY <1>1, <1>2

(* A step for one session leaves the others in order. *)
LEMMA OthersAgree ==
    ASSUME TypeOK, NEW s \in Sessions, OnlyFor(s), NEW c \in Sessions \ {s}, SessionAgrees(c)
    PROVE  SessionAgrees(c)'
<1>1. stored'[c] = stored[c] /\ \A p \in Payments : <<c, p>> \in charged' => <<c, p>> \in charged
  BY DEF OnlyFor
<1>2. \A p \in Payments : OfSession(p, c)' => OfSession(p, c) /\ orders'[p] = orders[p]
  BY DEF OnlyFor, OfSession
<1>3. stored[c] # None => stored[c].settlement \in Payments \cup {None}
  BY DEF TypeOK, CheckoutSession
<1>4. stored'[c] # None => Consistent(stored'[c])
  BY <1>1 DEF SessionAgrees
<1>5. \A p \in Payments : <<c, p>> \in charged' \/ OfSession(p, c)' =>
          stored'[c] # None /\ stored'[c].status \notin Live
  BY <1>1, <1>2 DEF SessionAgrees
<1>6. \A p, q \in Payments : <<c, p>> \in charged' /\ <<c, q>> \in charged' => p = q
  BY <1>1 DEF SessionAgrees
<1>7. stored'[c] # None /\ stored'[c].settlement # None /\ OfSession(stored[c].settlement, c)' =>
          orders'[stored'[c].settlement].units = stored'[c].units
  BY <1>1, <1>2, <1>3 DEF SessionAgrees
<1>8. stored'[c] # None /\ stored'[c].status = "completed" =>
          disk'[stored'[c].settlement] # None /\ disk'[stored'[c].settlement].session = c
  BY <1>1, <1>3 DEF SessionAgrees, OnlyFor, Consistent
<1> QED BY <1>4, <1>5, <1>6, <1>7, <1>8 DEF SessionAgrees, Consistent

-----------------------------------------------------------------------------
(* Reservations. *)

(* Disjoint sets add up. *)
LEMMA DisjointUnion ==
    ASSUME NEW S, IsFiniteSet(S), NEW T, IsFiniteSet(T), S \cap T = {}
    PROVE  Cardinality(S \cup T) = Cardinality(S) + Cardinality(T)
<1>1. Cardinality(S) \in Nat /\ Cardinality(T) \in Nat
  BY FS_CardinalityType
<1>2. Cardinality(S \cap T) = 0
  BY FS_EmptySet
<1>3. Cardinality(S \cup T) = Cardinality(S) + Cardinality(T) - Cardinality(S \cap T)
  BY FS_Union
<1> QED BY <1>1, <1>2, <1>3

(* Requests hold finitely many units. *)
LEMMA HeldFinite ==
    ASSUME NEW rs \in SUBSET Requests
    PROVE  IsFiniteSet(HeldUnits(rs)) /\ HeldBy(rs) \in Nat
<1>1. IsFiniteSet(1..Stock) /\ IsFiniteSet(rs)
  BY CheckoutAssumption, FS_Interval, FS_Subset
<1>2. IsFiniteSet(rs \X (1..Stock))
  BY <1>1, FS_Product
<1>3. HeldUnits(rs) \subseteq rs \X (1..Stock)
  BY DEF HeldUnits
<1> QED BY <1>2, <1>3, FS_Subset, FS_CardinalityType DEF HeldBy

(* Nothing is reserved or given back when no request holds more or less. *)
LEMMA HeldStays ==
    ASSUME HeldByRequests, UNCHANGED reserved, \A x \in Requests : req'[x].holds = req[x].holds
    PROVE  HeldByRequests'
<1>1. HeldUnits(Requests)' = HeldUnits(Requests)
  BY DEF HeldUnits
<1> QED BY <1>1 DEF HeldByRequests, HeldBy

(* The requests that end give back what they held, and the others keep it. *)
LEMMA HeldEnds ==
    ASSUME TypeOK, HeldByRequests, NEW rs \in SUBSET Requests, Ends(rs)
    PROVE  HeldByRequests' /\ reserved' \in Nat
<1> DEFINE rest == Requests \ rs
<1>1. HeldUnits(Requests) = HeldUnits(rs) \cup HeldUnits(rest)
  BY DEF HeldUnits
<1>2. HeldUnits(rs) \cap HeldUnits(rest) = {}
  BY DEF HeldUnits
<1>3. Cardinality(HeldUnits(Requests)) = Cardinality(HeldUnits(rs)) + Cardinality(HeldUnits(rest))
  BY <1>1, <1>2, HeldFinite, DisjointUnion
<1>4. HeldUnits(Requests)' = HeldUnits(rest)
  <2>1. \A x \in Requests : req'[x].holds = IF x \in rs THEN 0 ELSE req[x].holds
    BY DEF Ends, Idle, Serving
  <2>2. \A u \in Requests \X (1..Stock) :
            u[2] <= req'[u[1]].holds <=> u[1] \notin rs /\ u[2] <= req[u[1]].holds
    BY <2>1, CheckoutAssumption
  <2> QED BY <2>2 DEF HeldUnits
<1>5. Cardinality(HeldUnits(rs)) \in Nat /\ Cardinality(HeldUnits(rest)) \in Nat
  BY HeldFinite DEF HeldBy
<1>6. /\ reserved' = reserved - Cardinality(HeldUnits(rs))
      /\ reserved = Cardinality(HeldUnits(Requests))
  BY DEF Ends, HeldBy, HeldByRequests
<1>7. reserved' = Cardinality(HeldUnits(rest))
  BY <1>3, <1>5, <1>6
<1> QED BY <1>4, <1>5, <1>7 DEF HeldByRequests, HeldBy

(* A reservation adds its units: none of them was held before. *)
LEMMA HeldMore ==
    ASSUME TypeOK, HeldByRequests, NEW r \in Requests, NEW k \in 0..Stock, req[r].holds = 0,
           req'[r].holds = k, reserved' = reserved + k,
           \A x \in Requests \ {r} : req'[x].holds = req[x].holds
    PROVE  HeldByRequests' /\ reserved' \in Nat
<1> DEFINE new == {<<r, i>> : i \in 1..k}
<1>1. HeldUnits(Requests)' = HeldUnits(Requests) \cup new
  <2>1. \A u \in Requests \X (1..Stock) :
            u[2] <= req'[u[1]].holds <=> u \in new \/ u[2] <= req[u[1]].holds
    <3> SUFFICES ASSUME NEW x \in Requests, NEW i \in 1..Stock
                 PROVE  i <= req'[x].holds <=> <<x, i>> \in new \/ i <= req[x].holds
      OBVIOUS
    <3>1. CASE x = r
      BY <3>1, CheckoutAssumption
    <3>2. CASE x # r
      BY <3>2
    <3> QED BY <3>1, <3>2
  <2>2. new \subseteq Requests \X (1..Stock)
    BY CheckoutAssumption
  <2> HIDE DEF new
  <2> QED BY <2>1, <2>2 DEF HeldUnits
<1>2. HeldUnits(Requests) \cap new = {}
  BY CheckoutAssumption DEF HeldUnits
<1>3. IsFiniteSet(new) /\ Cardinality(new) = k
  <2> DEFINE f == [i \in 1..k |-> <<r, i>>]
  <2>1. IsFiniteSet(1..k) /\ Cardinality(1..k) = k
    BY FS_Interval, CheckoutAssumption
  <2>2. f \in Bijection(1..k, new)
    <3>1. f \in [1..k -> new]
      OBVIOUS
    <3>2. IsInjective(f)
      BY DEF IsInjective
    <3>3. \A u \in new : \E i \in 1..k : f[i] = u
      OBVIOUS
    <3> QED BY <3>1, <3>2, <3>3 DEF Bijection, Injection, Surjection
  <2>3. ExistsBijection(1..k, new)
    BY <2>2 DEF ExistsBijection
  <2> QED BY <2>1, <2>3, FS_Bijection
<1>4. IsFiniteSet(HeldUnits(Requests)) /\ Cardinality(HeldUnits(Requests)) \in Nat
  BY HeldFinite DEF HeldBy
<1>5. Cardinality(HeldUnits(Requests) \cup new) = Cardinality(HeldUnits(Requests)) + k
  <2> HIDE DEF new
  <2> QED BY <1>2, <1>3, <1>4, DisjointUnion
<1>6. reserved = Cardinality(HeldUnits(Requests)) /\ k \in Nat
  BY CheckoutAssumption DEF HeldByRequests, HeldBy
<1> QED BY <1>1, <1>4, <1>5, <1>6 DEF HeldByRequests, HeldBy

-----------------------------------------------------------------------------
(* Putting the parts of a step together. *)

(* An idle request has nothing to be in step with. *)
LEMMA IdleAgrees ==
    ASSUME NEW x \in Requests, req'[x] = Idle
    PROVE  Shape(x)' /\ InStep(x)' /\ ~Holds(x)' /\ ~Creates(x)' /\ ~At(x, "waiting")'
BY DEF Idle, Serving, Shape, InStep, Holds, Creates, At, Saved, Uncharged, Unordered, Ordering,
   Quoting, Paying

(* Whoever is neither idle nor cancelling holds the lock of its session. *)
LEMMA Locks ==
    ASSUME NEW x \in Requests, Shape(x), req[x] \in Request, req[x].at \notin {"idle", "cancel"}
    PROVE  Holds(x)
BY DEF Shape, Holds, At, Request, Places

(* A step of the request that holds the lock. *)
LEMMA HolderStep ==
    ASSUME IInv, NEW r \in Requests, NEW s \in Sessions, s = req[r].session, Holds(r), TypeOK',
           OnlyFor(s), \A x \in Requests \ {r} : req'[x] = req[x] \/ req'[x] = Idle,
           Holds(r)' => req'[r].session = s,
           Shape(r)', InStep(r)', SessionAgrees(s)', \A p \in Payments : PaymentAgrees(p)',
           OneCreator', HeldByRequests'
    PROVE  IInv'
<1>1. /\ TypeOK /\ OneHolder /\ \A x \in Requests : Shape(x) /\ InStep(x)
      /\ \A c \in Sessions : SessionAgrees(c)
  BY DEF IInv
<1>2. \A x \in Requests \ {r} : Elsewhere(x, s)
  BY <1>1, Locks DEF Elsewhere, OneHolder, TypeOK
<1>3. \A x \in Requests : Shape(x)' /\ InStep(x)'
  BY <1>1, <1>2, ShapeStays, OthersInStep, IdleAgrees
<1>4. \A c \in Sessions : SessionAgrees(c)'
  BY <1>1, OthersAgree
<1>5. \A x \in Requests : Holds(x)' => Holds(x) /\ req'[x].session = req[x].session
  BY IdleAgrees DEF Holds
<1>6. OneHolder'
  BY <1>1, <1>5 DEF OneHolder
<1> QED BY <1>3, <1>4, <1>6 DEF IInv

(* Steps that leave the orders and their creators alone. *)
InOrder == {"creating", "recording", "waiting"}

(* A step that moves no request into or out of fulfilOrder. *)
LEMMA CreatorsStay ==
    ASSUME OneCreator, UNCHANGED orders,
           \A x \in Requests : req[x].at \in InOrder \/ req'[x].at \in InOrder =>
                                  req'[x].at = req[x].at /\ req'[x].payment = req[x].payment
    PROVE  OneCreator'
BY DEF OneCreator, Creates, At, InOrder

(* Nothing about a settlement changes without an order or a restart. *)
LEMMA PaymentsStay ==
    ASSUME \A p \in Payments : PaymentAgrees(p), UNCHANGED <<orders, disk, platformOrders, crashes>>
    PROVE  \A p \in Payments : PaymentAgrees(p)'
BY DEF PaymentAgrees

(* Steps that change nothing but the request. *)
Shared == <<stored, disk, orders, platformOrders, charged, crashes>>

(* Such a step is in order for every session. *)
LEMMA NothingShared ==
    ASSUME UNCHANGED Shared, NEW s \in Sessions
    PROVE  OnlyFor(s) /\ (SessionAgrees(s) => SessionAgrees(s)')
BY DEF Shared, OnlyFor, SessionAgrees, OfSession, Consistent

(* A request arrives and takes the lock, or only reads. *)
LEMMA ArrivalStep ==
    ASSUME IInv, NEW r \in Requests, NEW s \in Sessions, At(r, "idle"), TypeOK',
           UNCHANGED Shared, UNCHANGED reserved, \A x \in Requests \ {r} : req'[x] = req[x],
           req'[r].session = s, req'[r].holds = 0, req'[r].at \notin InOrder,
           Holds(r)' => ~Locked(s), Shape(r)', InStep(r)'
    PROVE  IInv'
<1>1. /\ TypeOK /\ OneHolder /\ \A x \in Requests : Shape(x) /\ InStep(x)
      /\ \A c \in Sessions : SessionAgrees(c)
      /\ \A p \in Payments : PaymentAgrees(p)
      /\ OneCreator /\ HeldByRequests
  BY DEF IInv
<1>2. ~Holds(r) /\ req[r].holds = 0
  BY <1>1 DEF Shape, Holds
<1>3. \A x \in Requests \ {r} : InStep(x)'
  BY <1>1 DEF InStep, Shared, OfSession, At
<1>4. \A x \in Requests : Shape(x)' /\ InStep(x)'
  BY <1>1, <1>3, ShapeStays
<1>5. \A c \in Sessions : SessionAgrees(c)'
  BY <1>1, NothingShared
<1>6. OneHolder'
  <2>1. \A x \in Requests \ {r} : Holds(x)' <=> Holds(x)
    BY DEF Holds
  <2>2. Holds(r)' => \A x \in Requests \ {r} : Holds(x) => req[x].session # s
    BY DEF Locked, Holds
  <2> QED BY <1>1, <2>1, <2>2 DEF OneHolder
<1>7. OneCreator'
  BY <1>1, CreatorsStay DEF Shared, InOrder, At
<1>8. HeldByRequests'
  BY <1>1, <1>2, HeldStays
<1>9. \A p \in Payments : PaymentAgrees(p)'
  BY <1>1, PaymentsStay DEF Shared
<1> QED BY <1>4, <1>5, <1>6, <1>7, <1>8, <1>9 DEF IInv

-----------------------------------------------------------------------------
(* Requests arrive. *)

Keeps(r) == \A x \in Requests \ {r} : req'[x] = req[x]

(* What a request becomes when it arrives, ... *)
LEMMA BeginMoves ==
    ASSUME TypeOK, NEW r \in Requests, NEW q \in Request, req' = [req EXCEPT ![r] = q]
    PROVE  req' \in [Requests -> Request] /\ Keeps(r) /\ req'[r] = q
BY DEF TypeOK, Keeps

(* ... and when it asks for a quote. *)
LEMMA AsksMoves ==
    ASSUME TypeOK, NEW r \in Requests, NEW op \in {"refresh", "complete"}, NEW s \in Sessions,
           NEW p \in Payments \cup {None}, NEW copy \in CheckoutSession, Asks(r, op, s, p, copy)
    PROVE  /\ TypeOK' /\ Keeps(r) /\ UNCHANGED Shared /\ UNCHANGED reserved
           /\ req'[r].op = op /\ req'[r].at = "asked" /\ req'[r].session = s
           /\ req'[r].payment = p /\ req'[r].copy = copy /\ req'[r].holds = 0
<1> DEFINE q == Serving(op, "asked", s, p, copy, reserved)
<1>1. /\ q \in Request /\ q.op = op /\ q.at = "asked" /\ q.session = s /\ q.payment = p
      /\ q.copy = copy /\ q.holds = 0
  <2>1. "asked" \in Places /\ reserved \in Nat /\ 0 \in 0..Stock
    BY CheckoutAssumption DEF Places, Quoting, TypeOK
  <2> QED BY <2>1 DEF Request, Serving
<1>2. /\ req' = [req EXCEPT ![r] = q]
      /\ UNCHANGED <<stored, disk, orders, stock, platformOrders, reserved, charged, price,
                     crashes>>
  BY DEF Asks, placed, money, outside
<1> HIDE DEF q
<1>3. req' \in [Requests -> Request] /\ Keeps(r) /\ req'[r] = q
  BY <1>1, <1>2, BeginMoves
<1>4. TypeOK'
  BY <1>2, <1>3 DEF TypeOK
<1> QED BY <1>1, <1>2, <1>3, <1>4 DEF Shared

(* A session that can be changed or paid has no charge and no order. *)
LEMMA AsksStep ==
    ASSUME IInv, NEW r \in Requests, NEW op \in {"refresh", "complete"}, NEW s \in Sessions,
           NEW p \in Payments \cup {None}, NEW copy \in CheckoutSession, Asks(r, op, s, p, copy),
           At(r, "idle"), ~Locked(s),
           stored[s] = None \/ stored[s].status \in Live,
           copy.settlement = None,
           copy.quote # None /\ copy.requirements # 0 => copy.requirements = Total(copy.quote),
           op = "complete" => p \in Payments /\ Quoted(copy)
    PROVE  IInv'
<1>1. TypeOK /\ SessionAgrees(s)
  BY DEF IInv
<1>2. /\ TypeOK' /\ Keeps(r) /\ UNCHANGED Shared /\ UNCHANGED reserved
      /\ req'[r].op = op /\ req'[r].at = "asked" /\ req'[r].session = s
      /\ req'[r].payment = p /\ req'[r].copy = copy /\ req'[r].holds = 0
  BY <1>1, AsksMoves
<1>3. Shape(r)'
  BY <1>2 DEF Shape, At, Quoting, Paying, Ordering, Quoted
<1>4. \A q \in Payments : <<s, q>> \notin charged' /\ ~OfSession(q, s)'
  BY <1>1, <1>2 DEF SessionAgrees, Shared, OfSession
<1>5. InStep(r)'
  BY <1>2, <1>4 DEF InStep, At, Saved, Quoting, Paying, Ordering, OfSession
<1> QED BY <1>2, <1>3, <1>5, ArrivalStep DEF Keeps, InOrder

(* create: a new session, before any money. *)
LEMMA OpenStep ==
    ASSUME IInv, NEW r \in Requests, NEW s \in Sessions, NEW units \in Units,
           NEW deliverable \in BOOLEAN, Open(r, s, units, deliverable)
    PROVE  IInv'
<1> DEFINE c == NewSession(units, deliverable)
<1>1. c \in CheckoutSession /\ c.settlement = None /\ c.quote = None
  BY DEF NewSession, CheckoutSession, Statuses
<1>2. At(r, "idle") /\ ~Locked(s) /\ stored[s] = None /\ Asks(r, "refresh", s, None, c)
  BY DEF Open
<1> HIDE DEF c
<1> QED BY <1>1, <1>2, AsksStep

(* update: only what is not being paid for. *)
LEMMA UpdateStep ==
    ASSUME IInv, NEW r \in Requests, NEW s \in Sessions, NEW units \in Units,
           NEW deliverable \in BOOLEAN, Update(r, s, units, deliverable)
    PROVE  IInv'
<1>1. /\ At(r, "idle") /\ ~Locked(s) /\ stored[s] # None /\ stored[s].status \in Live
      /\ Asks(r, "refresh", s, None,
              [stored[s] EXCEPT !.units = units, !.deliverable = deliverable])
  BY DEF Update
<1>2. stored[s] \in CheckoutSession /\ Consistent(stored[s])
  BY <1>1 DEF IInv, TypeOK, SessionAgrees
<1> DEFINE b == [stored[s] EXCEPT !.units = units]
           c == [b EXCEPT !.deliverable = deliverable]
<1>3. /\ b \in CheckoutSession /\ b.settlement = stored[s].settlement
      /\ b.quote = stored[s].quote /\ b.requirements = stored[s].requirements
  BY <1>2 DEF CheckoutSession
<1>4. Asks(r, "refresh", s, None, c)
  BY <1>1
<1>5. /\ c \in CheckoutSession /\ c.settlement = stored[s].settlement
      /\ c.quote = stored[s].quote /\ c.requirements = stored[s].requirements
  <2> HIDE DEF b
  <2> QED BY <1>3 DEF CheckoutSession
<1> HIDE DEF c
<1> QED BY <1>1, <1>2, <1>4, <1>5, AsksStep DEF Consistent

(* complete, before its settlement. *)
LEMMA CompleteUnpaidStep ==
    ASSUME IInv, NEW r \in Requests, NEW s \in Sessions,
           CompleteUnready(r, s) \/ \E p \in Payments : CompleteReady(r, s, p)
    PROVE  IInv'
<1>1. At(r, "idle") /\ ~Locked(s) /\ stored[s] # None /\ stored[s].status \in Live
  BY DEF CompleteUnready, CompleteReady, Live
<1>2. stored[s] \in CheckoutSession /\ Consistent(stored[s])
  BY <1>1 DEF IInv, TypeOK, SessionAgrees
<1>3. CASE CompleteUnready(r, s)
  BY <1>1, <1>2, <1>3, AsksStep DEF CompleteUnready, Consistent
<1>4. ASSUME NEW p \in Payments, CompleteReady(r, s, p) PROVE IInv'
  BY <1>1, <1>2, <1>4, AsksStep DEF CompleteReady, Consistent
<1> QED BY <1>3, <1>4

(* get and cancel close a session no settlement was kept for. *)
LEMMA ClosesStep ==
    ASSUME IInv, NEW r \in Requests, NEW s \in Sessions, NEW op \in {"get", "cancel"},
           Closes(r, op, s), At(r, "idle"), op = "get" \/ ~Locked(s), stored[s] # None,
           stored[s].status \notin {"completed", "complete_in_progress"}
    PROVE  IInv'
<1>1. TypeOK /\ stored[s] \in CheckoutSession /\ Consistent(stored[s])
  BY DEF IInv, TypeOK, SessionAgrees
<1> DEFINE c == [stored[s] EXCEPT !.status = "canceled"]
<1>2. c \in CheckoutSession /\ c.status = "canceled" /\ Consistent(c)
  <2>1. /\ c \in CheckoutSession /\ c.status = "canceled" /\ c.quote = stored[s].quote
        /\ c.requirements = stored[s].requirements /\ c.settlement = stored[s].settlement
    BY <1>1 DEF CheckoutSession, Statuses
  <2>2. stored[s].settlement = None
    BY <1>1 DEF Consistent, CheckoutSession, Statuses, Live
  <2> HIDE DEF c
  <2> QED BY <1>1, <2>1, <2>2 DEF Consistent, Live
<1> HIDE DEF c
<1> DEFINE q == Serving(op, "cancel", s, None, c, 0)
<1>3. /\ q \in Request /\ q.op = op /\ q.at = "cancel" /\ q.session = s
      /\ q.copy = c /\ q.holds = 0
  <2>1. "cancel" \in Places /\ 0 \in 0..Stock
    BY CheckoutAssumption DEF Places
  <2> QED BY <1>2, <2>1 DEF Request, Serving
<1>4. /\ req' = [req EXCEPT ![r] = q]
      /\ UNCHANGED <<stored, disk, orders, stock, platformOrders, reserved, charged, price,
                     crashes>>
  BY DEF Closes, placed, money, outside, c
<1> HIDE DEF q
<1>5. req' \in [Requests -> Request] /\ Keeps(r) /\ req'[r] = q
  BY <1>1, <1>3, <1>4, BeginMoves
<1>6. TypeOK'
  BY <1>1, <1>4, <1>5 DEF TypeOK
<1>7. Shape(r)' /\ InStep(r)'
  BY <1>2, <1>3, <1>5
     DEF Shape, InStep, At, Saved, Uncharged, Unordered, Quoting, Paying, Ordering
<1>8. Holds(r)' => ~Locked(s)
  BY <1>3, <1>5 DEF Holds
<1> QED BY <1>3, <1>4, <1>5, <1>6, <1>7, <1>8, ArrivalStep DEF Keeps, InOrder, Shared

(* The money moved in an earlier attempt: the copy is what was saved then. *)
LEMMA CompletePaidStep ==
    ASSUME IInv, NEW r \in Requests, NEW s \in Sessions, CompletePaid(r, s)
    PROVE  IInv'
<1>1. /\ At(r, "idle") /\ ~Locked(s) /\ stored[s] # None
      /\ stored[s].status = "complete_in_progress" /\ stored[s].settlement # None
  BY DEF CompletePaid
<1>2. /\ TypeOK /\ SessionAgrees(s) /\ stored[s] \in CheckoutSession /\ Consistent(stored[s])
      /\ stored[s].settlement \in Payments
  BY <1>1 DEF IInv, TypeOK, SessionAgrees, CheckoutSession
<1> DEFINE q == Serving("complete", "order", s, stored[s].settlement, stored[s], 0)
<1>3. /\ q \in Request /\ q.op = "complete" /\ q.at = "order" /\ q.session = s
      /\ q.payment = stored[s].settlement /\ q.copy = stored[s] /\ q.holds = 0
  <2>1. "order" \in Places /\ 0 \in 0..Stock
    BY CheckoutAssumption DEF Places, Ordering
  <2> QED BY <1>2, <2>1 DEF Request, Serving
<1>4. /\ req' = [req EXCEPT ![r] = q]
      /\ UNCHANGED <<stored, disk, orders, stock, platformOrders, reserved, charged, price,
                     crashes>>
  BY DEF CompletePaid, placed, money, outside
<1> HIDE DEF q
<1>5. req' \in [Requests -> Request] /\ Keeps(r) /\ req'[r] = q
  BY <1>2, <1>3, <1>4, BeginMoves
<1>6. TypeOK'
  BY <1>2, <1>4, <1>5 DEF TypeOK
<1>7. Shape(r)'
  BY <1>1, <1>2, <1>3, <1>5 DEF Shape, At, Consistent, Quoted, Quoting, Paying, Ordering
<1>8. InStep(r)'
  BY <1>1, <1>2, <1>3, <1>4, <1>5 DEF InStep, SessionAgrees, At, Saved, Uncharged, Unordered,
     Quoting, Paying, Ordering, Live, OfSession
<1> QED BY <1>1, <1>3, <1>4, <1>5, <1>6, <1>7, <1>8, ArrivalStep DEF Keeps, InOrder, Shared

-----------------------------------------------------------------------------
(* Steps of a request under way. *)

(* A request that goes on keeps all it carries. *)
LEMMA GoesMoves ==
    ASSUME TypeOK, NEW r \in Requests, NEW at \in Places, Goes(r, at)
    PROVE  /\ req' \in [Requests -> Request] /\ Keeps(r)
           /\ req'[r].at = at /\ req'[r].op = req[r].op /\ req'[r].session = req[r].session
           /\ req'[r].payment = req[r].payment /\ req'[r].copy = req[r].copy
           /\ req'[r].holds = req[r].holds /\ req'[r].price = req[r].price
<1> DEFINE q == [req[r] EXCEPT !.at = at]
<1>1. req \in [Requests -> Request] /\ req[r] \in Request
  BY DEF TypeOK
<1>2. /\ q \in Request /\ q.at = at /\ q.op = req[r].op /\ q.session = req[r].session
      /\ q.payment = req[r].payment /\ q.copy = req[r].copy
      /\ q.holds = req[r].holds /\ q.price = req[r].price
  BY <1>1 DEF Request
<1>3. req' = [req EXCEPT ![r] = q]
  BY <1>1 DEF Goes
<1> HIDE DEF q
<1> QED BY <1>2, <1>3, BeginMoves

(* A step of a lock holder that changes nothing shared. *)
LEMMA LocalStep ==
    ASSUME IInv, NEW r \in Requests, req[r].session \in Sessions, Holds(r), TypeOK', Keeps(r),
           UNCHANGED Shared, req'[r].session = req[r].session, Shape(r)', InStep(r)',
           OneCreator', HeldByRequests'
    PROVE  IInv'
<1>1. SessionAgrees(req[r].session) /\ \A p \in Payments : PaymentAgrees(p)
  BY DEF IInv
<1>2. PICK s \in Sessions : s = req[r].session
  OBVIOUS
<1>3. OnlyFor(s) /\ SessionAgrees(s)'
  BY <1>1, <1>2, NothingShared
<1>4. \A p \in Payments : PaymentAgrees(p)'
  BY <1>1, PaymentsStay DEF Shared
<1> QED BY <1>2, <1>3, <1>4, HolderStep DEF Keeps

(* What the type and the shape say of a request under way. *)
LEMMA Known ==
    ASSUME IInv, NEW r \in Requests, req[r].at \in Quoting \cup Paying \cup Ordering
    PROVE  /\ TypeOK /\ Shape(r) /\ InStep(r) /\ Holds(r) /\ req[r] \in Request
           /\ req[r].session \in Sessions /\ req[r].copy \in CheckoutSession
           /\ SessionAgrees(req[r].session) /\ OneCreator /\ HeldByRequests
<1>1. TypeOK /\ Shape(r) /\ InStep(r) /\ req[r] \in Request
  BY DEF IInv, TypeOK
<1>2. req[r].at \notin {"idle", "cancel"}
  BY DEF Quoting, Paying, Ordering
<1>3. req[r].session \in Sessions /\ req[r].copy \in CheckoutSession
  BY <1>1, <1>2 DEF Shape, At
<1> QED BY <1>1, <1>2, <1>3, Locks DEF IInv

(* A quote arrives while the session is locked. *)
LEMMA AnswerStep ==
    ASSUME IInv, NEW r \in Requests, Answer(r)
    PROVE  IInv'
<1>1. /\ TypeOK /\ Shape(r) /\ InStep(r) /\ Holds(r) /\ req[r] \in Request /\ OneCreator
      /\ HeldByRequests /\ req[r].at = "asked"
      /\ req[r].session \in Sessions /\ req[r].copy \in CheckoutSession
  BY Known DEF Answer, At, Quoting
<1> DEFINE a == [req[r] EXCEPT !.at = "answered"]
           b == [a EXCEPT !.stock = stock]
           q == [b EXCEPT !.price = price]
<1>2. /\ a \in Request /\ a.at = "answered" /\ a.op = req[r].op /\ a.session = req[r].session
      /\ a.payment = req[r].payment /\ a.copy = req[r].copy /\ a.holds = req[r].holds
  BY <1>1 DEF Request, Places, Quoting
<1>3. /\ b \in Request /\ b.at = "answered" /\ b.op = req[r].op /\ b.session = req[r].session
      /\ b.payment = req[r].payment /\ b.copy = req[r].copy /\ b.holds = req[r].holds
  <2> HIDE DEF a
  <2> QED BY <1>1, <1>2 DEF Request, TypeOK
<1>4. /\ q \in Request /\ q.at = "answered" /\ q.op = req[r].op /\ q.session = req[r].session
      /\ q.payment = req[r].payment /\ q.copy = req[r].copy /\ q.holds = req[r].holds
      /\ q.price \in Prices
  <2> HIDE DEF b
  <2> QED BY <1>1, <1>3 DEF Request, TypeOK
<1>5. /\ req' = [req EXCEPT ![r] = q]
      /\ UNCHANGED <<stored, disk, orders, stock, platformOrders, reserved, charged, price,
                     crashes>>
  BY <1>1 DEF Answer, placed, money, outside, TypeOK
<1> HIDE DEF q
<1>6. req' \in [Requests -> Request] /\ Keeps(r) /\ req'[r] = q
  BY <1>1, <1>4, <1>5, BeginMoves
<1>7. TypeOK'
  BY <1>1, <1>5, <1>6 DEF TypeOK
<1>8. Shape(r)'
  BY <1>1, <1>4, <1>6 DEF Shape, At, Quoting, Paying, Ordering, Quoted
<1>9. InStep(r)'
  BY <1>1, <1>4, <1>5, <1>6 DEF InStep, At, Saved, Uncharged, Unordered, Quoting, Paying, Ordering,
     OfSession
<1>10. OneCreator'
  BY <1>1, <1>4, <1>5, <1>6, CreatorsStay DEF Keeps, InOrder
<1>11. HeldByRequests'
  BY <1>1, <1>4, <1>5, <1>6, HeldStays DEF Keeps
<1> QED BY <1>1, <1>4, <1>5, <1>6, <1>7, <1>8, <1>9, <1>10, <1>11, LocalStep DEF Shared

(* Terms that changed end the request unpaid. *)
LEMMA StaleTermsStep ==
    ASSUME IInv, NEW r \in Requests, StaleTerms(r)
    PROVE  IInv'
<1>1. /\ TypeOK /\ Shape(r) /\ InStep(r) /\ Holds(r) /\ req[r] \in Request /\ OneCreator
      /\ HeldByRequests /\ req[r].at = "answered"
      /\ req[r].session \in Sessions /\ req[r].copy \in CheckoutSession
  BY Known DEF StaleTerms, At, Quoting
<1> DEFINE q == Serving("refresh", "asked", req[r].session, None, req[r].copy, reserved)
<1>2. /\ q \in Request /\ q.op = "refresh" /\ q.at = "asked" /\ q.session = req[r].session
      /\ q.copy = req[r].copy /\ q.holds = 0
  <2>1. "asked" \in Places /\ 0 \in 0..Stock /\ reserved \in Nat
    BY <1>1, CheckoutAssumption DEF Places, Quoting, TypeOK
  <2> QED BY <1>1, <2>1 DEF Request, Serving
<1>3. /\ req' = [req EXCEPT ![r] = q]
      /\ UNCHANGED <<stored, disk, orders, stock, platformOrders, reserved, charged, price,
                     crashes>>
  BY DEF StaleTerms, placed, money, outside
<1> HIDE DEF q
<1>4. req' \in [Requests -> Request] /\ Keeps(r) /\ req'[r] = q
  BY <1>1, <1>2, <1>3, BeginMoves
<1>5. TypeOK'
  BY <1>1, <1>3, <1>4 DEF TypeOK
<1>6. Shape(r)'
  BY <1>1, <1>2, <1>4 DEF Shape, At, Quoting, Paying, Ordering
<1>7. InStep(r)'
  BY <1>1, <1>2, <1>3, <1>4 DEF InStep, At, Saved, Uncharged, Unordered, Quoting, Paying, Ordering,
     OfSession
<1>8. OneCreator'
  BY <1>1, <1>2, <1>3, <1>4, CreatorsStay DEF Keeps, InOrder
<1>9. HeldByRequests'
  <2>1. req[r].holds = 0
    BY <1>1 DEF Shape, Quoting
  <2> QED BY <1>1, <1>2, <1>3, <1>4, <2>1, HeldStays DEF Keeps
<1> QED BY <1>1, <1>2, <1>3, <1>4, <1>5, <1>6, <1>7, <1>8, <1>9, LocalStep DEF Shared

(* A reservation is exactly what the request then holds. *)
LEMMA ReserveStep ==
    ASSUME IInv, NEW r \in Requests, Reserve(r)
    PROVE  IInv'
<1>1. /\ TypeOK /\ Shape(r) /\ InStep(r) /\ Holds(r) /\ req[r] \in Request /\ OneCreator
      /\ HeldByRequests /\ req[r].at = "answered" /\ req[r].op = "complete"
      /\ req[r].session \in Sessions /\ req[r].copy \in CheckoutSession
  BY Known DEF Reserve, At, Quoting
<1>2. /\ req[r].holds = 0 /\ req[r].payment \in Payments /\ Quoted(req[r].copy)
      /\ req[r].copy.requirements = Amount[req[r].payment]
  BY <1>1 DEF Shape, Quoting, Reserve, SignedForThis
<1>3. req[r].copy.units \in 0..Stock
  <2>1. /\ req[r].copy.units \in Nat /\ req[r].stock \in 0..Stock
        /\ reserved \in Nat /\ Stock \in Nat
    BY <1>1, CheckoutAssumption DEF CheckoutSession, Request, TypeOK
  <2>2. req[r].stock - reserved >= req[r].copy.units
    BY DEF Reserve, tryReserve
  <2> QED BY <2>1, <2>2
<1> DEFINE c == InProgress(req[r].copy, req[r].payment)
<1>4. /\ c \in CheckoutSession /\ c.status = "complete_in_progress" /\ c.settlement = None
      /\ c.quote = req[r].copy.quote /\ c.units = req[r].copy.units
      /\ c.requirements = req[r].copy.requirements
  <2> DEFINE a == [req[r].copy EXCEPT !.status = "complete_in_progress"]
             b == [a EXCEPT !.paymentKey = req[r].payment]
  <2>1. /\ a \in CheckoutSession /\ a.status = "complete_in_progress"
        /\ a.quote = req[r].copy.quote /\ a.units = req[r].copy.units
        /\ a.requirements = req[r].copy.requirements
    BY <1>1 DEF CheckoutSession, Statuses
  <2>2. /\ b \in CheckoutSession /\ b.status = "complete_in_progress"
        /\ b.quote = req[r].copy.quote /\ b.units = req[r].copy.units
        /\ b.requirements = req[r].copy.requirements
    <3> HIDE DEF a
    <3> QED BY <1>2, <2>1 DEF CheckoutSession
  <2>3. c = [b EXCEPT !.settlement = None]
    BY DEF InProgress
  <2> HIDE DEF b
  <2> QED BY <2>2, <2>3 DEF CheckoutSession
<1> HIDE DEF c
<1> DEFINE a == Serving("complete", "begin", req[r].session, req[r].payment, c, 0)
           q == [a EXCEPT !.holds = req[r].copy.units]
<1>5. /\ a \in Request /\ a.op = "complete" /\ a.at = "begin" /\ a.session = req[r].session
      /\ a.payment = req[r].payment /\ a.copy = c
  <2>1. "begin" \in Places /\ 0 \in 0..Stock
    BY CheckoutAssumption DEF Places, Paying
  <2> QED BY <1>1, <1>2, <1>4, <2>1 DEF Request, Serving
<1>6. /\ q \in Request /\ q.op = "complete" /\ q.at = "begin" /\ q.session = req[r].session
      /\ q.payment = req[r].payment /\ q.copy = c /\ q.holds = req[r].copy.units
  <2> HIDE DEF a
  <2> QED BY <1>3, <1>5 DEF Request
<1>7. /\ req' = [req EXCEPT ![r] = q] /\ reserved' = reserved + req[r].copy.units
      /\ UNCHANGED <<stored, disk, orders, stock, platformOrders, charged, price, crashes>>
  BY DEF Reserve, placed, money, outside, c
<1> HIDE DEF q
<1>8. req' \in [Requests -> Request] /\ Keeps(r) /\ req'[r] = q
  BY <1>1, <1>6, <1>7, BeginMoves
<1>9. HeldByRequests' /\ reserved' \in Nat
  <2>1. PICK k \in 0..Stock : k = req[r].copy.units
    BY <1>3
  <2> QED BY <1>1, <1>2, <1>6, <1>7, <1>8, <2>1, HeldMore DEF Keeps
<1>10. TypeOK'
  BY <1>1, <1>7, <1>8, <1>9 DEF TypeOK
<1>11. Shape(r)'
  BY <1>1, <1>2, <1>4, <1>6, <1>8 DEF Shape, At, Quoting, Paying, Ordering, Quoted
<1>12. InStep(r)'
  BY <1>1, <1>6, <1>7, <1>8 DEF InStep, At, Saved, Uncharged, Unordered, Quoting, Paying, Ordering,
     OfSession
<1>13. OneCreator'
  BY <1>1, <1>6, <1>7, <1>8, CreatorsStay DEF Keeps, InOrder
<1> QED BY <1>1, <1>6, <1>7, <1>8, <1>9, <1>10, <1>11, <1>12, <1>13, LocalStep DEF Shared

(* A save of the lock's holder: the session it leaves behind is consistent,
   and is open again only where nothing was charged or ordered.             *)
LEMMA SaveAgrees ==
    ASSUME IInv, NEW s \in Sessions, NEW c \in CheckoutSession, Consistent(c),
           stored' = [stored EXCEPT ![s] = c], UNCHANGED <<disk, orders, charged>>,
           c.status \in Live => \A p \in Payments : <<s, p>> \notin charged /\ ~OfSession(p, s),
           c.settlement # None =>
               ~OfSession(c.settlement, s) \/ orders[c.settlement].units = c.units,
           c.status = "completed" => disk[c.settlement] # None /\ disk[c.settlement].session = s
    PROVE  OnlyFor(s) /\ SessionAgrees(s)' /\ stored'[s] = c
           /\ stored' \in [Sessions -> CheckoutSession \cup {None}]
<1>1. TypeOK /\ SessionAgrees(s)
  BY DEF IInv
<1>2. stored'[s] = c /\ \A x \in Sessions \ {s} : stored'[x] = stored[x]
  BY <1>1 DEF TypeOK
<1>3. stored' \in [Sessions -> CheckoutSession \cup {None}]
  BY <1>1 DEF TypeOK
<1>4. OnlyFor(s)
  BY <1>2 DEF OnlyFor
<1>5. c # None
  BY NoneAssumption
<1>6. \A p \in Payments : <<s, p>> \in charged' \/ OfSession(p, s)' =>
          stored'[s] # None /\ stored'[s].status \notin Live
  BY <1>2, <1>5 DEF OfSession
<1>7. \A p, q \in Payments : <<s, p>> \in charged' /\ <<s, q>> \in charged' => p = q
  BY <1>1 DEF SessionAgrees
<1>8. stored'[s].settlement # None /\ OfSession(stored[s].settlement, s)' =>
          orders'[stored'[s].settlement].units = stored'[s].units
  BY <1>2 DEF OfSession
<1>9. stored'[s].status = "completed" =>
          disk'[stored'[s].settlement] # None /\ disk'[stored'[s].settlement].session = s
  BY <1>2
<1>10. Consistent(stored'[s])
  BY <1>2
<1> QED BY <1>2, <1>3, <1>4, <1>6, <1>7, <1>8, <1>9, <1>10 DEF SessionAgrees, Consistent

(* The session says complete_in_progress before the money moves. *)
LEMMA SaveInProgressStep ==
    ASSUME IInv, NEW r \in Requests, SaveInProgress(r)
    PROVE  IInv'
<1>1. /\ TypeOK /\ Shape(r) /\ InStep(r) /\ Holds(r) /\ OneCreator
      /\ HeldByRequests /\ req[r].at = "begin"
      /\ req[r].session \in Sessions /\ req[r].copy \in CheckoutSession
  BY Known DEF SaveInProgress, At, Paying
<1>2. /\ Goes(r, "settle") /\ stored' = [stored EXCEPT ![req[r].session] = req[r].copy]
      /\ UNCHANGED <<disk, orders, stock, platformOrders, reserved, charged, price, crashes>>
  BY DEF SaveInProgress, Save, placed, money, outside
<1>3. /\ req' \in [Requests -> Request] /\ Keeps(r)
      /\ req'[r].at = "settle" /\ req'[r].op = req[r].op /\ req'[r].session = req[r].session
      /\ req'[r].payment = req[r].payment /\ req'[r].copy = req[r].copy
      /\ req'[r].holds = req[r].holds
  BY <1>1, <1>2, GoesMoves DEF Places, Paying
<1>4. PICK s \in Sessions, c \in CheckoutSession : s = req[r].session /\ c = req[r].copy
  BY <1>1
<1>5. c.status = "complete_in_progress" /\ c.settlement = None /\ Quoted(c) /\ Consistent(c)
  BY <1>1, <1>4 DEF Shape, Paying, Consistent, Quoted, Live
<1>6. OnlyFor(s) /\ SessionAgrees(s)' /\ stored'[s] = c
      /\ stored' \in [Sessions -> CheckoutSession \cup {None}]
  BY <1>2, <1>4, <1>5, SaveAgrees DEF Live
<1>7. TypeOK'
  BY <1>1, <1>2, <1>3, <1>6 DEF TypeOK
<1>8. Shape(r)'
  BY <1>1, <1>3 DEF Shape, At, Quoting, Paying, Ordering, Quoted
<1>9. InStep(r)'
  BY <1>1, <1>2, <1>3, <1>4, <1>5, <1>6, NoneAssumption
     DEF InStep, At, Saved, Uncharged, Unordered, Quoting, Paying, Ordering, OfSession, Live
<1>10. OneCreator'
  BY <1>1, <1>2, <1>3, CreatorsStay DEF Keeps, InOrder
<1>11. HeldByRequests'
  BY <1>1, <1>2, <1>3, HeldStays DEF Keeps
<1>12. \A p \in Payments : PaymentAgrees(p)'
  BY <1>2, PaymentsStay DEF IInv
<1> QED BY <1>1, <1>3, <1>4, <1>6, <1>7, <1>8, <1>9, <1>10, <1>11, <1>12, HolderStep DEF Keeps

(* The only step that charges: its session had no charge before. *)
LEMMA SettleStep ==
    ASSUME IInv, NEW r \in Requests, NEW outcome \in {"settled", "refused", "unknown"},
           Settle(r, outcome)
    PROVE  IInv'
<1>1. /\ TypeOK /\ Shape(r) /\ InStep(r) /\ Holds(r) /\ OneCreator
      /\ HeldByRequests /\ req[r].at = "settle"
      /\ req[r].session \in Sessions /\ req[r].copy \in CheckoutSession
      /\ SessionAgrees(req[r].session)
  BY Known DEF Settle, At, Paying
<1>2. PICK s \in Sessions, p \in Payments : s = req[r].session /\ p = req[r].payment
  BY <1>1 DEF Shape, Paying
<1>3. /\ Goes(r, outcome)
      /\ charged' = charged \/ (outcome # "refused" /\ charged' = charged \cup {<<s, p>>})
      /\ UNCHANGED <<stored, disk, orders, stock, platformOrders, reserved, price, crashes>>
  BY <1>2 DEF Settle, Facilitator, placed, outside
<1>4. /\ req' \in [Requests -> Request] /\ Keeps(r)
      /\ req'[r].at = outcome /\ req'[r].op = req[r].op /\ req'[r].session = s
      /\ req'[r].payment = req[r].payment /\ req'[r].copy = req[r].copy
      /\ req'[r].holds = req[r].holds
  BY <1>1, <1>2, <1>3, GoesMoves DEF Places, Paying
<1>5. TypeOK'
  BY <1>1, <1>3, <1>4 DEF TypeOK
<1>6. OnlyFor(s)
  BY <1>2, <1>3 DEF OnlyFor
<1>7. (\A q \in Payments : <<s,
   q>> \notin charged) /\ stored[s] # None /\ stored[s].status \notin Live
  BY <1>1, <1>2 DEF InStep, Uncharged, Saved, Paying
<1>8. SessionAgrees(s)'
  <2>1. \A q \in Payments : <<s, q>> \in charged' => q = p
    BY <1>3, <1>7
  <2>2. \A q \in Payments : OfSession(q, s)' <=> OfSession(q, s)
    BY <1>3 DEF OfSession
  <2>3. \A q \in Payments : <<s, q>> \in charged' \/ OfSession(q, s)' =>
            stored'[s] # None /\ stored'[s].status \notin Live
    BY <1>3, <1>7
  <2>4. stored'[s] # None /\ stored'[s].settlement # None /\ OfSession(stored[s].settlement, s)' =>
            orders'[stored'[s].settlement].units = stored'[s].units
    BY <1>1, <1>2, <1>3 DEF SessionAgrees, OfSession
  <2>5. stored'[s] # None /\ stored'[s].status = "completed" =>
            disk'[stored'[s].settlement] # None /\ disk'[stored'[s].settlement].session = s
    BY <1>1, <1>2, <1>3 DEF SessionAgrees
  <2>6. Consistent(stored'[s])
    BY <1>1, <1>2, <1>3, <1>7 DEF SessionAgrees
  <2>7. \A q, o \in Payments : <<s, q>> \in charged' /\ <<s, o>> \in charged' => q = o
    BY <2>1
  <2> QED BY <2>3, <2>4, <2>5, <2>6, <2>7 DEF SessionAgrees, Consistent
<1>9. Shape(r)'
  BY <1>1, <1>4 DEF Shape, At, Quoting, Paying, Ordering, Quoted
<1>10. InStep(r)'
  BY <1>1, <1>2, <1>3, <1>4, <1>7
     DEF InStep, At, Saved, Uncharged, Unordered, Quoting, Paying, Ordering, OfSession
<1>11. OneCreator'
  BY <1>1, <1>3, <1>4, CreatorsStay DEF Keeps, InOrder
<1>12. HeldByRequests'
  BY <1>1, <1>3, <1>4, HeldStays DEF Keeps
<1>13. \A q \in Payments : PaymentAgrees(q)'
  BY <1>3, PaymentsStay DEF IInv
<1> QED BY <1>1, <1>2, <1>4, <1>5, <1>6, <1>8, <1>9, <1>10, <1>11, <1>12, <1>13,
   HolderStep DEF Keeps

(* The settlement is written beside the charge it records. *)
LEMMA SaveSettlementStep ==
    ASSUME IInv, NEW r \in Requests, SaveSettlement(r)
    PROVE  IInv'
<1>1. /\ TypeOK /\ Shape(r) /\ InStep(r) /\ Holds(r) /\ OneCreator /\ req[r] \in Request
      /\ HeldByRequests /\ req[r].at = "settled"
      /\ req[r].session \in Sessions /\ req[r].copy \in CheckoutSession
  BY Known DEF SaveSettlement, At, Paying
<1>2. PICK s \in Sessions, p \in Payments : s = req[r].session /\ p = req[r].payment
  BY <1>1 DEF Shape, Paying
<1> DEFINE c == [req[r].copy EXCEPT !.settlement = p]
<1>3. /\ c \in CheckoutSession /\ c.settlement = p /\ c.status = "complete_in_progress"
      /\ c.quote = req[r].copy.quote /\ c.units = req[r].copy.units
      /\ c.requirements = req[r].copy.requirements
  BY <1>1, <1>2 DEF CheckoutSession, Shape, Paying
<1>4. /\ req' = [req EXCEPT ![r].at = "order", ![r].copy = c]
      /\ stored' = [stored EXCEPT ![s] = c]
      /\ UNCHANGED <<disk, orders, stock, platformOrders, reserved, charged, price, crashes>>
  BY <1>2 DEF SaveSettlement, Save, placed, money, outside
<1> HIDE DEF c
<1> DEFINE a == [req[r] EXCEPT !.at = "order"]
           q == [a EXCEPT !.copy = c]
<1>5. /\ a \in Request /\ a.at = "order" /\ a.op = req[r].op /\ a.session = s /\ a.payment = p
      /\ a.holds = req[r].holds
  BY <1>1, <1>2 DEF Request, Places, Ordering
<1>6. /\ q \in Request /\ q.at = "order" /\ q.op = req[r].op /\ q.session = s /\ q.payment = p
      /\ q.holds = req[r].holds /\ q.copy = c
  <2> HIDE DEF a
  <2> QED BY <1>3, <1>5 DEF Request
<1>7. req' = [req EXCEPT ![r] = q]
  BY <1>1, <1>4 DEF TypeOK
<1> HIDE DEF q
<1>8. req' \in [Requests -> Request] /\ Keeps(r) /\ req'[r] = q
  BY <1>1, <1>6, <1>7, BeginMoves
<1>9. Quoted(c) /\ c.requirements = Amount[p] /\ Consistent(c)
  BY <1>1, <1>2, <1>3 DEF Shape, Paying, Quoted, Consistent, Live
<1>10. \A o \in Payments : ~OfSession(o, s)
  BY <1>1, <1>2 DEF InStep, Unordered, Paying
<1>11. OnlyFor(s) /\ SessionAgrees(s)' /\ stored'[s] = c
      /\ stored' \in [Sessions -> CheckoutSession \cup {None}]
  BY <1>3, <1>4, <1>9, <1>10, SaveAgrees DEF Live
<1>12. TypeOK'
  BY <1>1, <1>4, <1>8, <1>11 DEF TypeOK
<1>13. Shape(r)'
  <2>1. req'[r].op = "complete"
    BY <1>1, <1>6, <1>8 DEF Shape, Paying
  <2> QED BY <1>3, <1>6, <1>8, <1>9, <2>1 DEF Shape, At, Quoting, Paying, Ordering
<1>14. InStep(r)'
  <2>1. \A o \in Payments : ~OfSession(o, s)'
    BY <1>4, <1>10 DEF OfSession
  <2>2. c # None /\ c.status \notin Live
    BY <1>3, NoneAssumption DEF Live
  <2> QED BY <1>6, <1>8, <1>11, <2>1, <2>2
     DEF InStep, At, Saved, Uncharged, Unordered, Quoting, Paying, Ordering, OfSession
<1>15. OneCreator'
  BY <1>1, <1>4, <1>6, <1>8, CreatorsStay DEF Keeps, InOrder
<1>16. HeldByRequests'
  BY <1>1, <1>4, <1>6, <1>8, HeldStays DEF Keeps
<1>17. \A o \in Payments : PaymentAgrees(o)'
  BY <1>4, PaymentsStay DEF IInv
<1> QED BY <1>1, <1>2, <1>6, <1>8, <1>11, <1>12, <1>13, <1>14, <1>15, <1>16, <1>17, HolderStep
        DEF Keeps

(* Whoever creates an order finds none, and is the only one. *)
LEMMA FulfilStep ==
    ASSUME IInv, NEW r \in Requests, Fulfil(r) \/ Awaken(r)
    PROVE  IInv'
<1>1. /\ TypeOK /\ Shape(r) /\ InStep(r) /\ Holds(r) /\ OneCreator
      /\ HeldByRequests /\ req[r].at \in {"order", "waiting"}
      /\ req[r].session \in Sessions /\ req[r].copy \in CheckoutSession
      /\ req[r].payment \in Payments
  BY Known DEF Fulfil, Awaken, At, Ordering, Shape
<1>2. PICK at \in {"replaying", "waiting", "creating"} :
          /\ Goes(r, at)
          /\ at = "replaying" => orders[req[r].payment] # None
          /\ at = "waiting" => CreatorOf(req[r].payment) # {}
          /\ at = "creating" => CreatorOf(req[r].payment) = {} /\ orders[req[r].payment] = None
  <2>1. CASE Fulfil(r)
    <3>1. CASE orders[req[r].payment] # None
      BY <2>1, <3>1 DEF Fulfil
    <3>2. CASE orders[req[r].payment] = None /\ CreatorOf(req[r].payment) # {}
      BY <2>1, <3>2 DEF Fulfil
    <3>3. CASE orders[req[r].payment] = None /\ CreatorOf(req[r].payment) = {}
      BY <2>1, <3>3 DEF Fulfil
    <3> QED BY <3>1, <3>2, <3>3
  <2>2. CASE Awaken(r)
    <3>1. orders[req[r].payment] # None
      BY <1>1, <2>2 DEF Awaken, CreatorOf, OneCreator, Creates, At
    <3> QED BY <2>2, <3>1 DEF Awaken
  <2> QED BY <2>1, <2>2
<1>3. UNCHANGED <<stored, disk, orders, stock, platformOrders, reserved, charged, price, crashes>>
  BY DEF Fulfil, Awaken, placed, money, outside
<1>4. /\ req' \in [Requests -> Request] /\ Keeps(r)
      /\ req'[r].at = at /\ req'[r].op = req[r].op /\ req'[r].session = req[r].session
      /\ req'[r].payment = req[r].payment /\ req'[r].copy = req[r].copy
      /\ req'[r].holds = req[r].holds
  BY <1>1, <1>2, GoesMoves DEF Places, Ordering
<1>5. TypeOK'
  BY <1>1, <1>3, <1>4 DEF TypeOK
<1>6. Shape(r)'
  BY <1>1, <1>4 DEF Shape, At, Quoting, Paying, Ordering, Quoted
<1>7. InStep(r)'
  BY <1>1, <1>2, <1>3, <1>4
     DEF InStep, At, Saved, Uncharged, Unordered, Quoting, Paying, Ordering, OfSession
<1>8. OneCreator'
  <2>1. \A x \in Requests \ {r} : /\ Creates(x)' <=> Creates(x)
                                  /\ req'[x].payment = req[x].payment /\ req'[x].at = req[x].at
    BY <1>4 DEF Keeps, Creates
  <2>2. ~Creates(r) /\ (Creates(r)' <=> at = "creating")
    BY <1>1, <1>4 DEF Creates
  <2>3. \A x \in Requests : x \in CreatorOf(req[r].payment) <=>
                               Creates(x) /\ req[x].payment = req[r].payment
    BY DEF CreatorOf, Creates
  <2>4. ASSUME NEW x \in Requests, At(x, "creating")'
        PROVE  /\ orders'[req'[x].payment] = None
               /\ \A q \in Requests : Creates(q)' /\ req'[q].payment = req'[x].payment => q = x
    <3>1. CASE x = r
      BY <1>2, <1>3, <1>4, <2>1, <2>3, <2>4, <3>1 DEF At
    <3>2. CASE x # r
      <4>1. At(x, "creating") /\ Creates(x) /\ req'[x].payment = req[x].payment
        BY <1>4, <2>4, <3>2 DEF Keeps, At, Creates
      <4>2. req[r].payment = req[x].payment => ~Creates(r)'
        BY <1>2, <2>2, <2>3, <4>1
      <4> QED BY <1>1, <1>3, <1>4, <2>1, <4>1, <4>2 DEF OneCreator
    <3> QED BY <3>1, <3>2
  <2>5. ASSUME NEW x \in Requests, At(x, "waiting")'
        PROVE  \/ orders'[req'[x].payment] # None
               \/ \E q \in Requests : Creates(q)' /\ req'[q].payment = req'[x].payment
    <3>1. CASE x = r
      <4>1. PICK q \in Requests : q \in CreatorOf(req[r].payment)
        BY <1>2, <1>4, <2>5, <3>1 DEF At, CreatorOf
      <4>2. Creates(q) /\ req[q].payment = req[r].payment /\ q # r
        BY <2>2, <2>3, <4>1
      <4> QED BY <1>4, <2>1, <3>1, <4>2
    <3>2. CASE x # r
      BY <1>1, <1>3, <1>4, <2>1, <2>2, <2>5, <3>2 DEF OneCreator, At
    <3> QED BY <3>1, <3>2
  <2> QED BY <2>4, <2>5 DEF OneCreator
<1>9. HeldByRequests'
  BY <1>1, <1>3, <1>4, HeldStays DEF Keeps
<1> QED BY <1>1, <1>3, <1>4, <1>5, <1>6, <1>7, <1>8, <1>9, LocalStep DEF Shared

(* The order made, on the platform or not, is the first of its payment and is
   of the session whose lock its creator holds.                             *)
LEMMA CreateOrderStep ==
    ASSUME IInv, NEW r \in Requests, CreateOrder(r) \/ PlatformFails(r)
    PROVE  IInv'
<1>1. /\ TypeOK /\ Shape(r) /\ InStep(r) /\ Holds(r) /\ OneCreator
      /\ HeldByRequests /\ req[r].at = "creating"
      /\ req[r].session \in Sessions /\ req[r].copy \in CheckoutSession
      /\ SessionAgrees(req[r].session) /\ \A o \in Payments : PaymentAgrees(o)
  BY Known DEF CreateOrder, PlatformFails, At, Ordering, IInv
<1>2. PICK s \in Sessions, p \in Payments : s = req[r].session /\ p = req[r].payment
  BY <1>1 DEF Shape, Ordering
<1>3. orders[p] = None /\ disk[p] = None
  BY <1>1, <1>2 DEF OneCreator, At, PaymentAgrees
<1>4. PICK status \in {"paid", "paid_unfulfilled"} :
          /\ orders' = [orders EXCEPT ![p] = OrderOf(r, status)]
          /\ Goes(r, "recording")
  BY <1>2 DEF CreateOrder, PlatformFails
<1>5. /\ UNCHANGED <<stored, disk, reserved, charged, price, crashes>>
      /\ stock' \in 0..Stock
      /\ \/ platformOrders' = platformOrders
         \/ platformOrders' = [platformOrders EXCEPT ![p] = @ + 1]
  <2>1. UNCHANGED <<stored, disk, reserved, charged, price, crashes>>
    BY DEF CreateOrder, PlatformFails, money, outside
  <2>2. CASE PlatformFails(r)
    <3>1. req[r].copy.units \in Nat /\ stock \in 0..Stock /\ Stock \in Nat
      BY <1>1, CheckoutAssumption DEF CheckoutSession, TypeOK
    <3> QED BY <1>2, <2>1, <2>2, <3>1 DEF PlatformFails
  <2>3. CASE CreateOrder(r)
    <3>1. req[r].copy.units \in Nat /\ stock \in 0..Stock /\ Stock \in Nat
      BY <1>1, CheckoutAssumption DEF CheckoutSession, TypeOK
    <3>2. CASE req[r].copy.units <= stock
      BY <1>2, <2>1, <2>3, <3>1, <3>2 DEF CreateOrder
    <3>3. CASE ~(req[r].copy.units <= stock)
      BY <1>1, <1>2, <2>1, <2>3, <3>1, <3>3 DEF CreateOrder, TypeOK
    <3> QED BY <3>2, <3>3
  <2> QED BY <2>2, <2>3
<1> DEFINE o == OrderOf(r, status)
<1>6. o \in OrderRecord /\ o.session = s /\ o.units = req[r].copy.units /\ o # None
  <2>1. /\ req[r].copy.units \in Units /\ req[r].copy.quote \in Quotes
    BY <1>1 DEF CheckoutSession, Shape, Ordering, Quoted
  <2>2. req[r].copy.quote.price \in Prices
    BY <2>1 DEF Quotes
  <2>3. o \in OrderRecord /\ o.session = s /\ o.units = req[r].copy.units
    BY <1>2, <2>1, <2>2 DEF OrderOf, OrderRecord
  <2> QED BY <2>3, NoneAssumption
<1> HIDE DEF o
<1>7. /\ orders'[p] = o /\ \A x \in Payments \ {p} : orders'[x] = orders[x]
      /\ orders' \in [Payments -> OrderRecord \cup {None}]
  BY <1>1, <1>4, <1>6 DEF TypeOK, o
<1>8. /\ req' \in [Requests -> Request] /\ Keeps(r)
      /\ req'[r].at = "recording" /\ req'[r].op = req[r].op /\ req'[r].session = s
      /\ req'[r].payment = p /\ req'[r].copy = req[r].copy /\ req'[r].holds = req[r].holds
  BY <1>1, <1>2, <1>4, GoesMoves DEF Places, Ordering
<1>9. platformOrders' \in [Payments -> Nat]
  BY <1>1, <1>5 DEF TypeOK
<1>10. TypeOK'
  BY <1>1, <1>5, <1>7, <1>8, <1>9 DEF TypeOK
<1>11. OnlyFor(s)
  BY <1>3, <1>5, <1>6, <1>7 DEF OnlyFor
<1>12. \A x \in Payments : OfSession(x, s)' <=> x = p \/ OfSession(x, s)
  BY <1>6, <1>7 DEF OfSession
<1>13. /\ stored[s] # None /\ stored[s].status \notin Live
       /\ stored[s].settlement # None => stored[s] = req[r].copy
  BY <1>1, <1>2 DEF InStep, Saved, Ordering, Paying
<1>14. SessionAgrees(s)'
  <2>1. stored[s] \in CheckoutSession /\ stored[s].settlement \in Payments \cup {None}
    BY <1>1, <1>13 DEF TypeOK, CheckoutSession
  <2>2. \A x \in Payments : <<s, x>> \in charged' \/ OfSession(x, s)' =>
            stored'[s] # None /\ stored'[s].status \notin Live
    BY <1>5, <1>13
  <2>3. stored'[s].settlement # None /\ OfSession(stored[s].settlement, s)' =>
            orders'[stored'[s].settlement].units = stored'[s].units
    <3>1. CASE stored[s].settlement = p
      BY <1>5, <1>6, <1>7, <1>13, <3>1, CheckoutAssumption
    <3>2. CASE stored[s].settlement \in Payments \ {p}
      <4>1. OfSession(stored[s].settlement, s)' => OfSession(stored[s].settlement, s)
        BY <1>5, <1>7, <3>2 DEF OfSession
      <4> QED BY <1>1, <1>2, <1>5, <1>7, <1>13, <3>2, <4>1 DEF SessionAgrees
    <3>3. CASE stored[s].settlement = None
      BY <1>5, <3>3
    <3> QED BY <2>1, <3>1, <3>2, <3>3
  <2>4. stored'[s].status = "completed" =>
            disk'[stored'[s].settlement] # None /\ disk'[stored'[s].settlement].session = s
    BY <1>1, <1>2, <1>5, <1>13 DEF SessionAgrees
  <2>5. Consistent(stored'[s])
    BY <1>1, <1>2, <1>5, <1>13 DEF SessionAgrees
  <2>6. \A q, x \in Payments : <<s, q>> \in charged' /\ <<s, x>> \in charged' => q = x
    BY <1>1, <1>2, <1>5 DEF SessionAgrees
  <2> QED BY <2>2, <2>3, <2>4, <2>5, <2>6 DEF SessionAgrees, Consistent
<1>15. Shape(r)'
  BY <1>1, <1>2, <1>8 DEF Shape, At, Quoting, Paying, Ordering, Quoted
<1>16. InStep(r)'
  BY <1>1, <1>2, <1>5, <1>6, <1>7, <1>8, <1>13
     DEF InStep, At, Saved, Uncharged, Unordered, Quoting, Paying, Ordering, OfSession
<1>17. OneCreator'
  <2>1. \A x \in Requests : /\ Creates(x)' <=> Creates(x)
                            /\ req'[x].payment = req[x].payment
    BY <1>1, <1>2, <1>8 DEF Keeps, Creates
  <2>2. ASSUME NEW x \in Requests, At(x, "creating")'
        PROVE  /\ orders'[req'[x].payment] = None
               /\ \A q \in Requests : Creates(q)' /\ req'[q].payment = req'[x].payment => q = x
    <3>1. x # r /\ At(x, "creating") /\ Creates(x) /\ Shape(x)
      BY <1>8, <2>2 DEF At, Keeps, Creates, IInv
    <3>2. req[x].payment # p /\ req[x].payment \in Payments
      BY <1>1, <1>2, <3>1 DEF OneCreator, Creates, At, Shape, Ordering
    <3> QED BY <1>1, <1>7, <2>1, <3>1, <3>2 DEF OneCreator
  <2>3. ASSUME NEW x \in Requests, At(x, "waiting")'
        PROVE  \/ orders'[req'[x].payment] # None
               \/ \E q \in Requests : Creates(q)' /\ req'[q].payment = req'[x].payment
    <3>1. At(x, "waiting") /\ Shape(x) /\ req[x].payment \in Payments
      BY <1>8, <2>3 DEF At, Keeps, IInv, Shape, Ordering
    <3>2. \/ orders[req[x].payment] # None
          \/ \E q \in Requests : Creates(q) /\ req[q].payment = req[x].payment
      BY <1>1, <3>1 DEF OneCreator
    <3> QED BY <1>6, <1>7, <2>1, <3>1, <3>2
  <2> QED BY <2>2, <2>3 DEF OneCreator
<1>18. HeldByRequests'
  BY <1>1, <1>5, <1>8, HeldStays DEF Keeps
<1>19. ASSUME NEW x \in Payments PROVE PaymentAgrees(x)'
  <2>1. PaymentAgrees(x) /\ platformOrders[x] \in Nat /\ crashes \in Nat
    BY <1>1 DEF TypeOK
  <2>2. CASE x = p
    <3>1. /\ platformOrders[p] <= crashes
          /\ platformOrders'[p] \in {platformOrders[p], platformOrders[p] + 1}
      BY <1>1, <1>3, <1>5, <2>1, <2>2 DEF PaymentAgrees, TypeOK
    <3> QED BY <1>3, <1>5, <1>6, <1>7, <2>1, <2>2, <3>1 DEF PaymentAgrees
  <2>3. CASE x # p
    <3>1. orders'[x] = orders[x] /\ platformOrders'[x] = platformOrders[x]
      BY <1>1, <1>5, <1>7, <2>3 DEF TypeOK
    <3> QED BY <1>5, <2>1, <3>1 DEF PaymentAgrees
  <2> QED BY <2>2, <2>3
<1> QED BY <1>1, <1>2, <1>8, <1>10, <1>11, <1>14, <1>15, <1>16, <1>17, <1>18, <1>19, HolderStep
        DEF Keeps

-----------------------------------------------------------------------------
(* Answers: the request ends, with what it held and its lock. *)

(* Requests that end become idle; no other moves. *)
LEMMA EndsMoves ==
    ASSUME TypeOK, NEW rs \in SUBSET Requests, Ends(rs)
    PROVE  /\ req' \in [Requests -> Request]
           /\ \A x \in rs : req'[x] = Idle
           /\ \A x \in Requests \ rs : req'[x] = req[x]
<1>1. Idle \in Request
  <2>1. "idle" \in Places /\ 0 \in 0..Stock
    BY CheckoutAssumption DEF Places
  <2> QED BY <2>1 DEF Request, Idle, Serving
<1> QED BY <1>1 DEF Ends, TypeOK

(* Nobody is left waiting: who ends while recording has made the order. *)
LEMMA CreatorsEnd ==
    ASSUME IInv, NEW rs \in SUBSET Requests, Ends(rs), UNCHANGED orders,
           \A x \in rs : ~At(x, "creating")
    PROVE  OneCreator'
<1>1. OneCreator /\ \A x \in Requests : InStep(x)
  BY DEF IInv
<1>2. /\ \A x \in rs : req'[x] = Idle
      /\ \A x \in Requests \ rs : req'[x] = req[x]
  BY EndsMoves DEF IInv
<1>3. \A x \in rs : ~Creates(x)' /\ ~At(x, "waiting")' /\ ~At(x, "creating")'
  BY <1>2, IdleAgrees DEF Creates, At
<1>4. \A x \in Requests : Creates(x)' => Creates(x) /\ req'[x] = req[x]
  BY <1>2, <1>3 DEF Creates
<1>5. ASSUME NEW x \in Requests, At(x, "creating")'
      PROVE  /\ orders'[req'[x].payment] = None
             /\ \A q \in Requests : Creates(q)' /\ req'[q].payment = req'[x].payment => q = x
  <2>1. At(x, "creating") /\ req'[x] = req[x]
    BY <1>2, <1>3, <1>5 DEF At
  <2> QED BY <1>1, <1>4, <2>1 DEF OneCreator
<1>6. ASSUME NEW x \in Requests, At(x, "waiting")'
      PROVE  \/ orders'[req'[x].payment] # None
             \/ \E q \in Requests : Creates(q)' /\ req'[q].payment = req'[x].payment
  <2>1. At(x, "waiting") /\ req'[x] = req[x]
    BY <1>2, <1>3, <1>6 DEF At
  <2>2. CASE orders[req[x].payment] # None
    BY <2>1, <2>2
  <2>3. ASSUME NEW q \in Requests, Creates(q), req[q].payment = req[x].payment
        PROVE  \/ orders'[req'[x].payment] # None
               \/ \E y \in Requests : Creates(y)' /\ req'[y].payment = req'[x].payment
    <3>1. CASE q \in rs
      <4>1. At(q, "recording")
        BY <2>3, <3>1 DEF Creates, At
      <4> QED BY <1>1, <2>1, <2>3, <4>1 DEF InStep, At
    <3>2. CASE q \notin rs
      <4>1. Creates(q)' /\ req'[q].payment = req'[x].payment
        BY <1>2, <2>1, <2>3, <3>2 DEF Creates
      <4> QED BY <4>1
    <3> QED BY <3>1, <3>2
  <2> QED BY <1>1, <2>1, <2>2, <2>3 DEF OneCreator
<1> QED BY <1>5, <1>6 DEF OneCreator

(* The holder of the lock answers. *)
LEMMA AnswerEnds ==
    ASSUME IInv, NEW r \in Requests, NEW s \in Sessions, s = req[r].session, Holds(r),
           Ends({r}), ~At(r, "creating"), OnlyFor(s), SessionAgrees(s)',
           stored' \in [Sessions -> CheckoutSession \cup {None}],
           disk' \in [Payments -> OrderRecord \cup {None}],
           UNCHANGED <<orders, stock, price, platformOrders, crashes>>,
           \A p \in Payments : PaymentAgrees(p)'
    PROVE  IInv'
<1>1. TypeOK /\ HeldByRequests
  BY DEF IInv
<1>2. /\ req' \in [Requests -> Request] /\ req'[r] = Idle
      /\ \A x \in Requests \ {r} : req'[x] = req[x]
  BY <1>1, EndsMoves
<1>3. HeldByRequests' /\ reserved' \in Nat
  BY <1>1, HeldEnds
<1>4. TypeOK'
  BY <1>1, <1>2, <1>3 DEF TypeOK
<1>5. OneCreator'
  BY CreatorsEnd
<1>6. Shape(r)' /\ InStep(r)' /\ ~Holds(r)'
  BY <1>2, IdleAgrees
<1> QED BY <1>2, <1>3, <1>4, <1>5, <1>6, HolderStep

(* It saved the session first. *)
LEMMA SaveEnds ==
    ASSUME IInv, NEW r \in Requests, NEW s \in Sessions, s = req[r].session, Holds(r),
           Ends({r}), ~At(r, "creating"), NEW c \in CheckoutSession, Save(r, c), Consistent(c),
           UNCHANGED <<placed, money, outside, crashes>>,
           c.status \in Live => \A p \in Payments : <<s, p>> \notin charged /\ ~OfSession(p, s),
           c.settlement # None =>
               ~OfSession(c.settlement, s) \/ orders[c.settlement].units = c.units,
           c.status = "completed" => disk[c.settlement] # None /\ disk[c.settlement].session = s
    PROVE  IInv'
<1>1. /\ stored' = [stored EXCEPT ![s] = c]
      /\ UNCHANGED <<disk, orders, stock, platformOrders, charged, price, crashes>>
  BY DEF Save, placed, money, outside
<1>2. OnlyFor(s) /\ SessionAgrees(s)' /\ stored' \in [Sessions -> CheckoutSession \cup {None}]
  BY <1>1, SaveAgrees
<1>3. \A p \in Payments : PaymentAgrees(p)'
  BY <1>1, PaymentsStay DEF IInv
<1>4. disk' \in [Payments -> OrderRecord \cup {None}]
  BY <1>1 DEF IInv, TypeOK
<1> QED BY <1>1, <1>2, <1>3, <1>4, AnswerEnds

(* A quote of the lines at the answered price; kept only where it is the same. *)
LEMMA RefreshedIsQuoted ==
    ASSUME IInv, NEW r \in Requests, At(r, "answered")
    PROVE  /\ Refreshed(r) \in CheckoutSession /\ Consistent(Refreshed(r))
           /\ Refreshed(r).settlement = None
<1>1. /\ Shape(r) /\ req[r].copy \in CheckoutSession /\ req[r].copy.settlement = None
      /\ req[r].copy.quote # None /\ req[r].copy.requirements # 0 =>
            req[r].copy.requirements = Total(req[r].copy.quote)
      /\ req[r].price \in Prices
  BY Known DEF At, Quoting, Shape
<1> DEFINE ses == req[r].copy
           fresh == Snapshot(r)
           sameTotal == /\ ses.quote # None /\ ses.requirements # 0
                        /\ Total(ses.quote) = Total(fresh)
<1>2. fresh \in Quotes /\ fresh.units = ses.units /\ Total(fresh) \in Nat
  <2>1. ses.units \in Units /\ ses.units \in Nat /\ req[r].price \in Nat
    BY <1>1, CheckoutAssumption DEF CheckoutSession
  <2>2. ses.units * req[r].price \in Nat
    BY <2>1
  <2> QED BY <1>1, <2>1, <2>2 DEF Snapshot, Quotes, Total
<1>3. fresh # None
  BY <1>2, NoneAssumption
<1> DEFINE kept == IF sameTotal /\ sameQuotedLines(ses.quote, fresh) THEN ses.quote ELSE fresh
           asks == IF sameTotal THEN ses.requirements ELSE Total(fresh)
<1>4. kept = fresh /\ asks = Total(fresh)
  BY <1>1 DEF sameQuotedLines
<1> DEFINE made(status, asked, quote) ==
               [ses EXCEPT !.status = status, !.requirements = asked, !.quote = quote]
<1>5. Refreshed(r) = IF OutOfStock(r) THEN made("incomplete", 0, None)
                     ELSE IF ~ses.deliverable THEN made("incomplete", 0, fresh)
                     ELSE made("ready_for_complete", asks, kept)
  BY DEF Refreshed
<1> HIDE DEF fresh, sameTotal
<1>6. ASSUME NEW status \in Live, NEW asked \in Nat, NEW quote \in Quotes \cup {None},
             asked # 0 \/ status = "ready_for_complete" =>
                quote # None /\ quote.units = ses.units /\ asked = Total(quote)
      PROVE  /\ made(status, asked, quote) \in CheckoutSession
             /\ Consistent(made(status, asked, quote))
             /\ made(status, asked, quote).settlement = None
  <2> DEFINE a == [ses EXCEPT !.status = status]
             b == [a EXCEPT !.requirements = asked]
             c == [b EXCEPT !.quote = quote]
  <2>1. a \in CheckoutSession /\ a.settlement = None /\ a.status = status /\ a.units = ses.units
    BY <1>1 DEF CheckoutSession, Live, Statuses
  <2>2. /\ b \in CheckoutSession /\ b.settlement = None /\ b.status = status /\ b.units = ses.units
        /\ b.requirements = asked
    <3> HIDE DEF a
    <3> QED BY <2>1 DEF CheckoutSession
  <2>3. /\ c \in CheckoutSession /\ c.settlement = None /\ c.status = status /\ c.units = ses.units
        /\ c.requirements = asked /\ c.quote = quote
    <3> HIDE DEF b
    <3> QED BY <2>2 DEF CheckoutSession
  <2>4. c = made(status, asked, quote)
    OBVIOUS
  <2> HIDE DEF c
  <2>5. Consistent(c)
    BY <1>6, <2>3 DEF Consistent, Quoted, Live
  <2> QED BY <2>3, <2>4, <2>5
<1> HIDE DEF ses, kept, asks, made
<1>7. CASE OutOfStock(r)
  BY <1>5, <1>6, <1>7 DEF Live
<1>8. CASE ~OutOfStock(r) /\ ~ses.deliverable
  BY <1>2, <1>5, <1>6, <1>8 DEF Live
<1>9. CASE ~OutOfStock(r) /\ ses.deliverable
  BY <1>2, <1>3, <1>4, <1>5, <1>6, <1>9 DEF Live
<1> QED BY <1>7, <1>8, <1>9

(* An update ends with its fresh quote saved. *)
LEMMA RequoteStep ==
    ASSUME IInv, NEW r \in Requests, Requote(r)
    PROVE  IInv'
<1>1. /\ At(r, "answered") /\ Save(r, Refreshed(r)) /\ Ends({r})
      /\ UNCHANGED <<placed, money, outside, crashes>>
  BY DEF Requote
<1>2. req[r].session \in Sessions /\ Holds(r) /\ InStep(r)
  BY <1>1, Known DEF At, Quoting
<1>3. PICK s \in Sessions : s = req[r].session
  BY <1>2
<1>4. \A p \in Payments : <<s, p>> \notin charged /\ ~OfSession(p, s)
  BY <1>1, <1>2, <1>3 DEF InStep, At, Uncharged, Unordered, Quoting
<1>5. PICK c \in CheckoutSession : c = Refreshed(r) /\ Consistent(c) /\ c.settlement = None
  BY <1>1, RefreshedIsQuoted
<1>6. c.status # "completed"
  BY <1>5 DEF Consistent
<1> QED BY <1>1, <1>2, <1>3, <1>4, <1>5, <1>6, SaveEnds DEF At

(* Refused: nothing moved, so the session may be paid again. *)
LEMMA RefusedStep ==
    ASSUME IInv, NEW r \in Requests, Refused(r)
    PROVE  IInv'
<1>1. /\ At(r, "refused") /\ Ends({r}) /\ UNCHANGED <<placed, money, outside, crashes>>
      /\ Save(r, [req[r].copy EXCEPT !.status = "ready_for_complete", !.paymentKey = None])
  BY DEF Refused
<1>2. /\ req[r].session \in Sessions /\ Holds(r) /\ InStep(r) /\ Shape(r)
      /\ req[r].copy \in CheckoutSession
  BY <1>1, Known DEF At, Paying
<1>3. PICK s \in Sessions : s = req[r].session
  BY <1>2
<1>4. \A p \in Payments : <<s, p>> \notin charged /\ ~OfSession(p, s)
  BY <1>1, <1>2, <1>3 DEF InStep, At, Uncharged, Unordered, Paying
<1> DEFINE a == [req[r].copy EXCEPT !.status = "ready_for_complete"]
           b == [a EXCEPT !.paymentKey = None]
<1>5. /\ a \in CheckoutSession /\ a.status = "ready_for_complete" /\ a.quote = req[r].copy.quote
      /\ a.units = req[r].copy.units /\ a.requirements = req[r].copy.requirements
      /\ a.settlement = req[r].copy.settlement
  BY <1>2 DEF CheckoutSession, Statuses
<1>6. /\ b \in CheckoutSession /\ b.status = "ready_for_complete" /\ b.quote = req[r].copy.quote
      /\ b.units = req[r].copy.units /\ b.requirements = req[r].copy.requirements
      /\ b.settlement = req[r].copy.settlement
  <2> HIDE DEF a
  <2> QED BY <1>5 DEF CheckoutSession
<1>7. Save(r, b)
  BY <1>1
<1> HIDE DEF b
<1>8. Consistent(b) /\ b.settlement = None
  BY <1>1, <1>2, <1>6 DEF Shape, At, Paying, Quoted, Consistent
<1> QED BY <1>1, <1>2, <1>3, <1>4, <1>6, <1>7, <1>8, SaveEnds DEF At

(* Unknown: held, whatever happened to the money. *)
LEMMA UnknownStep ==
    ASSUME IInv, NEW r \in Requests, Unknown(r)
    PROVE  IInv'
<1>1. /\ At(r, "unknown") /\ Ends({r}) /\ UNCHANGED <<placed, money, outside, crashes>>
      /\ Save(r, req[r].copy)
  BY DEF Unknown
<1>2. req[r].session \in Sessions /\ Holds(r) /\ Shape(r) /\ req[r].copy \in CheckoutSession
  BY <1>1, Known DEF At, Paying
<1>3. PICK s \in Sessions, c \in CheckoutSession : s = req[r].session /\ c = req[r].copy
  BY <1>2
<1>4. c.status = "complete_in_progress" /\ c.settlement = None /\ Consistent(c)
  BY <1>1, <1>2, <1>3 DEF Shape, At, Paying, Quoted, Consistent, Live
<1> QED BY <1>1, <1>2, <1>3, <1>4, SaveEnds DEF At, Live

(* The order is in the database before the session says completed. *)
LEMMA CloseStep ==
    ASSUME IInv, NEW r \in Requests, Close(r)
    PROVE  IInv'
<1>1. /\ At(r, "close") /\ Ends({r}) /\ UNCHANGED <<placed, money, outside, crashes>>
      /\ Save(r, [req[r].copy EXCEPT !.status = "completed"])
  BY DEF Close
<1>2. /\ req[r].session \in Sessions /\ Holds(r) /\ InStep(r) /\ Shape(r)
      /\ req[r].copy \in CheckoutSession
  BY <1>1, Known DEF At, Ordering
<1>3. PICK s \in Sessions, p \in Payments : s = req[r].session /\ p = req[r].payment
  BY <1>1, <1>2 DEF Shape, At, Ordering
<1> DEFINE c == [req[r].copy EXCEPT !.status = "completed"]
<1>4. /\ c \in CheckoutSession /\ c.status = "completed" /\ c.quote = req[r].copy.quote
      /\ c.units = req[r].copy.units /\ c.requirements = req[r].copy.requirements
      /\ c.settlement = req[r].copy.settlement
  BY <1>2 DEF CheckoutSession, Statuses
<1>5. Save(r, c)
  BY <1>1
<1> HIDE DEF c
<1>6. c.settlement = p /\ Consistent(c)
  BY <1>1, <1>2, <1>3, <1>4, CheckoutAssumption DEF Shape, At, Ordering, Paying, Quoted,
     Consistent, Live
<1>7. /\ disk[p] # None /\ disk[p].session = s
      /\ ~OfSession(p, s) \/ orders[p].units = c.units
  BY <1>1, <1>2, <1>3, <1>4 DEF InStep, At, Ordering
<1> QED BY <1>1, <1>2, <1>3, <1>4, <1>5, <1>6, <1>7, SaveEnds DEF At, Live

(* Another's order is kept; the session's own can be completed. *)
LEMMA RecordStep ==
    ASSUME IInv, NEW r \in Requests, Record(r)
    PROVE  IInv'
<1>1. /\ TypeOK /\ Shape(r) /\ InStep(r) /\ Holds(r) /\ OneCreator
      /\ HeldByRequests /\ req[r].at \in {"recording", "replaying"}
      /\ req[r].session \in Sessions /\ req[r].copy \in CheckoutSession
      /\ SessionAgrees(req[r].session) /\ \A o \in Payments : PaymentAgrees(o)
  BY Known DEF Record, At, Ordering, IInv
<1>2. PICK s \in Sessions, p \in Payments : s = req[r].session /\ p = req[r].payment
  BY <1>1 DEF Shape, Ordering
<1>3. orders[p] # None
  BY <1>1, <1>2 DEF InStep
<1>4. /\ disk' = [disk EXCEPT ![p] = orders[p]]
      /\ UNCHANGED <<stored, orders, stock, platformOrders, charged, price, crashes>>
      /\ \/ orders[p].session = s /\ Goes(r, "close") /\ UNCHANGED reserved
         \/ Ends({r})
  BY <1>2 DEF Record, money, outside
<1>5. /\ disk' \in [Payments -> OrderRecord \cup {None}] /\ disk'[p] = orders[p]
      /\ \A o \in Payments : disk[o] # None => disk'[o] = disk[o]
      /\ \A o \in Payments : disk'[o] # None => disk'[o] = orders[o]
  BY <1>1, <1>4 DEF TypeOK, PaymentAgrees
<1>6. OnlyFor(s)
  BY <1>4, <1>5 DEF OnlyFor
<1>7. \A o \in Payments : PaymentAgrees(o)'
  BY <1>1, <1>4, <1>5 DEF PaymentAgrees
<1>8. SessionAgrees(s)'
  <2>1. stored[s] # None => stored[s].settlement \in Payments \cup {None}
    BY <1>1 DEF TypeOK, CheckoutSession
  <2>2. \A o \in Payments : OfSession(o, s)' <=> OfSession(o, s)
    BY <1>4 DEF OfSession
  <2>3. stored'[s] # None /\ stored'[s].status = "completed" =>
            disk'[stored'[s].settlement] # None /\ disk'[stored'[s].settlement].session = s
    BY <1>1, <1>2, <1>4, <1>5, <2>1 DEF SessionAgrees, Consistent
  <2>4. stored'[s] # None => Consistent(stored'[s])
    BY <1>1, <1>2, <1>4 DEF SessionAgrees
  <2>5. \A q \in Payments : <<s, q>> \in charged' \/ OfSession(q, s)' =>
            stored'[s] # None /\ stored'[s].status \notin Live
    BY <1>1, <1>2, <1>4, <2>2 DEF SessionAgrees
  <2>6. stored'[s] # None /\ stored'[s].settlement # None /\ OfSession(stored[s].settlement, s)' =>
            orders'[stored'[s].settlement].units = stored'[s].units
    BY <1>1, <1>2, <1>4 DEF SessionAgrees, OfSession
  <2>7. \A q, o \in Payments : <<s, q>> \in charged' /\ <<s, o>> \in charged' => q = o
    BY <1>1, <1>2, <1>4 DEF SessionAgrees
  <2> QED BY <2>3, <2>4, <2>5, <2>6, <2>7 DEF SessionAgrees, Consistent
<1>9. CASE Ends({r})
  <2>1. stored' \in [Sessions -> CheckoutSession \cup {None}] /\ ~At(r, "creating")
    BY <1>1, <1>4 DEF TypeOK, At
  <2> QED BY <1>1, <1>2, <1>4, <1>5, <1>6, <1>7, <1>8, <1>9, <2>1, AnswerEnds
<1>10. CASE orders[p].session = s /\ Goes(r, "close") /\ UNCHANGED reserved
  <2>1. /\ req' \in [Requests -> Request] /\ Keeps(r)
        /\ req'[r].at = "close" /\ req'[r].op = req[r].op /\ req'[r].session = s
        /\ req'[r].payment = p /\ req'[r].copy = req[r].copy /\ req'[r].holds = req[r].holds
    BY <1>1, <1>2, <1>10, GoesMoves DEF Places, Ordering
  <2>2. TypeOK'
    BY <1>1, <1>4, <1>5, <1>10, <2>1 DEF TypeOK
  <2>3. Shape(r)'
    BY <1>1, <1>2, <2>1 DEF Shape, At, Quoting, Paying, Ordering, Quoted
  <2>4. InStep(r)'
    BY <1>1, <1>2, <1>3, <1>4, <1>5, <1>10, <2>1
       DEF InStep, At, Saved, Uncharged, Unordered, Quoting, Paying, Ordering, OfSession
  <2>5. HeldByRequests'
    BY <1>1, <1>10, <2>1, HeldStays DEF Keeps
  <2>6. OneCreator'
    <3>1. \A x \in Requests : /\ Creates(x)' => Creates(x)
                              /\ req'[x].payment = req[x].payment
                              /\ req[x].payment # p /\ Creates(x) => Creates(x)'
      BY <1>2, <2>1 DEF Keeps, Creates
    <3>2. \A x \in Requests : /\ At(x, "creating")' => At(x, "creating")
                              /\ At(x, "waiting")' => At(x, "waiting")
      BY <2>1 DEF Keeps, At
    <3>3. ASSUME NEW x \in Requests, At(x, "waiting")'
          PROVE  \/ orders'[req'[x].payment] # None
                 \/ \E q \in Requests : Creates(q)' /\ req'[q].payment = req'[x].payment
      BY <1>1, <1>3, <1>4, <3>1, <3>2, <3>3 DEF OneCreator
    <3>4. ASSUME NEW x \in Requests, At(x, "creating")'
          PROVE  /\ orders'[req'[x].payment] = None
                 /\ \A q \in Requests : Creates(q)' /\ req'[q].payment = req'[x].payment => q = x
      BY <1>1, <1>4, <3>1, <3>2, <3>4 DEF OneCreator
    <3> QED BY <3>3, <3>4 DEF OneCreator
  <2> QED BY <1>1, <1>2, <1>6, <1>7, <1>8, <2>1, <2>2, <2>3, <2>4, <2>5, <2>6, HolderStep DEF Keeps
<1> QED BY <1>4, <1>9, <1>10

(* Requests end and nothing is saved. *)
LEMMA EndsOnly ==
    ASSUME IInv, NEW rs \in SUBSET Requests, Ends(rs), \A x \in rs : ~At(x, "creating"),
           UNCHANGED <<stored, placed, money, outside, crashes>>
    PROVE  IInv'
<1>1. /\ TypeOK /\ OneHolder /\ HeldByRequests /\ \A x \in Requests : Shape(x) /\ InStep(x)
      /\ \A s \in Sessions : SessionAgrees(s)
      /\ \A p \in Payments : PaymentAgrees(p)
  BY DEF IInv
<1>2. UNCHANGED <<stored, disk, orders, stock, platformOrders, charged, price, crashes>>
  BY DEF placed, money, outside
<1>3. /\ req' \in [Requests -> Request]
      /\ \A x \in rs : req'[x] = Idle
      /\ \A x \in Requests \ rs : req'[x] = req[x]
  BY <1>1, EndsMoves
<1>4. HeldByRequests' /\ reserved' \in Nat
  BY <1>1, HeldEnds
<1>5. TypeOK'
  BY <1>1, <1>2, <1>3, <1>4 DEF TypeOK
<1>6. \A x \in Requests \ rs : InStep(x)'
  BY <1>1, <1>2, <1>3 DEF InStep, OfSession, At
<1>7. \A x \in Requests : Shape(x)' /\ InStep(x)'
  BY <1>1, <1>3, <1>6, ShapeStays, IdleAgrees
<1>8. \A s \in Sessions : SessionAgrees(s)'
  BY <1>1, <1>2, NothingShared DEF Shared
<1>9. \A p \in Payments : PaymentAgrees(p)'
  BY <1>1, <1>2, PaymentsStay
<1>10. OneHolder'
  <2>1. \A x \in Requests : Holds(x)' => Holds(x) /\ req'[x] = req[x]
    BY <1>3, IdleAgrees DEF Holds
  <2> QED BY <1>1, <2>1 DEF OneHolder
<1>11. OneCreator'
  BY <1>2, CreatorsEnd
<1> QED BY <1>4, <1>5, <1>7, <1>8, <1>9, <1>10, <1>11 DEF IInv

(* A request turned away changed nothing. *)
LEMMA TurnAwayStep ==
    ASSUME IInv, NEW r \in Requests, TurnAway(r)
    PROVE  IInv'
<1>1. /\ Ends({r}) /\ ~At(r, "creating") /\ UNCHANGED <<stored, placed, money, outside, crashes>>
  BY DEF TurnAway, At
<1> QED BY <1>1, EndsOnly

(* A platform that fails ends the creator and all who wait for it. *)
LEMMA FailStep ==
    ASSUME IInv, NEW r \in Requests, Fail(r)
    PROVE  IInv'
<1> DEFINE rs == {r} \cup Waiters(r)
<1>1. rs \in SUBSET Requests /\ \A x \in rs : ~At(x, "creating")
  BY DEF Fail, Waiters, At
<1>2. Ends(rs) /\ UNCHANGED <<stored, placed, money, outside, crashes>>
  BY DEF Fail
<1> HIDE DEF rs
<1> QED BY <1>1, <1>2, EndsOnly

(* Whoever cancels, with the lock or without it, leaves the session closed and
   without a settlement: whoever is charging it stays in step.              *)
LEMMA SaveCanceledStep ==
    ASSUME IInv, NEW r \in Requests, SaveCanceled(r)
    PROVE  IInv'
<1>1. /\ TypeOK /\ OneHolder /\ HeldByRequests /\ \A x \in Requests : Shape(x) /\ InStep(x)
      /\ \A s \in Sessions : SessionAgrees(s)
      /\ \A p \in Payments : PaymentAgrees(p)
  BY DEF IInv
<1>2. PICK s \in Sessions, c \in CheckoutSession :
          /\ s = req[r].session /\ c = req[r].copy
          /\ c.status = "canceled" /\ Consistent(c)
  BY <1>1 DEF SaveCanceled, Shape, At
<1>3. c.settlement = None /\ c # None
  BY <1>2, NoneAssumption DEF Consistent
<1>4. /\ Ends({r}) /\ stored' = [stored EXCEPT ![s] = c]
      /\ UNCHANGED <<disk, orders, stock, platformOrders, charged, price, crashes>>
      /\ ~At(r, "creating")
  BY <1>2 DEF SaveCanceled, Save, placed, money, outside, At
<1>5. OnlyFor(s) /\ SessionAgrees(s)' /\ stored'[s] = c
      /\ stored' \in [Sessions -> CheckoutSession \cup {None}]
  BY <1>2, <1>3, <1>4, SaveAgrees DEF Live
<1>6. /\ req' \in [Requests -> Request] /\ req'[r] = Idle
      /\ \A x \in Requests \ {r} : req'[x] = req[x]
  BY <1>1, <1>4, EndsMoves
<1>7. HeldByRequests' /\ reserved' \in Nat
  BY <1>1, <1>4, HeldEnds
<1>8. TypeOK'
  BY <1>1, <1>4, <1>5, <1>6, <1>7 DEF TypeOK
<1>9. ASSUME NEW x \in Requests \ {r} PROVE InStep(x)'
  <2>1. InStep(x) /\ Shape(x) /\ req'[x] = req[x]
    BY <1>1, <1>6
  <2>2. req[x].at \in Saved => req[x].session \in Sessions
    BY <2>1 DEF Shape, At, Saved, Paying, Ordering
  <2>3. req'[x].at \in Saved =>
          /\ stored'[req'[x].session] # None
          /\ stored'[req'[x].session].status \notin Live
          /\ stored'[req'[x].session].settlement # None => stored'[req'[x].session] = req'[x].copy
    <3>1. CASE req[x].session = s
      BY <1>2, <1>3, <1>5, <2>1, <3>1 DEF Live
    <3>2. CASE req[x].session \in Sessions \ {s}
      BY <1>5, <2>1, <3>2 DEF InStep, OnlyFor
    <3> QED BY <2>1, <2>2, <3>1, <3>2
  <2> QED BY <1>4, <2>1, <2>3 DEF InStep, OfSession, At
<1>10. \A x \in Requests : Shape(x)' /\ InStep(x)'
  BY <1>1, <1>6, <1>9, ShapeStays, IdleAgrees
<1>11. \A d \in Sessions : SessionAgrees(d)'
  BY <1>1, <1>5, OthersAgree
<1>12. \A p \in Payments : PaymentAgrees(p)'
  BY <1>1, <1>4, PaymentsStay
<1>13. OneHolder'
  <2>1. \A x \in Requests : Holds(x)' => Holds(x) /\ req'[x] = req[x]
    BY <1>6, IdleAgrees DEF Holds
  <2> QED BY <1>1, <2>1 DEF OneHolder
<1>14. OneCreator'
  BY <1>4, CreatorsEnd
<1> QED BY <1>7, <1>8, <1>10, <1>11, <1>12, <1>13, <1>14 DEF IInv

-----------------------------------------------------------------------------
(* Nothing held by anybody. *)
LEMMA HeldByNobody ==
    ASSUME \A x \in Requests : req'[x].holds = 0, reserved' = 0
    PROVE  HeldByRequests'
<1>1. HeldUnits(Requests)' = {}
  BY CheckoutAssumption DEF HeldUnits
<1> QED BY <1>1, FS_EmptySet DEF HeldByRequests, HeldBy

(* A crash forgets requests and unrecorded orders, and one more order of each
   payment may be made afterwards.                                          *)
LEMMA CrashStep ==
    ASSUME IInv, Crash
    PROVE  IInv'
<1>1. /\ TypeOK /\ \A s \in Sessions : SessionAgrees(s)
      /\ \A p \in Payments : PaymentAgrees(p)
  BY DEF IInv
<1>2. /\ req' = [r \in Requests |-> Idle] /\ reserved' = 0
      /\ orders' = disk /\ crashes' = crashes + 1
      /\ UNCHANGED <<stored, disk, stock, platformOrders, charged, price>>
  BY DEF Crash, money, outside
<1>3. Idle \in Request /\ Idle.holds = 0
  <2>1. "idle" \in Places /\ 0 \in 0..Stock
    BY CheckoutAssumption DEF Places
  <2> QED BY <2>1 DEF Request, Idle, Serving
<1>4. \A x \in Requests : req'[x] = Idle
  BY <1>2
<1>5. TypeOK'
  BY <1>1, <1>2, <1>3 DEF TypeOK
<1>6. \A x \in Requests : Shape(x)' /\ InStep(x)' /\ ~Holds(x)' /\ ~Creates(x)' /\ ~At(x,
   "waiting")'
  BY <1>4, IdleAgrees
<1>7. HeldByRequests'
  BY <1>2, <1>3, <1>4, HeldByNobody
<1>8. OneHolder' /\ OneCreator'
  BY <1>6 DEF OneHolder, OneCreator, Creates, At
<1>9. \A p \in Payments : PaymentAgrees(p)'
  BY <1>1, <1>2 DEF PaymentAgrees, TypeOK
<1>10. ASSUME NEW s \in Sessions PROVE SessionAgrees(s)'
  <2>1. SessionAgrees(s)
    BY <1>1
  <2>2. \A p \in Payments : OfSession(p, s)' => OfSession(p, s) /\ orders'[p] = orders[p]
    BY <1>1, <1>2 DEF OfSession, PaymentAgrees
  <2>3. stored[s] # None => stored[s].settlement \in Payments \cup {None}
    BY <1>1 DEF TypeOK, CheckoutSession
  <2>4. stored'[s] # None => Consistent(stored'[s])
    BY <1>2, <2>1 DEF SessionAgrees
  <2>5. \A q \in Payments : <<s, q>> \in charged' \/ OfSession(q, s)' =>
            stored'[s] # None /\ stored'[s].status \notin Live
    BY <1>2, <2>1, <2>2 DEF SessionAgrees
  <2>6. stored'[s] # None /\ stored'[s].settlement # None /\ OfSession(stored[s].settlement, s)' =>
            orders'[stored'[s].settlement].units = stored'[s].units
    <3> SUFFICES ASSUME stored[s] # None, stored[s].settlement # None,
                        OfSession(stored[s].settlement, s)'
                 PROVE  orders'[stored[s].settlement].units = stored[s].units
      BY <1>2
    <3>1. PICK p \in Payments : p = stored[s].settlement
      BY <2>3
    <3>2. OfSession(p, s)'
      BY <1>2, <3>1 DEF OfSession
    <3> QED BY <2>1, <2>2, <3>1, <3>2 DEF SessionAgrees
  <2>7. \A q, o \in Payments : <<s, q>> \in charged' /\ <<s, o>> \in charged' => q = o
    BY <1>2, <2>1 DEF SessionAgrees
  <2>8. stored'[s] # None /\ stored'[s].status = "completed" =>
            disk'[stored'[s].settlement] # None /\ disk'[stored'[s].settlement].session = s
    BY <1>2, <2>1 DEF SessionAgrees
  <2> QED BY <2>4, <2>5, <2>6, <2>7, <2>8 DEF SessionAgrees, Consistent
<1> QED BY <1>5, <1>6, <1>7, <1>8, <1>9, <1>10 DEF IInv

(* The outside world moves a price or the time. *)
LEMMA OutsideStep ==
    ASSUME IInv, UNCHANGED <<stored, placed, reserved, req, charged, crashes>>, price' \in Prices
    PROVE  IInv'
<1>1. UNCHANGED <<stored, disk, orders, stock, platformOrders, reserved, req, charged, crashes>>
  BY DEF placed
<1>2. TypeOK'
  BY <1>1 DEF IInv, TypeOK
<1>3. \A x \in Requests : Shape(x)' /\ InStep(x)'
  BY <1>1, ShapeStays DEF IInv, InStep, OfSession, At
<1>4. \A s \in Sessions : SessionAgrees(s)'
  BY <1>1, NothingShared DEF IInv, Shared
<1>5. \A p \in Payments : PaymentAgrees(p)'
  BY <1>1, PaymentsStay DEF IInv
<1>6. OneHolder' /\ OneCreator'
  BY <1>1 DEF IInv, OneHolder, OneCreator, Holds, Creates, At
<1>7. HeldByRequests'
  BY <1>1, HeldStays DEF IInv
<1> QED BY <1>2, <1>3, <1>4, <1>5, <1>6, <1>7 DEF IInv

(* It holds at the start. *)
LEMMA InitEstablishes == Init => IInv
<1> SUFFICES ASSUME Init PROVE IInv
  OBVIOUS
<1>1. Idle \in Request /\ Idle.at = "idle" /\ Idle.op = "none" /\ Idle.holds = 0
  <2>1. "idle" \in Places /\ 0 \in 0..Stock
    BY CheckoutAssumption DEF Places
  <2> QED BY <2>1 DEF Request, Idle, Serving
<1>2. \A x \in Requests : req[x] = Idle
  BY DEF Init
<1>3. TypeOK
  BY <1>1, CheckoutAssumption DEF Init, TypeOK
<1>4. \A x \in Requests : Shape(x) /\ InStep(x)
  BY <1>1, <1>2
     DEF Shape, InStep, At, Saved, Uncharged, Unordered, Quoting, Paying, Ordering
<1>5. \A s \in Sessions : SessionAgrees(s)
  BY DEF Init, SessionAgrees, OfSession
<1>6. \A p \in Payments : PaymentAgrees(p)
  BY DEF Init, PaymentAgrees
<1>7. OneHolder /\ OneCreator
  BY <1>1, <1>2 DEF OneHolder, OneCreator, Holds, Creates, At
<1>8. HeldByRequests
  <2>1. HeldUnits(Requests) = {}
    BY <1>1, <1>2, CheckoutAssumption DEF HeldUnits
  <2> QED BY <2>1, FS_EmptySet DEF HeldByRequests, HeldBy, Init
<1> QED BY <1>3, <1>4, <1>5, <1>6, <1>7, <1>8 DEF IInv

(* Every step of the specification keeps the invariant. *)
LEMMA StepPreserves == IInv /\ [Next]_vars => IInv'
<1> SUFFICES ASSUME IInv, [Next]_vars PROVE IInv'
  OBVIOUS
<1>1. ASSUME NEW r \in Requests, NEW s \in Sessions,
             \/ \E units \in Units, deliverable \in BOOLEAN :
                   Open(r, s, units, deliverable) \/ Update(r, s, units, deliverable)
             \/ Cancel(r, s) \/ CompleteUnready(r, s) \/ CompletePaid(r, s)
             \/ \E p \in Payments : CompleteReady(r, s, p)
      PROVE  IInv'
  <2>1. CASE Cancel(r, s)
    BY <2>1, ClosesStep DEF Cancel
  <2> QED BY <1>1, <2>1, OpenStep, UpdateStep, CompleteUnpaidStep, CompletePaidStep
<1>2. ASSUME NEW r \in Requests, NEW s \in Sessions, NEW op \in {"get", "cancel"},
             ReadExpired(r, s, op)
      PROVE  IInv'
  <2>1. /\ Closes(r, op, s) /\ At(r, "idle") /\ (op = "get" \/ ~Locked(s))
        /\ stored[s] # None /\ stored[s].status \notin {"completed", "complete_in_progress"}
    BY <1>2 DEF ReadExpired, PastItsTime, Live
  <2> QED BY <1>2, <2>1, ClosesStep DEF ReadExpired
<1>3. ASSUME NEW r \in Requests,
             \/ Answer(r) \/ Requote(r) \/ SaveCanceled(r)
             \/ StaleTerms(r) \/ TurnAway(r) \/ Reserve(r) \/ SaveInProgress(r)
             \/ \E outcome \in {"settled", "refused", "unknown"} : Settle(r, outcome)
             \/ Refused(r) \/ Unknown(r) \/ SaveSettlement(r)
             \/ Fulfil(r) \/ Awaken(r) \/ CreateOrder(r) \/ PlatformFails(r)
             \/ Record(r) \/ Close(r) \/ Fail(r)
      PROVE  IInv'
  BY <1>3, AnswerStep, RequoteStep, SaveCanceledStep, StaleTermsStep, TurnAwayStep, ReserveStep,
     SaveInProgressStep, SettleStep, RefusedStep, UnknownStep, SaveSettlementStep, FulfilStep,
     CreateOrderStep, RecordStep, CloseStep, FailStep
<1>4. CASE Crash
  BY <1>4, CrashStep
<1>5. CASE (\E p \in Prices : MovePrice(p)) \/ (\E s \in Sessions : Expire(s)) \/ UNCHANGED vars
  <2>1. UNCHANGED <<stored, placed, reserved, req, charged, crashes>> /\ price' \in Prices
    BY <1>5 DEF MovePrice, Expire, vars, money, outside, IInv, TypeOK
  <2> QED BY <2>1, OutsideStep
<1> QED BY <1>1, <1>2, <1>3, <1>4, <1>5 DEF Next

(* So it holds in every reachable state. *)
LEMMA Invariance == Spec => []IInv
BY InitEstablishes, StepPreserves, PTL DEF Spec

-----------------------------------------------------------------------------
(* A checkout is charged at most once, for any number of requests, payments,
   refusals, lost answers and restarts.                                     *)
THEOREM NeverChargedTwice == Spec => []ChargedOnce
<1>1. IInv => ChargedOnce
  <2> SUFFICES ASSUME IInv, NEW s \in Sessions
               PROVE  Cardinality({p \in Payments : <<s, p>> \in charged}) <= 1
    BY DEF ChargedOnce
  <2> DEFINE paid == {p \in Payments : <<s, p>> \in charged}
  <2>1. \A p, q \in paid : p = q
    BY DEF IInv, SessionAgrees
  <2> HIDE DEF paid
  <2>2. ASSUME paid = {} PROVE Cardinality(paid) <= 1
    <3>1. Cardinality(paid) = 0
      BY <2>2, FS_EmptySet
    <3> QED BY <3>1
  <2>3. ASSUME NEW p \in paid PROVE Cardinality(paid) <= 1
    <3>1. paid = {p}
      BY <2>1, <2>3
    <3>2. Cardinality(paid) = 1
      BY <3>1, FS_Singleton
    <3> QED BY <3>2
  <2>4. Cardinality(paid) <= 1
    BY <2>2, <2>3
  <2> QED BY <2>4 DEF paid
<1> QED BY <1>1, Invariance, PTL

(* Where money may have moved, the database never offers the session again. *)
THEOREM PaidIsClosed == Spec => []PaidIsNeverPayable
<1>1. IInv => PaidIsNeverPayable
  BY DEF IInv, SessionAgrees, PaidIsNeverPayable
<1> QED BY <1>1, Invariance, PTL

(* Every saved settlement passes the check its order is made behind. *)
THEOREM SettlementsAddUp == Spec => []SettledIsAccounted
<1>1. IInv => SettledIsAccounted
  BY DEF IInv, SessionAgrees, Consistent, Quoted, SettledIsAccounted, Accounted, Total
<1> QED BY <1>1, Invariance, PTL

(* A completed checkout has its own order in the database, for its units. *)
THEOREM CompletedIsOrdered == Spec => []CompletedHasItsOrder
<1>1. IInv => CompletedHasItsOrder
  <2> SUFFICES ASSUME IInv, NEW s \in Sessions, stored[s] # None, stored[s].status = "completed"
               PROVE  /\ disk[stored[s].settlement] # None
                      /\ disk[stored[s].settlement].session = s
                      /\ disk[stored[s].settlement].units = stored[s].units
    BY DEF CompletedHasItsOrder
  <2>1. SessionAgrees(s) /\ TypeOK
    BY DEF IInv
  <2>2. stored[s].settlement \in Payments
    BY <2>1 DEF SessionAgrees, Consistent, TypeOK, CheckoutSession
  <2>3. disk[stored[s].settlement] # None /\ disk[stored[s].settlement].session = s
    BY <2>1 DEF SessionAgrees
  <2>4. orders[stored[s].settlement] = disk[stored[s].settlement]
    BY <2>2, <2>3 DEF IInv, PaymentAgrees
  <2> QED BY <2>1, <2>2, <2>3, <2>4, CheckoutAssumption DEF SessionAgrees, OfSession
<1> QED BY <1>1, Invariance, PTL

(* No answer, error, refusal or restart leaks a reservation. *)
THEOREM NothingLeaks == Spec => []HeldByRequests
BY Invariance, PTL DEF IInv

(* Who writes orders. *)
LEMMA OrdersWritten ==
    ASSUME Next
    PROVE  \/ UNCHANGED orders
           \/ Crash
           \/ \E r \in Requests : CreateOrder(r) \/ PlatformFails(r)
<1>1. ASSUME NEW r \in Requests, NEW s \in Sessions,
             \/ \E units \in Units, deliverable \in BOOLEAN :
                   Open(r, s, units, deliverable) \/ Update(r, s, units, deliverable)
             \/ \E op \in {"get", "cancel"} : ReadExpired(r, s, op)
             \/ Cancel(r, s) \/ CompleteUnready(r, s) \/ CompletePaid(r, s)
             \/ \E p \in Payments : CompleteReady(r, s, p)
      PROVE  UNCHANGED orders
  BY <1>1 DEF placed, Open, Update, Asks, ReadExpired, Closes, Cancel, CompleteUnready,
     CompletePaid,
     CompleteReady
<1>2. ASSUME NEW r \in Requests,
             \/ Answer(r) \/ Requote(r) \/ SaveCanceled(r)
             \/ StaleTerms(r) \/ TurnAway(r) \/ Reserve(r) \/ SaveInProgress(r)
             \/ \E outcome \in {"settled", "refused", "unknown"} : Settle(r, outcome)
             \/ Refused(r) \/ Unknown(r) \/ SaveSettlement(r)
             \/ Fulfil(r) \/ Awaken(r) \/ Record(r) \/ Close(r) \/ Fail(r)
      PROVE  UNCHANGED orders
  BY <1>2 DEF placed, Answer, Requote, SaveCanceled, StaleTerms, TurnAway, Reserve, SaveInProgress,
     Settle, Refused, Unknown, SaveSettlement, Fulfil, Awaken, Record, Close, Fail
<1>3. CASE (\E p \in Prices : MovePrice(p)) \/ (\E s \in Sessions : Expire(s))
  BY <1>3 DEF placed, MovePrice, Expire
<1> QED BY <1>1, <1>2, <1>3 DEF Next

(* One order per settlement on the platform for each life of the server, and
   a recorded order is never replaced.                                      *)
THEOREM SettlementsOrderOnce == Spec => OneOrderPerSettlement
<1>1. IInv => \A p \in Payments : platformOrders[p] <= 1 + crashes
  BY DEF IInv, PaymentAgrees
<1>2. IInv /\ [Next]_vars =>
        [\A p \in Payments : orders[p] # None /\ orders'[p] # None => orders'[p] = orders[p]]_vars
  <2> SUFFICES ASSUME IInv, Next
               PROVE  \A p \in Payments :
                          orders[p] # None /\ orders'[p] # None => orders'[p] = orders[p]
    OBVIOUS
  <2>1. CASE UNCHANGED orders
    BY <2>1
  <2>2. CASE Crash
    BY <2>2 DEF Crash, IInv, PaymentAgrees
  <2>3. ASSUME NEW r \in Requests, CreateOrder(r) \/ PlatformFails(r)
        PROVE  \A p \in Payments : orders[p] # None /\ orders'[p] # None => orders'[p] = orders[p]
    <3>1. orders[req[r].payment] = None
      BY <2>3 DEF IInv, OneCreator, CreateOrder, PlatformFails
    <3>2. \A p \in Payments \ {req[r].payment} : orders'[p] = orders[p]
      BY <2>3 DEF CreateOrder, PlatformFails, IInv, TypeOK
    <3> QED BY <3>1, <3>2
  <2> QED BY <2>1, <2>2, <2>3, OrdersWritten
<1>3. Spec => [](\A p \in Payments : platformOrders[p] <= 1 + crashes)
  BY <1>1, Invariance, PTL
<1>4. Spec => [][\A p \in Payments :
                   orders[p] # None /\ orders'[p] # None => orders'[p] = orders[p]]_vars
  BY <1>2, Invariance, PTL DEF Spec
<1> QED BY <1>3, <1>4 DEF OneOrderPerSettlement
=============================================================================
