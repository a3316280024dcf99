------------------------ MODULE WebhookOutboxProofs -------------------------
(***************************************************************************)
(* The lease of a claimed row and the end of its attempts, for any number   *)
(* of events, endpoints and overlapping passes.                             *)
(***************************************************************************)
EXTENDS WebhookOutbox, FiniteSetTheorems, TLAPS

Claimed == [attempts : Nat, lease : Nat]
Hands == UNION {[rs -> Claimed] : rs \in SUBSET Rows}

TypeOK ==
    /\ mandate \in [Mandates -> {"none", "active", "revoked"}]
    /\ purchase \in [Purchases -> {"none"} \cup Outcomes]
    /\ row \in [Rows -> Delivery \cup {None}]
    /\ pass \in [Passes -> Hands]
    /\ overran \in BOOLEAN
    /\ faults \in Nat

(* A change that has not happened has queued nothing. *)
Queues(change) == \E e \in Endpoints : row[<<change, e>>] # None
QueuedOnce ==
    /\ \A m \in Mandates :
          /\ mandate[m] = "none" => ~Queues(<<"mandate.activated", m>>)
          /\ mandate[m] # "revoked" => ~Queues(<<"mandate.revoked", m>>)
    /\ \A p \in Purchases :
          purchase[p] = "none" =>
              ~Queues(<<"payment.settled", p>>) /\ ~Queues(<<"payment.refused", p>>)

(* The passes that have row r in their hands, and those of them whose attempt
   was not the last one.                                                    *)
Holders(r) == {d \in Passes : r \in DOMAIN pass[d]}
Early(r) == {d \in Holders(r) : pass[d][r].attempts < MaxAttempts}

(* What is claimed was queued. *)
ClaimsAreRows ==
    \A d \in Passes : \A r \in DOMAIN pass[d] : row[r] # None

(* While no lease has run out, the row and the claim run down together, so
   the row is not due and nobody else takes it.                             *)
InLease(r) ==
    /\ \A d \in Holders(r) :
          /\ Owed(r)
          /\ pass[d][r].attempts = row[r].attempts
          /\ pass[d][r].lease = row[r].wait /\ row[r].wait > 0
    /\ \A d1, d2 \in Holders(r) : d1 = d2
    /\ row[r] # None =>
          /\ ~(row[r].delivered /\ row[r].gaveUp)
          /\ row[r].attempts <= MaxAttempts + faults
          /\ Owed(r) /\ Holders(r) = {} /\ row[r].attempts >= MaxAttempts =>
                row[r].attempts < MaxAttempts + faults

(* What can still be added to the attempts of a row that had its last: one by
   each pass that is free, and one by each pass whenever an early attempt
   takes the giving up back.                                                *)
Free(r) == IF Owed(r) THEN Cardinality(Passes) - Cardinality(Holders(r)) ELSE 0
Ending(r) ==
    row[r] # None /\ row[r].attempts >= MaxAttempts =>
        row[r].attempts + Free(r) + Cardinality(Passes) * Cardinality(Early(r))
            <= MaxAttempts + faults + Cardinality(Passes) * (Cardinality(Passes) - 1)

IInv ==
    /\ TypeOK
    /\ QueuedOnce
    /\ ClaimsAreRows
    /\ ~overran => \A r \in Rows : InLease(r)
    /\ \A r \in Rows : Ending(r)

-----------------------------------------------------------------------------
(* What a pass has in its hands is a function on rows. *)
LEMMA HandsShape ==
    ASSUME NEW h \in Hands
    PROVE  /\ DOMAIN h \subseteq Rows
           /\ \A r \in DOMAIN h : h[r] \in Claimed
<1>1. PICK rs \in SUBSET Rows : h \in [rs -> Claimed]
  BY DEF Hands
<1> QED BY <1>1

(* And whatever is a function from rows to claims can be in them. *)
LEMMA HandsOf ==
    ASSUME NEW rs \in SUBSET Rows, NEW h \in [rs -> Claimed]
    PROVE  h \in Hands
BY DEF Hands

(* The passes that hold a row are some of the passes. *)
LEMMA HoldersCount ==
    ASSUME NEW r \in Rows
    PROVE  /\ Cardinality(Passes) \in Nat
           /\ IsFiniteSet(Holders(r)) /\ IsFiniteSet(Early(r))
           /\ Cardinality(Holders(r)) \in 0..Cardinality(Passes)
           /\ Cardinality(Early(r)) \in 0..Cardinality(Holders(r))
<1>1. IsFiniteSet(Passes) /\ Holders(r) \in SUBSET Passes /\ Early(r) \in SUBSET Holders(r)
  BY OutboxAssumption DEF Holders, Early
<1>2. /\ IsFiniteSet(Holders(r)) /\ Cardinality(Holders(r)) <= Cardinality(Passes)
  BY <1>1, FS_Subset
<1>3. /\ IsFiniteSet(Early(r)) /\ Cardinality(Early(r)) <= Cardinality(Holders(r))
  BY <1>1, <1>2, FS_Subset
<1>4. /\ Cardinality(Passes) \in Nat /\ Cardinality(Holders(r)) \in Nat
      /\ Cardinality(Early(r)) \in Nat
  BY <1>1, <1>2, <1>3, FS_CardinalityType
<1> QED BY <1>2, <1>3, <1>4

(* Nobody took or lost the row. *)
SameHands(r) ==
    /\ \A d \in Passes : r \in DOMAIN pass'[d] <=> r \in DOMAIN pass[d]
    /\ \A d \in Passes : r \in DOMAIN pass[d] => pass'[d][r].attempts = pass[d][r].attempts

(* Hands that did not change hold what they held. *)
LEMMA SameHolders ==
    ASSUME NEW r \in Rows, SameHands(r)
    PROVE  Holders(r)' = Holders(r) /\ Early(r)' = Early(r)
BY DEF SameHands, Holders, Early

(* Pass d no longer has the row. *)
Drops(d, r) ==
    /\ r \in DOMAIN pass[d] /\ r \notin DOMAIN pass'[d]
    /\ \A x \in Passes \ {d} : pass'[x] = pass[x]

(* A pass that lets go leaves one holder less. *)
LEMMA OneHolderLess ==
    ASSUME NEW r \in Rows, NEW d \in Passes, Drops(d, r)
    PROVE  /\ d \in Holders(r)
           /\ Holders(r)' = Holders(r) \ {d} /\ Early(r)' = Early(r) \ {d}
BY DEF Drops, Holders, Early

(* A row nobody touched: its lease is as it was. *)
LEMMA UntouchedRow ==
    ASSUME TypeOK, NEW r \in Rows, row'[r] = row[r], faults' \in Nat, faults' >= faults,
           \A d \in Passes : r \in DOMAIN pass'[d] <=> r \in DOMAIN pass[d],
           \A d \in Passes : r \in DOMAIN pass[d] => pass'[d][r] = pass[d][r]
    PROVE  (InLease(r) => InLease(r)') /\ (Ending(r) => Ending(r)')
<1>1. Holders(r)' = Holders(r) /\ Early(r)' = Early(r)
  BY SameHolders DEF SameHands
<1>2. Owed(r)' = Owed(r)
  BY DEF Owed
<1>3. \A d \in Holders(r) : pass'[d][r] = pass[d][r]
  BY DEF Holders
<1>4. row[r] # None => row[r].attempts \in Nat
  BY DEF TypeOK, Delivery
<1>5. faults \in Nat /\ MaxAttempts \in Nat
  BY OutboxAssumption DEF TypeOK
<1>6. ASSUME InLease(r) PROVE InLease(r)'
  <2>1. /\ \A d \in Holders(r)' :
              /\ Owed(r)'
              /\ pass'[d][r].attempts = row'[r].attempts
              /\ pass'[d][r].lease = row'[r].wait /\ row'[r].wait > 0
        /\ \A d1, d2 \in Holders(r)' : d1 = d2
    BY <1>1, <1>2, <1>3, <1>6 DEF InLease
  <2>2. row'[r] # None =>
          /\ ~(row'[r].delivered /\ row'[r].gaveUp)
          /\ row'[r].attempts <= MaxAttempts + faults'
          /\ Owed(r)' /\ Holders(r)' = {} /\ row'[r].attempts >= MaxAttempts =>
                row'[r].attempts < MaxAttempts + faults'
    BY <1>1, <1>2, <1>4, <1>5, <1>6 DEF InLease
  <2> QED BY <2>1, <2>2 DEF InLease
<1>7. ASSUME Ending(r) PROVE Ending(r)'
  <2> DEFINE p == Cardinality(Passes)
             l == p * Cardinality(Early(r))
             b == p * (p - 1)
  <2>1. Free(r)' = Free(r) /\ Free(r) \in Int /\ l \in Int /\ b \in Int
    BY <1>1, <1>2, HoldersCount DEF Free
  <2>2. Ending(r) <=> (row[r] # None /\ row[r].attempts >= MaxAttempts =>
                         row[r].attempts + Free(r) + l <= MaxAttempts + faults + b)
    BY DEF Ending
  <2>3. Ending(r)' <=> (row[r] # None /\ row[r].attempts >= MaxAttempts =>
                         row[r].attempts + Free(r) + l <= MaxAttempts + faults' + b)
    BY <1>1, <2>1 DEF Ending
  <2> HIDE DEF l, b
  <2> QED BY <1>4, <1>5, <1>7, <2>1, <2>2, <2>3
<1> QED BY <1>6, <1>7

(* A row that was just queued is nobody's, and has had no attempt. *)
LEMMA QueuedRow ==
    ASSUME NEW r \in Rows, TypeOK, ClaimsAreRows, UNCHANGED <<pass, overran, faults>>,
           row'[r] = row[r] \/ (row[r] = None /\ row'[r] = Queued)
    PROVE  (InLease(r) => InLease(r)') /\ (Ending(r) => Ending(r)')
<1>1. CASE row'[r] = row[r]
  BY <1>1, UntouchedRow DEF TypeOK
<1>2. CASE row[r] = None /\ row'[r] = Queued
  <2>1. Holders(r)' = {}
    BY <1>2 DEF Holders, ClaimsAreRows
  <2>2. row'[r].attempts = 0 /\ ~row'[r].delivered /\ ~row'[r].gaveUp
    BY <1>2 DEF Queued
  <2>3. MaxAttempts \in Nat /\ MaxAttempts > 0 /\ faults' \in Nat
    BY OutboxAssumption DEF TypeOK
  <2>4. InLease(r)'
    BY <2>1, <2>2, <2>3 DEF InLease
  <2>5. Ending(r)'
    BY <2>2, <2>3 DEF Ending
  <2> QED BY <2>4, <2>5
<1> QED BY <1>1, <1>2

(* The count of attempts that may still come, when a pass is done with its
   row: a lost mark leaves room for one more, a last attempt that was marked
   for none, and an early one for one by each pass.                         *)
LEMMA DroppedEnds ==
    ASSUME TypeOK, NEW r \in Rows, NEW d \in Passes, Drops(d, r), Ending(r), row[r] # None,
           row'[r] # None, row'[r].attempts = row[r].attempts,
           \/ faults' = faults + 1 /\ Owed(r)' = Owed(r)
           \/ faults' = faults /\ (d \notin Early(r) => ~Owed(r)')
    PROVE  Ending(r)'
<1>1. d \in Holders(r) /\ Holders(r)' = Holders(r) \ {d} /\ Early(r)' = Early(r) \ {d}
  BY OneHolderLess
<1> DEFINE p == Cardinality(Passes)
           h == Cardinality(Holders(r))
           e == Cardinality(Early(r))
           h2 == Cardinality(Holders(r) \ {d})
           e2 == Cardinality(Early(r) \ {d})
<1>2. p \in Nat /\ h \in 0..p /\ e \in 0..h
  BY HoldersCount
<1>3. h2 = h - 1 /\ e2 = IF d \in Early(r) THEN e - 1 ELSE e
  BY <1>1, HoldersCount, FS_RemoveElement
<1>4. row[r].attempts \in Nat /\ faults \in Nat /\ MaxAttempts \in Nat
  BY OutboxAssumption DEF TypeOK, Delivery
<1>5. h2 \in 0..p /\ e2 \in 0..h2
  <2>1. IsFiniteSet(Holders(r) \ {d}) /\ Early(r) \ {d} \in SUBSET (Holders(r) \ {d})
    BY HoldersCount, FS_RemoveElement DEF Early
  <2>2. IsFiniteSet(Early(r) \ {d}) /\ e2 <= h2 /\ h2 \in Nat /\ e2 \in Nat
    BY <2>1, FS_Subset, FS_CardinalityType
  <2> QED BY <1>2, <1>3, <2>2
<1>6. Free(r) = (IF Owed(r) THEN p - h ELSE 0) /\ Free(r)' = IF Owed(r)' THEN p - h2 ELSE 0
  BY <1>1 DEF Free
<1>7. Ending(r) <=> (row[r].attempts >= MaxAttempts =>
          row[r].attempts + Free(r) + p * e <= MaxAttempts + faults + p * (p - 1))
  BY DEF Ending
<1>8. Ending(r)' <=> (row[r].attempts >= MaxAttempts =>
          row[r].attempts + Free(r)' + p * e2 <= MaxAttempts + faults' + p * (p - 1))
  BY <1>1 DEF Ending
<1> HIDE DEF p, h, e, h2, e2
<1> DEFINE b == p * (p - 1)
           l == p * e
           l2 == p * e2
<1>9. b \in Int /\ l \in Int /\ l2 = IF d \in Early(r) THEN l - p ELSE l
  <2>1. p * (e - 1) = p * e - p
    BY <1>2
  <2> QED BY <1>2, <1>3, <2>1
<1> HIDE DEF b, l, l2
<1>10. Ending(r) <=> (row[r].attempts >= MaxAttempts =>
          row[r].attempts + Free(r) + l <= MaxAttempts + faults + b)
  BY <1>7 DEF b, l
<1>11. Ending(r)' <=> (row[r].attempts >= MaxAttempts =>
          row[r].attempts + Free(r)' + l2 <= MaxAttempts + faults' + b)
  BY <1>8 DEF b, l2
<1>12. CASE faults' = faults + 1 /\ Owed(r)' = Owed(r)
  BY <1>2, <1>3, <1>4, <1>6, <1>9, <1>10, <1>11, <1>12
<1>13. CASE faults' = faults /\ (d \notin Early(r) => ~Owed(r)')
  BY <1>2, <1>3, <1>4, <1>5, <1>6, <1>9, <1>10, <1>11, <1>13
<1> QED BY <1>12, <1>13

(* A mark that was lost leaves the row to its lease. *)
LEMMA LostLease ==
    ASSUME TypeOK, NEW r \in Rows, NEW d \in Passes, Drops(d, r), InLease(r), row[r] # None,
           row'[r] = row[r], faults' = faults + 1
    PROVE  InLease(r)'
<1>1. d \in Holders(r) /\ Holders(r)' = Holders(r) \ {d}
  BY OneHolderLess
<1>2. Holders(r)' = {}
  BY <1>1 DEF InLease
<1>3. row[r].attempts \in Nat /\ faults \in Nat /\ MaxAttempts \in Nat
  BY OutboxAssumption DEF TypeOK, Delivery
<1> QED BY <1>2, <1>3 DEF InLease

(* What a mark writes. *)
LEMMA MarkWrites ==
    ASSUME NEW r \in Rows, row[r] \in Delivery, NEW answer \in Answers, NEW n \in Nat
    PROVE  LET m == Marked(r, answer, n)
           IN  /\ m \in Delivery /\ m.attempts = row[r].attempts
               /\ n >= MaxAttempts => m.delivered \/ m.gaveUp
               /\ ~row[r].delivered /\ ~row[r].gaveUp => ~(m.delivered /\ m.gaveUp)
<1>1. Backoff(n) \in Nat
  <2> DEFINE minutes == 3 ^ (IF n > 1 THEN n - 1 ELSE 0)
  <2>1. Backoff(n) = IF minutes \in 1..135 THEN minutes ELSE 135
    BY DEF Backoff
  <2> HIDE DEF minutes
  <2> QED BY <2>1
<1>2. GiveUp(answer, n) \in BOOLEAN
  BY DEF GiveUp
<1>3. CASE answer = "ok"
  BY <1>3 DEF Marked, Delivery
<1>4. CASE answer # "ok"
  <2> DEFINE g == GiveUp(answer, n)
             w == IF g THEN row[r].wait ELSE Backoff(n)
  <2>1. Marked(r, answer, n) = [row[r] EXCEPT !.gaveUp = g, !.wait = w]
    BY <1>4 DEF Marked
  <2>2. g \in BOOLEAN /\ w \in Nat /\ (n >= MaxAttempts => g)
    BY <1>1, <1>2 DEF GiveUp, Delivery
  <2> HIDE DEF g, w
  <2> QED BY <2>1, <2>2 DEF Delivery
<1> QED BY <1>3, <1>4

(* The pass that claimed a row marks it: it was the row's last attempt, and
   the row is over if it was the last one allowed.                          *)
LEMMA MarkedLease ==
    ASSUME TypeOK, NEW r \in Rows, NEW d \in Passes, Drops(d, r), InLease(r), row[r] # None,
           NEW answer \in Answers, row'[r] = Marked(r, answer, pass[d][r].attempts),
           faults' = faults
    PROVE  InLease(r)'
<1>1. d \in Holders(r) /\ Holders(r)' = Holders(r) \ {d}
  BY OneHolderLess
<1>2. Holders(r)' = {} /\ Owed(r) /\ pass[d][r].attempts = row[r].attempts
  BY <1>1 DEF InLease
<1>3. row[r] \in Delivery /\ row[r].attempts \in Nat /\ faults \in Nat /\ MaxAttempts \in Nat
  BY OutboxAssumption DEF TypeOK, Delivery
<1>4. /\ row'[r] \in Delivery /\ row'[r].attempts = row[r].attempts
      /\ row[r].attempts >= MaxAttempts => row'[r].delivered \/ row'[r].gaveUp
      /\ ~(row'[r].delivered /\ row'[r].gaveUp)
  BY <1>2, <1>3, MarkWrites DEF Owed
<1>5. row[r].attempts >= MaxAttempts => ~Owed(r)'
  BY <1>4 DEF Owed
<1>6. row[r].attempts <= MaxAttempts + faults
  BY DEF InLease
<1> QED BY <1>2, <1>3, <1>4, <1>5, <1>6 DEF InLease

(* A claim of a due row: its lease begins. *)
Takes(d, r) ==
    /\ Owed(r) /\ row[r].wait = 0
    /\ row'[r] = [row[r] EXCEPT !.attempts = @ + 1, !.wait = Lease]
    /\ r \notin DOMAIN pass[d] /\ r \in DOMAIN pass'[d]
    /\ pass'[d][r] = [attempts |-> row[r].attempts + 1, lease |-> Lease]
    /\ \A x \in Passes \ {d} : pass'[x] = pass[x]
    /\ faults' = faults

(* A claim counts an attempt and leases the row to one more pass. *)
LEMMA TakenRow ==
    ASSUME TypeOK, NEW r \in Rows, NEW d \in Passes, Takes(d, r)
    PROVE  /\ row[r] \in Delivery /\ row[r].attempts \in Nat
           /\ row'[r] \in Delivery /\ row'[r].attempts = row[r].attempts + 1
           /\ row'[r].wait = Lease
           /\ ~row'[r].delivered /\ ~row'[r].gaveUp /\ Owed(r)'
           /\ d \notin Holders(r) /\ Holders(r)' = Holders(r) \cup {d}
           /\ Early(r)' = Early(r) \cup (IF row[r].attempts + 1 < MaxAttempts THEN {d} ELSE {})
<1>1. row[r] \in Delivery /\ Lease \in Nat
  BY OutboxAssumption DEF TypeOK, Takes, Owed
<1>2. /\ row[r].attempts \in Nat
      /\ row'[r] \in Delivery /\ row'[r].attempts = row[r].attempts + 1
      /\ row'[r].wait = Lease
      /\ ~row'[r].delivered /\ ~row'[r].gaveUp
  <2>1. /\ row'[r] = [row[r] EXCEPT !.attempts = row[r].attempts + 1, !.wait = Lease]
        /\ ~row[r].delivered /\ ~row[r].gaveUp
    BY DEF Takes, Owed
  <2>2. row[r].attempts \in Nat /\ row[r].attempts + 1 \in Nat
    BY <1>1 DEF Delivery
  <2>3. row'[r] \in Delivery
    BY <1>1, <2>1, <2>2 DEF Delivery
  <2>4. /\ row'[r].attempts = row[r].attempts + 1 /\ row'[r].wait = Lease
        /\ row'[r].delivered = row[r].delivered /\ row'[r].gaveUp = row[r].gaveUp
    BY <1>1, <2>1 DEF Delivery
  <2> QED BY <2>1, <2>2, <2>3, <2>4
<1>3. Owed(r)'
  BY <1>2, NoneAssumption DEF Owed
<1>4. d \notin Holders(r) /\ Holders(r)' = Holders(r) \cup {d}
  BY DEF Takes, Holders
<1>5. Early(r)' = Early(r) \cup (IF row[r].attempts + 1 < MaxAttempts THEN {d} ELSE {})
  BY <1>2, <1>4 DEF Early, Takes, Holders
<1> QED BY <1>1, <1>2, <1>3, <1>4, <1>5

(* Only a row that is due is claimed, and a row in lease is not due. *)
LEMMA TakenLease ==
    ASSUME TypeOK, NEW r \in Rows, NEW d \in Passes, Takes(d, r), InLease(r)
    PROVE  InLease(r)'
<1>1. Holders(r) = {}
  BY DEF InLease, Takes
<1>2. Holders(r)' = {d}
  BY <1>1, TakenRow
<1>3. MaxAttempts \in Nat /\ Lease \in Nat /\ Lease > 0 /\ faults \in Nat /\ faults' = faults
  BY OutboxAssumption DEF TypeOK, Takes
<1>4. row[r] # None /\ row[r].attempts \in Nat /\ Owed(r)
  BY TakenRow DEF Takes, Owed
<1>5. row[r].attempts + 1 <= MaxAttempts + faults
  <2>1. CASE row[r].attempts >= MaxAttempts
    BY <1>1, <1>3, <1>4, <2>1 DEF InLease
  <2>2. CASE row[r].attempts < MaxAttempts
    BY <1>3, <1>4, <2>2
  <2> QED BY <1>3, <1>4, <2>1, <2>2
<1>6. pass'[d][r].attempts = row'[r].attempts /\ pass'[d][r].lease = row'[r].wait
  <2>1. row'[r].attempts = row[r].attempts + 1 /\ row'[r].wait = Lease
    BY TakenRow
  <2>2. pass'[d][r] = [attempts |-> row[r].attempts + 1, lease |-> Lease]
    BY DEF Takes
  <2> QED BY <2>1, <2>2
<1>7. /\ row'[r].attempts = row[r].attempts + 1 /\ row'[r].wait = Lease
      /\ ~row'[r].delivered /\ Owed(r)'
  BY TakenRow
<1> QED BY <1>2, <1>3, <1>5, <1>6, <1>7 DEF InLease

(* A last attempt uses up one pass of those that were free. *)
LEMMA TakenEnds ==
    ASSUME TypeOK, NEW r \in Rows, NEW d \in Passes, Takes(d, r), Ending(r)
    PROVE  Ending(r)'
<1> DEFINE p == Cardinality(Passes)
           h == Cardinality(Holders(r))
           e == Cardinality(Early(r))
           n == row[r].attempts
<1>1. SUFFICES ASSUME n + 1 >= MaxAttempts PROVE Ending(r)'
  BY TakenRow DEF Ending
<1>2. n \in Nat /\ MaxAttempts \in Nat /\ faults \in Nat /\ faults' = faults
  BY TakenRow, OutboxAssumption DEF TypeOK, Takes
<1>3. Holders(r)' = Holders(r) \cup {d} /\ d \notin Holders(r) /\ Early(r)' = Early(r)
  BY <1>1, <1>2, TakenRow
<1>4. p \in Nat /\ h \in 0..p /\ e \in 0..h
  BY HoldersCount
<1>5. Cardinality(Holders(r) \cup {d}) = h + 1 /\ h + 1 <= p
  <2>1. Cardinality(Holders(r) \cup {d}) = h + 1
    BY <1>3, HoldersCount, FS_AddElement
  <2>2. Holders(r) \cup {d} \in SUBSET Passes
    BY DEF Holders
  <2>3. Cardinality(Holders(r) \cup {d}) <= Cardinality(Passes)
    BY <2>2, OutboxAssumption, FS_Subset
  <2> QED BY <2>1, <2>3
<1>6. Free(r) = p - h /\ Free(r)' = p - (h + 1)
  BY <1>3, <1>5, TakenRow DEF Free, Takes
<1>7. row[r] # None /\ row'[r] # None /\ row'[r].attempts = n + 1
  BY TakenRow, NoneAssumption
<1>8. Ending(r)' <=> (n + 1) + (p - (h + 1)) + p * e <= MaxAttempts + faults + p * (p - 1)
  BY <1>1, <1>2, <1>3, <1>6, <1>7 DEF Ending
<1>9. CASE n >= MaxAttempts
  <2>1. n + (p - h) + p * e <= MaxAttempts + faults + p * (p - 1)
    BY <1>6, <1>7, <1>9 DEF Ending
  <2> HIDE DEF p, h, e, n
  <2>2. p * e \in Int /\ p * (p - 1) \in Int
    BY <1>4
  <2> QED BY <1>2, <1>4, <1>8, <2>1, <2>2
<1>10. CASE n < MaxAttempts
  <2> HIDE DEF p, h, e, n
  <2>1. n + 1 = MaxAttempts
    BY <1>1, <1>2, <1>10
  <2>2. p * e = (p - 1) * e + e /\ p * (p - 1) = (p - 1) * (p - 1) + (p - 1)
    BY <1>4
  <2>3. p - 1 \in Nat /\ e \in Nat /\ e <= p - 1
    BY <1>4, <1>5
  <2>4. (p - 1) * e <= (p - 1) * (p - 1)
    BY <2>3
  <2>5. (p - 1) * e \in Int /\ (p - 1) * (p - 1) \in Int
    BY <2>3
  <2> QED BY <1>2, <1>4, <1>5, <1>8, <2>1, <2>2, <2>3, <2>4, <2>5
<1> QED BY <1>2, <1>9, <1>10

(* Time: the row and the claim run down together. *)
LEMMA AgedRow ==
    ASSUME TypeOK, NEW r \in Rows, SameHands(r), faults' = faults,
           row'[r] = IF Owed(r) THEN [row[r] EXCEPT !.wait = Less(@)] ELSE row[r]
    PROVE  /\ row'[r] = None <=> row[r] = None
           /\ row[r] # None => /\ row'[r] \in Delivery
                               /\ row'[r].attempts = row[r].attempts
                               /\ row'[r].delivered = row[r].delivered
                               /\ row'[r].gaveUp = row[r].gaveUp
                               /\ row'[r].wait = IF Owed(r) THEN Less(row[r].wait) ELSE row[r].wait
           /\ Owed(r)' = Owed(r)
           /\ Ending(r) => Ending(r)'
<1>1. /\ row'[r] = None <=> row[r] = None
      /\ row[r] # None => /\ row'[r] \in Delivery
                          /\ row'[r].attempts = row[r].attempts
                          /\ row'[r].delivered = row[r].delivered
                          /\ row'[r].gaveUp = row[r].gaveUp
                          /\ row'[r].wait = IF Owed(r) THEN Less(row[r].wait) ELSE row[r].wait
  <2>1. CASE Owed(r)
    <3>1. row[r] \in Delivery /\ row[r] # None /\ Less(row[r].wait) \in Nat
      BY <2>1 DEF Owed, TypeOK, Delivery, Less
    <3>2. row'[r] = [row[r] EXCEPT !.wait = Less(row[r].wait)]
      BY <2>1
    <3>3. row'[r] \in Delivery
      BY <3>1, <3>2 DEF Delivery
    <3> QED BY <2>1, <3>1, <3>2, <3>3, NoneAssumption DEF Delivery
  <2>2. CASE ~Owed(r)
    BY <2>2 DEF TypeOK
  <2> QED BY <2>1, <2>2
<1>2. Owed(r)' = Owed(r)
  BY <1>1 DEF Owed
<1>3. Holders(r)' = Holders(r) /\ Early(r)' = Early(r)
  BY SameHolders
<1>4. Free(r)' = Free(r)
  BY <1>2, <1>3 DEF Free
<1> QED BY <1>1, <1>2, <1>3, <1>4 DEF Ending

(* As long as no lease ran out in this minute, none has: the row a pass holds
   is still not due.                                                        *)
LEMMA AgedLease ==
    ASSUME TypeOK, NEW r \in Rows, SameHands(r), faults' = faults,
           row'[r] = IF Owed(r) THEN [row[r] EXCEPT !.wait = Less(@)] ELSE row[r],
           \A d \in Holders(r) : /\ pass[d][r].lease \in Nat /\ pass[d][r].lease > 1
                                 /\ pass'[d][r].lease = Less(pass[d][r].lease),
           InLease(r)
    PROVE  InLease(r)'
<1>1. Holders(r)' = Holders(r) /\ Owed(r)' = Owed(r)
  BY SameHolders, AgedRow
<1>2. /\ row'[r] = None <=> row[r] = None
      /\ row[r] # None => /\ row'[r].attempts = row[r].attempts
                          /\ row'[r].delivered = row[r].delivered
                          /\ row'[r].gaveUp = row[r].gaveUp
                          /\ row'[r].wait = IF Owed(r) THEN Less(row[r].wait) ELSE row[r].wait
  BY AgedRow
<1>3. ASSUME NEW d \in Holders(r)
      PROVE  /\ Owed(r)'
             /\ pass'[d][r].attempts = row'[r].attempts
             /\ pass'[d][r].lease = row'[r].wait /\ row'[r].wait > 0
  <2>1. /\ Owed(r) /\ row[r] # None
        /\ pass[d][r].attempts = row[r].attempts /\ pass[d][r].lease = row[r].wait
    BY DEF InLease, Owed
  <2>2. pass'[d][r].attempts = pass[d][r].attempts
    BY DEF SameHands, Holders
  <2> QED BY <1>1, <1>2, <2>1, <2>2 DEF Less
<1>4. /\ \A d1, d2 \in Holders(r) : d1 = d2
      /\ row[r] # None =>
          /\ ~(row[r].delivered /\ row[r].gaveUp)
          /\ row[r].attempts <= MaxAttempts + faults
          /\ Owed(r) /\ Holders(r) = {} /\ row[r].attempts >= MaxAttempts =>
                row[r].attempts < MaxAttempts + faults
  BY DEF InLease
<1> QED BY <1>1, <1>2, <1>3, <1>4 DEF InLease

-----------------------------------------------------------------------------
(* What each step does to the hands of the passes. *)

(* A pass is done with one row, by a mark or by a mark that was lost. *)
LEMMA LetGo ==
    ASSUME TypeOK, NEW d \in Passes, NEW r \in DOMAIN pass[d], pass' = Without(d, r)
    PROVE  /\ r \in Rows /\ pass' \in [Passes -> Hands]
           /\ Drops(d, r)
           /\ \A x \in Passes : DOMAIN pass'[x] \subseteq DOMAIN pass[x]
           /\ \A x \in Passes, q \in Rows : q # r =>
                /\ q \in DOMAIN pass'[x] <=> q \in DOMAIN pass[x]
                /\ q \in DOMAIN pass[x] => pass'[x][q] = pass[x][q]
<1> DEFINE h == [q \in DOMAIN pass[d] \ {r} |-> pass[d][q]]
<1>1. pass \in [Passes -> Hands] /\ pass' = [pass EXCEPT ![d] = h]
  BY DEF TypeOK, Without
<1>2. pass[d] \in Hands
  BY <1>1
<1>3. DOMAIN pass[d] \subseteq Rows /\ \A q \in DOMAIN pass[d] : pass[d][q] \in Claimed
  BY <1>2, HandsShape
<1>4. h \in Hands
  <2>1. DOMAIN pass[d] \ {r} \in SUBSET Rows /\ h \in [DOMAIN pass[d] \ {r} -> Claimed]
    BY <1>3
  <2> HIDE DEF h
  <2> QED BY <2>1, HandsOf
<1>5. DOMAIN h = DOMAIN pass[d] \ {r} /\ \A q \in DOMAIN pass[d] \ {r} : h[q] = pass[d][q]
  OBVIOUS
<1> HIDE DEF h
<1>6. pass' \in [Passes -> Hands] /\ pass'[d] = h /\ \A x \in Passes \ {d} : pass'[x] = pass[x]
  BY <1>1, <1>4
<1>7. Drops(d, r)
  BY <1>5, <1>6 DEF Drops
<1>8. \A x \in Passes : DOMAIN pass'[x] \subseteq DOMAIN pass[x]
  BY <1>5, <1>6
<1>9. ASSUME NEW x \in Passes, NEW q \in Rows, q # r
      PROVE  /\ q \in DOMAIN pass'[x] <=> q \in DOMAIN pass[x]
             /\ q \in DOMAIN pass[x] => pass'[x][q] = pass[x][q]
  BY <1>5, <1>6, <1>9
<1> QED BY <1>3, <1>6, <1>7, <1>8, <1>9

(* The row is in the hands it was in. *)
Kept(r) ==
    /\ \A d \in Passes : r \in DOMAIN pass'[d] <=> r \in DOMAIN pass[d]
    /\ \A d \in Passes : r \in DOMAIN pass[d] => pass'[d][r] = pass[d][r]

(* A pass dies with all the rows in its hands. *)
LEMMA Died ==
    ASSUME TypeOK, NEW d \in Passes, pass' = [pass EXCEPT ![d] = Idle]
    PROVE  /\ pass' \in [Passes -> Hands]
           /\ \A x \in Passes : DOMAIN pass'[x] \subseteq DOMAIN pass[x]
           /\ \A r \in Rows : Drops(d, r) \/ Kept(r)
<1>1. Idle \in Hands /\ DOMAIN Idle = {}
  <2>1. Idle \in [{} -> Claimed]
    BY DEF Idle
  <2> QED BY <2>1, HandsOf
<1>2. /\ pass' \in [Passes -> Hands] /\ pass'[d] = Idle
      /\ \A x \in Passes \ {d} : pass'[x] = pass[x]
  BY <1>1 DEF TypeOK
<1> QED BY <1>1, <1>2 DEF Drops, Kept

(* The number of the attempt a claim counts. *)
LEMMA NextAttempt == \A x \in Delivery : x.attempts + 1 \in Nat
BY DEF Delivery

(* A pass claims a batch of due rows. *)
LEMMA TookBatch ==
    ASSUME TypeOK, NEW d \in Passes, pass[d] = Idle, NEW rs \in SUBSET Due,
           row' = [r \in Rows |-> IF r \in rs
                                  THEN [row[r] EXCEPT !.attempts = @ + 1, !.wait = Lease]
                                  ELSE row[r]],
           pass' = [pass EXCEPT ![d] = Taken(rs)], faults' = faults
    PROVE  /\ pass' \in [Passes -> Hands]
           /\ \A r \in Rows : r \in rs => Takes(d, r)
           /\ \A r \in Rows : r \notin rs => Kept(r) /\ row'[r] = row[r]
           /\ \A x \in Passes : DOMAIN pass'[x] \subseteq DOMAIN pass[x] \cup rs
<1>1. rs \subseteq Rows /\ \A r \in rs : Owed(r) /\ row[r].wait = 0
  BY DEF Due
<1>2. \A r \in rs : row[r] \in Delivery /\ row[r].attempts + 1 \in Nat
  <2>1. \A r \in rs : row[r] \in Delivery
    BY <1>1 DEF TypeOK, Owed
  <2> QED BY <2>1, NextAttempt
<1>3. Taken(rs) \in Hands
  <2>1. \A r \in rs : [attempts |-> row[r].attempts + 1, lease |-> Lease] \in Claimed
    BY <1>2, OutboxAssumption DEF Claimed
  <2>2. Taken(rs) \in [rs -> Claimed]
    BY <2>1 DEF Taken
  <2> QED BY <1>1, <2>2, HandsOf
<1>4. /\ pass' \in [Passes -> Hands] /\ pass'[d] = Taken(rs)
      /\ \A x \in Passes \ {d} : pass'[x] = pass[x]
  BY <1>3 DEF TypeOK
<1>5. DOMAIN Idle = {}
  BY DEF Idle
<1>6. DOMAIN Taken(rs) = rs
  BY DEF Taken
<1>7. \A r \in rs : Taken(rs)[r] = [attempts |-> row[r].attempts + 1, lease |-> Lease]
  BY DEF Taken
<1>8. ASSUME NEW r \in rs PROVE Takes(d, r)
  <2>1. row'[r] = [row[r] EXCEPT !.attempts = @ + 1, !.wait = Lease]
    BY <1>1
  <2> QED BY <1>1, <1>4, <1>5, <1>6, <1>7, <2>1 DEF Takes
<1>9. ASSUME NEW r \in Rows, r \notin rs PROVE Kept(r) /\ row'[r] = row[r]
  <2>1. row'[r] = row[r]
    BY <1>9
  <2> QED BY <1>4, <1>5, <1>6, <1>9, <2>1 DEF Kept
<1>10. \A x \in Passes : DOMAIN pass'[x] \subseteq DOMAIN pass[x] \cup rs
  BY <1>4, <1>6
<1> QED BY <1>4, <1>8, <1>9, <1>10

(* A minute passes for all of them. *)
Ages ==
    pass' = [d \in Passes |-> [r \in DOMAIN pass[d] |-> [pass[d][r] EXCEPT !.lease = Less(@)]]]

(* A tick runs every wait and every lease down together. *)
LEMMA Aged ==
    ASSUME TypeOK, Ages
    PROVE  /\ pass' \in [Passes -> Hands]
           /\ \A r \in Rows : SameHands(r)
           /\ \A d \in Passes : \A r \in DOMAIN pass[d] :
                 /\ pass[d][r].lease \in Nat
                 /\ pass'[d][r].lease = Less(pass[d][r].lease)
<1>1. ASSUME NEW d \in Passes
      PROVE  /\ pass'[d] \in Hands /\ DOMAIN pass'[d] = DOMAIN pass[d]
             /\ \A r \in DOMAIN pass[d] :
                   /\ pass[d][r].lease \in Nat
                   /\ pass'[d][r].lease = Less(pass[d][r].lease)
                   /\ pass'[d][r].attempts = pass[d][r].attempts
  <2> DEFINE h == [r \in DOMAIN pass[d] |-> [pass[d][r] EXCEPT !.lease = Less(pass[d][r].lease)]]
  <2>1. pass'[d] = h
    BY DEF Ages
  <2>2. DOMAIN pass[d] \subseteq Rows /\ \A r \in DOMAIN pass[d] : pass[d][r] \in Claimed
    BY HandsShape DEF TypeOK
  <2>3. ASSUME NEW r \in DOMAIN pass[d]
        PROVE  /\ pass[d][r].lease \in Nat /\ h[r] \in Claimed
               /\ h[r].lease = Less(pass[d][r].lease)
               /\ h[r].attempts = pass[d][r].attempts
    <3>1. pass[d][r] \in Claimed
      BY <2>2
    <3>2. h[r] = [pass[d][r] EXCEPT !.lease = Less(pass[d][r].lease)]
      OBVIOUS
    <3>3. Less(pass[d][r].lease) \in Nat
      BY <3>1 DEF Claimed, Less
    <3> HIDE DEF h
    <3> QED BY <3>1, <3>2, <3>3 DEF Claimed
  <2>4. h \in [DOMAIN pass[d] -> Claimed]
    BY <2>3
  <2> HIDE DEF h
  <2>5. h \in Hands /\ DOMAIN h = DOMAIN pass[d]
    BY <2>2, <2>4, HandsOf
  <2> QED BY <2>1, <2>3, <2>5
<1>2. pass' \in [Passes -> Hands]
  <2>1. pass' = [d \in Passes |-> pass'[d]]
    BY DEF Ages
  <2> QED BY <1>1, <2>1
<1>3. \A r \in Rows : SameHands(r)
  BY <1>1 DEF SameHands
<1>4. ASSUME NEW d \in Passes, NEW r \in DOMAIN pass[d]
      PROVE  pass[d][r].lease \in Nat /\ pass'[d][r].lease = Less(pass[d][r].lease)
  BY <1>1
<1> QED BY <1>2, <1>3, <1>4

-----------------------------------------------------------------------------
(* One lemma for each kind of step. *)

(* The invariants of the rows one by one. *)
RowsKeep ==
    /\ ~overran' => \A r \in Rows : InLease(r)'
    /\ \A r \in Rows : Ending(r)'

(* A change queues its events where there were none. *)
LEMMA QueueKeeps ==
    ASSUME IInv, NEW type, NEW subject, <<type, subject>> \in Changes,
           \A e \in Endpoints : row[<<<<type, subject>>, e>>] = None,
           Queue(type, subject), UNCHANGED <<pass, overran, faults>>
    PROVE  /\ row' \in [Rows -> Delivery \cup {None}]
           /\ ClaimsAreRows' /\ RowsKeep
           /\ \A r \in Rows : r[1] # <<type, subject>> => row'[r] = row[r]
<1>1. Queued \in Delivery
  BY DEF Queued, Delivery
<1>2. ASSUME NEW r \in Rows
      PROVE  /\ row'[r] = row[r] \/ (row[r] = None /\ row'[r] = Queued)
             /\ r[1] # <<type, subject>> => row'[r] = row[r]
  <2>1. r[1] = <<type, subject>> => row[r] = None
    <3>1. PICK c \in Changes, e \in Endpoints : r = <<c, e>>
      BY DEF Rows
    <3> QED BY <3>1
  <2>2. \/ row'[r] = row[r]
        \/ r[1] = <<type, subject>> /\ row'[r] = Queued
    BY DEF Queue
  <2> QED BY <2>1, <2>2
<1>3. row' \in [Rows -> Delivery \cup {None}]
  <2>1. \A r \in Rows : row'[r] \in Delivery \cup {None}
    BY <1>1, <1>2 DEF IInv, TypeOK
  <2>2. row' = [r \in Rows |-> row'[r]]
    BY DEF Queue
  <2> QED BY <2>1, <2>2
<1>4. ClaimsAreRows'
  <2>1. ASSUME NEW d \in Passes, NEW r \in DOMAIN pass[d] PROVE row'[r] # None
    <3>1. r \in Rows /\ row[r] # None
      BY HandsShape DEF IInv, TypeOK, ClaimsAreRows
    <3> QED BY <1>2, <3>1
  <2> QED BY <2>1 DEF ClaimsAreRows
<1>5. \A r \in Rows : (InLease(r) => InLease(r)') /\ (Ending(r) => Ending(r)')
  BY <1>2, QueuedRow DEF IInv
<1>6. RowsKeep
  BY <1>5 DEF RowsKeep, IInv
<1> QED BY <1>2, <1>3, <1>4, <1>6

(* An activation queues its event once. *)
LEMMA RecordKeeps ==
    ASSUME IInv, NEW m \in Mandates, RecordMandate(m) PROVE IInv'
<1>1. <<"mandate.activated", m>> \in Changes
  BY DEF Changes
<1>2. \A e \in Endpoints : row[<<<<"mandate.activated", m>>, e>>] = None
  BY DEF IInv, QueuedOnce, Queues, RecordMandate
<1>3. /\ row' \in [Rows -> Delivery \cup {None}] /\ ClaimsAreRows' /\ RowsKeep
      /\ \A r \in Rows : r[1] # <<"mandate.activated", m>> => row'[r] = row[r]
  BY <1>1, <1>2, QueueKeeps DEF RecordMandate
<1>4. /\ mandate' = [mandate EXCEPT ![m] = "active"]
      /\ UNCHANGED <<purchase, endpoint, pass, overran, faults>>
  BY DEF RecordMandate
<1>5. TypeOK'
  BY <1>3, <1>4 DEF IInv, TypeOK
<1>6. QueuedOnce'
  <2>1. ASSUME NEW c \in Changes, c # <<"mandate.activated", m>> PROVE Queues(c)' <=> Queues(c)
    <3>1. \A e \in Endpoints : <<c, e>> \in Rows /\ <<c, e>>[1] = c
      BY DEF Rows
    <3> QED BY <1>3, <2>1, <3>1 DEF Queues
  <2>2. ASSUME NEW n \in Mandates
        PROVE  /\ mandate'[n] = "none" => ~Queues(<<"mandate.activated", n>>)'
               /\ mandate'[n] # "revoked" => ~Queues(<<"mandate.revoked", n>>)'
    <3>1. /\ <<"mandate.activated", n>> \in Changes /\ <<"mandate.revoked", n>> \in Changes
          /\ <<"mandate.revoked", n>> # <<"mandate.activated", m>>
          /\ n # m => <<"mandate.activated", n>> # <<"mandate.activated", m>>
      BY DEF Changes
    <3>2. mandate'[n] = (IF n = m THEN "active" ELSE mandate[n])
      BY <1>4 DEF IInv, TypeOK
    <3>3. mandate[m] = "none"
      BY DEF RecordMandate
    <3> QED BY <2>1, <3>1, <3>2, <3>3 DEF IInv, QueuedOnce
  <2>3. ASSUME NEW p \in Purchases, purchase'[p] = "none"
        PROVE  ~Queues(<<"payment.settled", p>>)' /\ ~Queues(<<"payment.refused", p>>)'
    <3>1. /\ <<"payment.settled", p>> \in Changes /\ <<"payment.refused", p>> \in Changes
          /\ <<"payment.settled", p>> # <<"mandate.activated", m>>
          /\ <<"payment.refused", p>> # <<"mandate.activated", m>>
      BY DEF Changes
    <3> QED BY <1>4, <2>1, <2>3, <3>1 DEF IInv, QueuedOnce
  <2> QED BY <2>2, <2>3 DEF QueuedOnce
<1> QED BY <1>3, <1>5, <1>6 DEF IInv, RowsKeep

(* So does a revocation. *)
LEMMA RevokeKeeps ==
    ASSUME IInv, NEW m \in Mandates, RevokeMandate(m) PROVE IInv'
<1>1. <<"mandate.revoked", m>> \in Changes
  BY DEF Changes
<1>2. \A e \in Endpoints : row[<<<<"mandate.revoked", m>>, e>>] = None
  BY DEF IInv, QueuedOnce, Queues, RevokeMandate
<1>3. /\ row' \in [Rows -> Delivery \cup {None}] /\ ClaimsAreRows' /\ RowsKeep
      /\ \A r \in Rows : r[1] # <<"mandate.revoked", m>> => row'[r] = row[r]
  BY <1>1, <1>2, QueueKeeps DEF RevokeMandate
<1>4. /\ mandate' = [mandate EXCEPT ![m] = "revoked"]
      /\ UNCHANGED <<purchase, endpoint, pass, overran, faults>>
  BY DEF RevokeMandate
<1>5. TypeOK'
  BY <1>3, <1>4 DEF IInv, TypeOK
<1>6. QueuedOnce'
  <2>1. ASSUME NEW c \in Changes, c # <<"mandate.revoked", m>> PROVE Queues(c)' <=> Queues(c)
    <3>1. \A e \in Endpoints : <<c, e>> \in Rows /\ <<c, e>>[1] = c
      BY DEF Rows
    <3> QED BY <1>3, <2>1, <3>1 DEF Queues
  <2>2. ASSUME NEW n \in Mandates
        PROVE  /\ mandate'[n] = "none" => ~Queues(<<"mandate.activated", n>>)'
               /\ mandate'[n] # "revoked" => ~Queues(<<"mandate.revoked", n>>)'
    <3>1. /\ <<"mandate.activated", n>> \in Changes /\ <<"mandate.revoked", n>> \in Changes
          /\ <<"mandate.activated", n>> # <<"mandate.revoked", m>>
          /\ n # m => <<"mandate.revoked", n>> # <<"mandate.revoked", m>>
      BY DEF Changes
    <3>2. mandate'[n] = (IF n = m THEN "revoked" ELSE mandate[n])
      BY <1>4 DEF IInv, TypeOK
    <3> QED BY <2>1, <3>1, <3>2 DEF IInv, QueuedOnce
  <2>3. ASSUME NEW p \in Purchases, purchase'[p] = "none"
        PROVE  ~Queues(<<"payment.settled", p>>)' /\ ~Queues(<<"payment.refused", p>>)'
    <3>1. /\ <<"payment.settled", p>> \in Changes /\ <<"payment.refused", p>> \in Changes
          /\ <<"payment.settled", p>> # <<"mandate.revoked", m>>
          /\ <<"payment.refused", p>> # <<"mandate.revoked", m>>
      BY DEF Changes
    <3> QED BY <1>4, <2>1, <2>3, <3>1 DEF IInv, QueuedOnce
  <2> QED BY <2>2, <2>3 DEF QueuedOnce
<1> QED BY <1>3, <1>5, <1>6 DEF IInv, RowsKeep

(* So does the outcome of a purchase. *)
LEMMA PurchaseKeeps ==
    ASSUME IInv, NEW p \in Purchases, NEW outcome \in Outcomes, CreatePurchase(p, outcome)
    PROVE  IInv'
<1> DEFINE type == IF outcome = "settled" THEN "payment.settled" ELSE "payment.refused"
<1>1. <<type, p>> \in Changes
  BY DEF Changes
<1>2. \A e \in Endpoints : row[<<<<type, p>>, e>>] = None
  BY DEF IInv, QueuedOnce, Queues, CreatePurchase
<1>3. Queue(type, p) /\ UNCHANGED <<pass, overran, faults>>
  BY DEF CreatePurchase
<1>4. type \in {"payment.settled", "payment.refused"}
  OBVIOUS
<1> HIDE DEF type
<1>5. /\ row' \in [Rows -> Delivery \cup {None}] /\ ClaimsAreRows' /\ RowsKeep
      /\ \A r \in Rows : r[1] # <<type, p>> => row'[r] = row[r]
  BY <1>1, <1>2, <1>3, QueueKeeps
<1>6. /\ purchase' = [purchase EXCEPT ![p] = outcome]
      /\ UNCHANGED <<mandate, endpoint, pass, overran, faults>>
  BY DEF CreatePurchase
<1>7. TypeOK'
  BY <1>5, <1>6 DEF IInv, TypeOK
<1>8. QueuedOnce'
  <2>1. ASSUME NEW c \in Changes, c # <<type, p>> PROVE Queues(c)' <=> Queues(c)
    <3>1. \A e \in Endpoints : <<c, e>> \in Rows /\ <<c, e>>[1] = c
      BY DEF Rows
    <3> QED BY <1>5, <2>1, <3>1 DEF Queues
  <2>2. ASSUME NEW n \in Mandates
        PROVE  /\ mandate'[n] = "none" => ~Queues(<<"mandate.activated", n>>)'
               /\ mandate'[n] # "revoked" => ~Queues(<<"mandate.revoked", n>>)'
    <3>1. /\ <<"mandate.activated", n>> \in Changes /\ <<"mandate.revoked", n>> \in Changes
          /\ <<"mandate.activated", n>> # <<type, p>> /\ <<"mandate.revoked", n>> # <<type, p>>
      BY <1>4 DEF Changes
    <3> QED BY <1>6, <2>1, <3>1 DEF IInv, QueuedOnce
  <2>3. ASSUME NEW q \in Purchases, purchase'[q] = "none"
        PROVE  ~Queues(<<"payment.settled", q>>)' /\ ~Queues(<<"payment.refused", q>>)'
    <3>1. q # p /\ purchase[q] = "none"
      BY <1>6, <2>3 DEF IInv, TypeOK, Outcomes
    <3>2. /\ <<"payment.settled", q>> \in Changes /\ <<"payment.refused", q>> \in Changes
          /\ <<"payment.settled", q>> # <<type, p>> /\ <<"payment.refused", q>> # <<type, p>>
      BY <3>1 DEF Changes
    <3> QED BY <2>1, <3>1, <3>2 DEF IInv, QueuedOnce
  <2> QED BY <2>2, <2>3 DEF QueuedOnce
<1> QED BY <1>5, <1>7, <1>8 DEF IInv, RowsKeep

(* Nothing but the endpoints changes. *)
LEMMA SameKeeps ==
    ASSUME IInv, UNCHANGED <<mandate, purchase, row, pass, overran, faults>> PROVE IInv'
<1>1. TypeOK' /\ QueuedOnce' /\ ClaimsAreRows'
  BY DEF IInv, TypeOK, QueuedOnce, Queues, ClaimsAreRows
<1>2. \A r \in Rows : (InLease(r) => InLease(r)') /\ (Ending(r) => Ending(r)')
  BY UntouchedRow DEF IInv, TypeOK
<1> QED BY <1>1, <1>2 DEF IInv

(* A step of a pass leaves every queued row queued. *)
LEMMA QueuedStays ==
    ASSUME IInv, UNCHANGED changed, row' \in [Rows -> Delivery \cup {None}],
           \A r \in Rows : row'[r] = None <=> row[r] = None
    PROVE  QueuedOnce'
<1>1. ASSUME NEW c \in Changes PROVE Queues(c)' <=> Queues(c)
  BY DEF Queues, Rows
<1>2. \A m \in Mandates : /\ <<"mandate.activated", m>> \in Changes
                          /\ <<"mandate.revoked", m>> \in Changes
  BY DEF Changes
<1>3. \A p \in Purchases : /\ <<"payment.settled", p>> \in Changes
                           /\ <<"payment.refused", p>> \in Changes
  BY DEF Changes
<1>4. mandate' = mandate /\ purchase' = purchase
  BY DEF changed
<1> QED BY <1>1, <1>2, <1>3, <1>4 DEF IInv, QueuedOnce

(* A batch is claimed row by row. *)
LEMMA ClaimKeeps ==
    ASSUME IInv, NEW d \in Passes, Claim(d) PROVE IInv'
<1>1. PICK rs \in Batches :
          /\ row' = [r \in Rows |-> IF r \in rs
                                    THEN [row[r] EXCEPT !.attempts = @ + 1, !.wait = Lease]
                                    ELSE row[r]]
          /\ pass' = [pass EXCEPT ![d] = Taken(rs)]
  BY DEF Claim
<1>2. rs \in SUBSET Due /\ pass[d] = Idle /\ UNCHANGED <<changed, overran, faults>> /\ TypeOK
  BY DEF Batches, Claim, IInv
<1>3. /\ pass' \in [Passes -> Hands]
      /\ \A r \in Rows : r \in rs => Takes(d, r)
      /\ \A r \in Rows : r \notin rs => Kept(r) /\ row'[r] = row[r]
      /\ \A x \in Passes : DOMAIN pass'[x] \subseteq DOMAIN pass[x] \cup rs
  BY <1>1, <1>2, TookBatch
<1>4. ASSUME NEW r \in Rows
      PROVE  /\ row'[r] \in Delivery \cup {None} /\ (row'[r] = None <=> row[r] = None)
             /\ r \in rs => row[r] # None
             /\ InLease(r) => InLease(r)'
             /\ Ending(r) => Ending(r)'
  <2>1. CASE r \in rs
    <3>1. row'[r] \in Delivery /\ row[r] \in Delivery
      BY <1>2, <1>3, <2>1, TakenRow
    <3>2. InLease(r) => InLease(r)'
      BY <1>2, <1>3, <2>1, TakenLease
    <3>3. Ending(r) => Ending(r)'
      BY <1>2, <1>3, <2>1, TakenEnds
    <3> QED BY <3>1, <3>2, <3>3, NoneAssumption
  <2>2. CASE r \notin rs
    <3>1. (InLease(r) => InLease(r)') /\ (Ending(r) => Ending(r)')
      BY <1>2, <1>3, <2>2, UntouchedRow DEF Kept, TypeOK
    <3> QED BY <1>2, <1>3, <2>2, <3>1 DEF TypeOK
  <2> QED BY <2>1, <2>2
<1>5. row' \in [Rows -> Delivery \cup {None}]
  BY <1>1, <1>4
<1>6. TypeOK'
  BY <1>2, <1>3, <1>5 DEF TypeOK, changed
<1>7. QueuedOnce'
  BY <1>2, <1>4, <1>5, QueuedStays
<1>8. ClaimsAreRows'
  <2>1. ASSUME NEW x \in Passes, NEW r \in DOMAIN pass'[x] PROVE row'[r] # None
    <3>1. r \in DOMAIN pass[x] \cup rs
      BY <1>3
    <3>2. rs \subseteq Rows
      BY <1>2 DEF Due
    <3>3. r \in Rows /\ row[r] # None
      BY <1>2, <1>4, <3>1, <3>2, HandsShape DEF TypeOK, IInv, ClaimsAreRows
    <3> QED BY <1>4, <3>3
  <2> QED BY <2>1 DEF ClaimsAreRows
<1> QED BY <1>2, <1>4, <1>6, <1>7, <1>8 DEF IInv

(* A delivery is marked, and the pass is done with it. *)
LEMMA DeliverKeeps ==
    ASSUME IInv, NEW d \in Passes, NEW answer \in Answers, DeliverOne(d, answer) PROVE IInv'
<1>1. PICK r \in DOMAIN pass[d] :
          /\ row' = [row EXCEPT ![r] = Marked(r, answer, pass[d][r].attempts)]
          /\ pass' = Without(d, r)
          /\ UNCHANGED <<changed, overran, faults>>
  BY DEF DeliverOne
<1>2. TypeOK /\ ClaimsAreRows
  BY DEF IInv
<1>3. /\ r \in Rows /\ pass' \in [Passes -> Hands]
      /\ Drops(d, r)
      /\ \A x \in Passes : DOMAIN pass'[x] \subseteq DOMAIN pass[x]
      /\ \A x \in Passes, q \in Rows : q # r =>
           /\ q \in DOMAIN pass'[x] <=> q \in DOMAIN pass[x]
           /\ q \in DOMAIN pass[x] => pass'[x][q] = pass[x][q]
  BY <1>1, <1>2, LetGo
<1>4. row[r] \in Delivery /\ row[r] # None
  BY <1>2, <1>3 DEF TypeOK, ClaimsAreRows
<1>5. pass[d][r].attempts \in Nat
  BY <1>1, <1>2, HandsShape DEF TypeOK, Claimed
<1>6. /\ row'[r] = Marked(r, answer, pass[d][r].attempts)
      /\ \A q \in Rows : q # r => row'[q] = row[q]
  BY <1>1, <1>2, <1>3 DEF TypeOK
<1>7. /\ row'[r] \in Delivery /\ row'[r].attempts = row[r].attempts
      /\ pass[d][r].attempts >= MaxAttempts => row'[r].delivered \/ row'[r].gaveUp
  BY <1>3, <1>4, <1>5, <1>6, MarkWrites
<1>8. row'[r] # None
  BY <1>7, NoneAssumption
<1>9. Ending(r)'
  <2>1. d \in Holders(r)
    BY <1>3, OneHolderLess
  <2>2. d \notin Early(r) => pass[d][r].attempts >= MaxAttempts
    BY <1>5, <2>1, OutboxAssumption DEF Early
  <2>3. d \notin Early(r) => ~Owed(r)'
    BY <1>7, <2>2 DEF Owed
  <2> QED BY <1>1, <1>2, <1>3, <1>4, <1>7, <1>8, <2>3, DroppedEnds DEF IInv
<1>10. InLease(r) => InLease(r)'
  BY <1>1, <1>2, <1>3, <1>4, <1>6, MarkedLease
<1>11. ASSUME NEW q \in Rows, q # r
       PROVE  (InLease(q) => InLease(q)') /\ (Ending(q) => Ending(q)')
  BY <1>1, <1>2, <1>3, <1>6, <1>11, UntouchedRow DEF TypeOK
<1>12. row' \in [Rows -> Delivery \cup {None}]
  BY <1>1, <1>2, <1>6, <1>7 DEF TypeOK
<1>13. TypeOK'
  BY <1>1, <1>2, <1>3, <1>12 DEF TypeOK, changed
<1>14. QueuedOnce'
  BY <1>1, <1>4, <1>6, <1>8, <1>12, QueuedStays
<1>15. ClaimsAreRows'
  <2>1. ASSUME NEW x \in Passes, NEW q \in DOMAIN pass'[x] PROVE row'[q] # None
    <3>1. q \in Rows /\ row[q] # None
      BY <1>2, <1>3, HandsShape DEF TypeOK, ClaimsAreRows
    <3> QED BY <1>6, <1>8, <3>1
  <2> QED BY <2>1 DEF ClaimsAreRows
<1> QED BY <1>1, <1>9, <1>10, <1>11, <1>13, <1>14, <1>15 DEF IInv

(* What is not marked is not given up either: a dropped claim costs a fault. *)
LEMMA FaultKeeps ==
    ASSUME IInv, NEW d \in Passes, pass' \in [Passes -> Hands], faults' = faults + 1,
           \A x \in Passes : DOMAIN pass'[x] \subseteq DOMAIN pass[x],
           \A r \in Rows : Drops(d, r) \/ Kept(r),
           UNCHANGED <<changed, row, overran>>
    PROVE  IInv'
<1>1. TypeOK /\ ClaimsAreRows /\ faults \in Nat /\ faults' \in Nat
  BY DEF IInv, TypeOK
<1>2. ASSUME NEW r \in Rows
      PROVE  (InLease(r) => InLease(r)') /\ (Ending(r) => Ending(r)')
  <2>1. CASE Drops(d, r)
    <3>1. row[r] # None
      BY <1>1, <2>1 DEF Drops, ClaimsAreRows
    <3>2. Owed(r)' = Owed(r)
      BY DEF Owed
    <3>3. Ending(r) => Ending(r)'
      BY <1>1, <2>1, <3>1, <3>2, DroppedEnds
    <3>4. InLease(r) => InLease(r)'
      BY <1>1, <2>1, <3>1, LostLease
    <3> QED BY <3>3, <3>4
  <2>2. CASE Kept(r)
    BY <1>1, <2>2, UntouchedRow DEF Kept
  <2> QED BY <2>1, <2>2
<1>3. TypeOK'
  BY <1>1 DEF TypeOK, changed
<1>4. QueuedOnce'
  BY <1>1, QueuedStays DEF TypeOK
<1>5. ClaimsAreRows'
  BY <1>1 DEF ClaimsAreRows
<1> QED BY <1>2, <1>3, <1>4, <1>5 DEF IInv

(* A mark that is lost leaves the row to its lease. *)
LEMMA MarkFailsKeeps ==
    ASSUME IInv, NEW d \in Passes, MarkFails(d) PROVE IInv'
<1>1. PICK r \in DOMAIN pass[d] : pass' = Without(d, r)
  BY DEF MarkFails
<1>2. /\ pass' \in [Passes -> Hands]
      /\ Drops(d, r)
      /\ \A x \in Passes : DOMAIN pass'[x] \subseteq DOMAIN pass[x]
      /\ \A x \in Passes, q \in Rows : q # r =>
           /\ q \in DOMAIN pass'[x] <=> q \in DOMAIN pass[x]
           /\ q \in DOMAIN pass[x] => pass'[x][q] = pass[x][q]
  BY <1>1, LetGo DEF IInv
<1>3. \A q \in Rows : Drops(d, q) \/ Kept(q)
  BY <1>2 DEF Kept
<1> QED BY <1>2, <1>3, FaultKeeps DEF MarkFails

(* So does a pass that dies. *)
LEMMA CrashKeeps ==
    ASSUME IInv, NEW d \in Passes, Crash(d) PROVE IInv'
BY Died, FaultKeeps DEF Crash, IInv

(* Time passes, within the leases or past one. *)
LEMMA TickKeeps ==
    ASSUME IInv, Tick PROVE IInv'
<1>1. /\ row' = [r \in Rows |-> IF Owed(r) THEN [row[r] EXCEPT !.wait = Less(@)] ELSE row[r]]
      /\ UNCHANGED <<changed, faults>> /\ TypeOK /\ ClaimsAreRows
  BY DEF Tick, IInv
<1>2. /\ pass' \in [Passes -> Hands]
      /\ \A r \in Rows : SameHands(r)
      /\ \A d \in Passes : \A r \in DOMAIN pass[d] :
            /\ pass[d][r].lease \in Nat
            /\ pass'[d][r].lease = Less(pass[d][r].lease)
  BY <1>1, Aged DEF Tick, Ages
<1>3. ASSUME NEW r \in Rows
      PROVE  /\ row'[r] = IF Owed(r) THEN [row[r] EXCEPT !.wait = Less(@)] ELSE row[r]
             /\ row'[r] \in Delivery \cup {None} /\ (row'[r] = None <=> row[r] = None)
             /\ Ending(r) => Ending(r)'
  <2>1. row'[r] = IF Owed(r) THEN [row[r] EXCEPT !.wait = Less(@)] ELSE row[r]
    BY <1>1
  <2>2. /\ row'[r] = None <=> row[r] = None
        /\ row[r] # None => row'[r] \in Delivery
        /\ Ending(r) => Ending(r)'
    BY <1>1, <1>2, <2>1, AgedRow
  <2> QED BY <2>1, <2>2
<1>4. ASSUME ~overran', NEW r \in Rows PROVE InLease(r)'
  <2>1. ~overran /\ \A d \in Passes : \A q \in DOMAIN pass[d] : ~(pass[d][q].lease <= 1)
    BY <1>4 DEF Tick
  <2>2. \A d \in Holders(r) : /\ pass[d][r].lease \in Nat /\ pass[d][r].lease > 1
                              /\ pass'[d][r].lease = Less(pass[d][r].lease)
    BY <1>2, <2>1 DEF Holders
  <2>3. InLease(r)
    BY <2>1 DEF IInv
  <2> QED BY <1>1, <1>2, <1>3, <2>2, <2>3, AgedLease
<1>5. row' \in [Rows -> Delivery \cup {None}]
  BY <1>1, <1>3
<1>6. TypeOK'
  BY <1>1, <1>2, <1>5 DEF TypeOK, changed, Tick
<1>7. QueuedOnce'
  BY <1>1, <1>3, <1>5, QueuedStays
<1>8. ClaimsAreRows'
  <2>1. ASSUME NEW d \in Passes, NEW r \in DOMAIN pass'[d] PROVE row'[r] # None
    <3>1. r \in Rows
      BY <1>2, HandsShape
    <3>2. r \in DOMAIN pass[d]
      BY <1>2, <3>1 DEF SameHands
    <3> QED BY <1>1, <1>3, <3>1, <3>2 DEF ClaimsAreRows
  <2> QED BY <2>1 DEF ClaimsAreRows
<1> QED BY <1>3, <1>4, <1>6, <1>7, <1>8 DEF IInv

-----------------------------------------------------------------------------
(* Nothing is queued at first. *)
LEMMA InitIInv == Init => IInv
<1> SUFFICES ASSUME Init PROVE IInv
  OBVIOUS
<1>1. Idle \in Hands /\ DOMAIN Idle = {}
  <2>1. Idle \in [{} -> Claimed]
    BY DEF Idle
  <2> QED BY <2>1, HandsOf
<1>2. TypeOK
  BY <1>1 DEF Init, TypeOK
<1>3. \A r \in Rows : row[r] = None
  BY DEF Init
<1>4. \A d \in Passes : DOMAIN pass[d] = {}
  BY <1>1 DEF Init
<1>5. QueuedOnce
  <2>1. \A c \in Changes : ~Queues(c)
    BY <1>3 DEF Queues, Rows
  <2> QED BY <2>1 DEF QueuedOnce, Changes
<1>6. ClaimsAreRows
  BY <1>4 DEF ClaimsAreRows
<1>7. \A r \in Rows : InLease(r) /\ Ending(r)
  BY <1>3, <1>4 DEF InLease, Ending, Holders
<1> QED BY <1>2, <1>5, <1>6, <1>7 DEF IInv

(* Every step keeps the invariant. *)
LEMMA StepIInv == IInv /\ [Next]_vars => IInv'
<1> SUFFICES ASSUME IInv, [Next]_vars PROVE IInv'
  OBVIOUS
<1>1. CASE \E m \in Mandates : RecordMandate(m) \/ RevokeMandate(m)
  BY <1>1, RecordKeeps, RevokeKeeps
<1>2. CASE \E p \in Purchases, outcome \in Outcomes : CreatePurchase(p, outcome)
  BY <1>2, PurchaseKeeps
<1>3. CASE \E e \in Endpoints : DeleteWebhookEndpoint(e)
  BY <1>3, SameKeeps DEF DeleteWebhookEndpoint
<1>4. CASE \E e \in Endpoints, events \in Subscriptions : CreateWebhookEndpoint(e, events)
  BY <1>4, SameKeeps DEF CreateWebhookEndpoint
<1>5. CASE \E d \in Passes : Claim(d) \/ MarkFails(d) \/ Crash(d)
  BY <1>5, ClaimKeeps, MarkFailsKeeps, CrashKeeps
<1>6. CASE \E d \in Passes, answer \in Answers : DeliverOne(d, answer)
  BY <1>6, DeliverKeeps
<1>7. CASE Tick
  BY <1>7, TickKeeps
<1>8. CASE UNCHANGED vars
  BY <1>8, SameKeeps DEF vars
<1> QED BY <1>1, <1>2, <1>3, <1>4, <1>5, <1>6, <1>7, <1>8 DEF Next

(* So it holds in every reachable state. *)
LEMMA InductiveInvariant == Spec => []IInv
BY InitIInv, StepIInv, PTL DEF Spec

(* As long as no pass has kept a row past its lease, whatever passes run and
   whichever die, no row is in two hands and none is recorded as both
   delivered and given up.                                                  *)
THEOREM LeasesProtect == Spec => []LeaseProtects
<1>1. IInv => LeaseProtects
  <2> SUFFICES ASSUME IInv, ~overran PROVE LeaseProtects
    BY DEF LeaseProtects
  <2>1. ASSUME NEW d1 \in Passes, NEW d2 \in Passes, d1 # d2
        PROVE  DOMAIN pass[d1] \cap DOMAIN pass[d2] = {}
    <3>1. SUFFICES ASSUME NEW r \in DOMAIN pass[d1], r \in DOMAIN pass[d2] PROVE FALSE
      OBVIOUS
    <3>2. r \in Rows
      BY HandsShape DEF IInv, TypeOK
    <3>3. d1 \in Holders(r) /\ d2 \in Holders(r)
      BY <3>1 DEF Holders
    <3> QED BY <2>1, <3>2, <3>3 DEF IInv, InLease
  <2>2. \A r \in Rows : row[r] # None => ~(row[r].delivered /\ row[r].gaveUp)
    BY DEF IInv, InLease
  <2> QED BY <2>1, <2>2 DEF LeaseProtects
<1> QED BY <1>1, InductiveInvariant, PTL

(* However many passes overlap, and however long they outlive their leases,
   the attempts at one event come to an end.                                *)
THEOREM AttemptsAreBounded == Spec => []AttemptsEnd
<1>1. IInv => AttemptsEnd
  <2> SUFFICES ASSUME IInv, NEW r \in Rows, row[r] # None
               PROVE  row[r].attempts <= MaxAttempts + faults
                        + IF overran THEN Cardinality(Passes) * (Cardinality(Passes) - 1) ELSE 0
    BY DEF AttemptsEnd
  <2>1. row[r].attempts \in Nat /\ faults \in Nat /\ MaxAttempts \in Nat
    BY OutboxAssumption DEF IInv, TypeOK, Delivery
  <2>2. CASE ~overran
    <3>1. row[r].attempts <= MaxAttempts + faults
      BY <2>2 DEF IInv, InLease
    <3> QED BY <2>1, <2>2, <3>1
  <2>3. CASE overran
    <3> DEFINE p == Cardinality(Passes)
               l == p * Cardinality(Early(r))
               b == p * (p - 1)
    <3>1. /\ p \in Nat /\ Cardinality(Holders(r)) \in 0..p
          /\ Cardinality(Early(r)) \in 0..Cardinality(Holders(r))
      BY HoldersCount
    <3>2. Free(r) \in Nat
      BY <3>1 DEF Free
    <3>3. Cardinality(Early(r)) \in Nat
      BY <3>1
    <3>4. l \in Nat
      BY <3>1, <3>3
    <3>5. b \in Nat
      <4>1. CASE p = 0
        BY <4>1
      <4>2. CASE p # 0
        <5>1. p - 1 \in Nat
          BY <3>1, <4>2
        <5> QED BY <3>1, <5>1
      <4> QED BY <4>1, <4>2
    <3>6. row[r].attempts >= MaxAttempts =>
              row[r].attempts + Free(r) + l <= MaxAttempts + faults + b
      BY DEF IInv, Ending
    <3> HIDE DEF l, b
    <3>7. row[r].attempts <= MaxAttempts + faults + b
      BY <2>1, <3>2, <3>4, <3>5, <3>6
    <3> QED BY <2>3, <3>7 DEF b
  <2> QED BY <2>2, <2>3
<1> QED BY <1>1, InductiveInvariant, PTL
=============================================================================
