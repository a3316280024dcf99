------------------------ MODULE OrderWebhooksProofs -------------------------
(***************************************************************************)
(* The webhooks of one order, for any number of apps and requests: they go  *)
(* out in order, each event of the escrow is told once, and a replaced app  *)
(* writes nothing more, as long as no two requests replace one app.         *)
(***************************************************************************)
EXTENDS OrderWebhooks, SequenceTheorems, TLAPS

(* What a lookup of the escrow can answer. *)
Readable(purchase) ==
    /\ purchase.status \in {"held", "shipped", "released", "disputed"} => ~purchase.answered
    /\ purchase.status = "responded" => purchase.answered

(* The escrow that a reader saw in status s may have become this one. *)
Covers(s, purchase) ==
    /\ s = "disputed" => purchase.status \in InDispute
    /\ s = "responded" => purchase.status \in Answered /\ purchase.answered
    /\ s \in Settled => purchase.status = s

(* All that was told by the time status s, not an end, was reported. *)
Before(s) ==
    IF s = "disputed" THEN <<"dispute.opened">>
    ELSE IF s = "responded" THEN <<"dispute.opened", "dispute.responded">> ELSE <<>>

(* All that was told when status s is the last that was reported. *)
ToldFor(s) == IF s \in Settled THEN happened ELSE Before(s)

TypeOK ==
    /\ db \in Record /\ mem \in [Apps -> Record \cup {None}]
    /\ stopped \in [Apps -> BOOLEAN] /\ armed \in [Apps -> BOOLEAN]
    /\ queueing \in [Apps -> SUBSET ({"created"} \cup Parcels)]
    /\ asking \in [Apps -> [asked : BOOLEAN, todo : SUBSET Parcels, all : BOOLEAN]]
    /\ reading \in [Apps -> Lookup \cup {None}]
    /\ sending \in [Apps -> Deliveries \cup {None}]
    /\ built \in Cached \cup {None}
    /\ get \in [Gets -> {"idle", "building"} \cup Apps]
    /\ version \in Nat /\ failures \in Nat /\ overlapped \in BOOLEAN
    /\ platform \in [left : SUBSET Parcels, canceled : BOOLEAN]
    /\ escrow \in Lookup

(* An app that does not run has nothing under way. *)
DeadIsEmpty ==
    \A a \in Apps : mem[a] = None =>
        /\ queueing[a] = {} /\ asking[a] = NotAsking
        /\ reading[a] = None /\ sending[a] = None

(* An app that a request waits for was stopped, if it still runs. *)
WaitedIsStopped ==
    \A g \in Gets : get[g] \in Apps /\ mem[get[g]] # None => stopped[get[g]]

(* The events that happened are what one look at the escrow would tell. *)
History == Readable(escrow) /\ happened = escrowEvents("held", escrow)

(* Who builds is who is cached, and nothing else runs meanwhile: an app that
   is not the cached one was stopped and has finished its work.             *)
OneBuilder ==
    \A g \in Gets : get[g] = "building" => built # None /\ built.app = None /\ built.by = g
OthersStopped ==
    \A a \in Apps : mem[a] # None /\ (built = None \/ built.app # a) =>
        stopped[a] /\ sending[a] = None /\ reading[a] = None

(* So at most one app has a copy of the order, and it is the record. *)
OneCopy ==
    /\ \A a, b \in Apps : mem[a] # None /\ mem[b] # None => a = b
    /\ \A a \in Apps : mem[a] # None => mem[a] = db

(* The queue: ids are given once, and only the first pending was tried. *)
QueueOK(record) ==
    /\ \A d \in record.queue : d.id <= record.issued
    /\ \A d, e \in record.queue : d.id = e.id => d = e
    /\ \A d, e \in record.queue : d.id < e.id /\ ~Finished(d) => ~Finished(e) /\ e.attempts = 0
SendsNext ==
    \A a \in Apps : sending[a] # None => sending[a] \in Pending(db) /\ NextUp(db, sending[a])

(* What was told is all that the reported status stands for, and what a read
   is about to add comes after it.                                          *)
ToldSoFar == told = ToldFor(Seen(db)) /\ Covers(Seen(db), escrow)
ReadsCover ==
    \A a \in Apps : reading[a] # None =>
        /\ Seen(db) \notin Settled
        /\ Readable(reading[a]) /\ Covers(Seen(db), reading[a])
        /\ Covers(reading[a].status, escrow)
        /\ reading[a].status \in Settled => escrow = reading[a]

Apart ==
    /\ OneBuilder /\ OthersStopped /\ OneCopy
    /\ QueueOK(db) /\ SendsNext
    /\ ToldSoFar /\ ReadsCover

IInv ==
    /\ TypeOK
    /\ DeadIsEmpty /\ WaitedIsStopped /\ History
    /\ ~overlapped => Apart

-----------------------------------------------------------------------------
(* Sequences of the escrow's events. *)
Names == {"dispute.opened", "dispute.responded", "dispute.resolved",
          "escrow.refunded", "escrow.released"}

(* The names of the escrow's events. *)
LEMMA NamesAre ==
    /\ "dispute.opened" \in Names /\ "dispute.responded" \in Names
    /\ "dispute.resolved" \in Names /\ "escrow.refunded" \in Names
    /\ "escrow.released" \in Names
BY DEF Names

(* One event after another. *)
LEMMA Two == ASSUME NEW e \in Names, NEW f \in Names PROVE <<e>> \o <<f>> = <<e, f>>
<1> DEFINE x == <<e>>
           y == <<f>>
           z == <<e, f>>
<1>1. x \in Seq(Names) /\ y \in Seq(Names) /\ z \in Seq(Names)
  OBVIOUS
<1>2. Len(x) = 1 /\ Len(y) = 1 /\ Len(z) = 2 /\ x[1] = e /\ y[1] = f /\ z[1] = e /\ z[2] = f
  OBVIOUS
<1> HIDE DEF x, y, z
<1>3. /\ x \o y \in Seq(Names) /\ Len(x \o y) = 2
      /\ (x \o y)[1] = e /\ (x \o y)[2] = f
  BY <1>1, <1>2, ConcatProperties
<1>4. \A i \in 1..2 : (x \o y)[i] = z[i]
  BY <1>2, <1>3
<1>5. x \o y = z
  BY <1>1, <1>2, <1>3, <1>4, SeqEqual
<1> QED BY <1>5 DEF x, y, z

(* One event, or none. *)
LEMMA IfIsSeq ==
    ASSUME NEW c, NEW event \in Names
    PROVE  /\ If(c, event) \in Seq(Names)
           /\ c => If(c, event) = <<event>>
           /\ ~c => If(c, event) = <<>>
<1>1. CASE c
  BY <1>1 DEF If
<1>2. CASE ~c
  BY <1>2 DEF If
<1> QED BY <1>1, <1>2

(* A payment that has not ended tells of no end. *)
LEMMA EndingIsSeq ==
    ASSUME NEW purchase \in Lookup
    PROVE  /\ Ending(purchase) \in Seq(Names)
           /\ purchase.status \notin Settled => Ending(purchase) = <<>>
<1> DEFINE c1 == purchase.status = "resolved"
           c2 == (c1 /\ purchase.refund # "none") \/ purchase.status = "expired"
           c3 == (c1 /\ purchase.refund # "all") \/ purchase.status = "released"
<1>1. /\ If(c1, "dispute.resolved") \in Seq(Names)
      /\ If(c2, "escrow.refunded") \in Seq(Names)
      /\ If(c3, "escrow.released") \in Seq(Names)
  BY IfIsSeq, NamesAre
<1>2. Ending(purchase) = (If(c1, "dispute.resolved") \o If(c2, "escrow.refunded"))
                            \o If(c3, "escrow.released")
  BY DEF Ending
<1>3. purchase.status \notin Settled => ~c1 /\ ~c2 /\ ~c3
  BY DEF Settled
<1>4. purchase.status \notin Settled =>
        /\ If(c1, "dispute.resolved") = <<>>
        /\ If(c2, "escrow.refunded") = <<>>
        /\ If(c3, "escrow.released") = <<>>
  BY <1>3, IfIsSeq, NamesAre
<1>5. (<<>> \o <<>>) \o <<>> = <<>>
  OBVIOUS
<1> HIDE DEF c1, c2, c3
<1>6. Ending(purchase) \in Seq(Names)
  BY <1>1, <1>2, ConcatProperties
<1> QED BY <1>2, <1>4, <1>5, <1>6

(* What comes first is a prefix. *)
LEMMA PrefixOfConcat ==
    ASSUME NEW s \in Seq(Names), NEW t \in Seq(Names)
    PROVE  IsPrefix(s, s \o t) /\ IsPrefix(s, s)
<1>1. Len(s \o t) = Len(s) + Len(t) /\ Len(s) \in Nat /\ Len(t) \in Nat
  BY ConcatProperties
<1>2. SubSeq(s \o t, 1, Len(s)) = SubSeq(s, 1, Len(s))
  BY <1>1, SubSeqOfConcat1
<1> QED BY <1>1, <1>2 DEF IsPrefix

(* What a status stands for is a sequence of events. *)
LEMMA BeforeIsSeq ==
    ASSUME NEW s \in Statuses \ Settled
    PROVE  Before(s) \in Seq(Names)
<1>1. CASE s = "disputed"
  BY <1>1 DEF Before, Names
<1>2. CASE s = "responded"
  BY <1>2 DEF Before, Names
<1>3. CASE s \notin {"disputed", "responded"}
  BY <1>3 DEF Before, Names
<1> QED BY <1>1, <1>2, <1>3

(* The events between two looks at the escrow. *)
LEMMA EventsAre ==
    ASSUME NEW s \in Statuses, NEW purchase \in Lookup
    PROVE  /\ escrowEvents(s, purchase) \in Seq(Names)
           /\ purchase.status = s => escrowEvents(s, purchase) = <<>>
           /\ purchase.status # s => escrowEvents(s, purchase) =
                (If(s \notin InDispute /\ purchase.status \in InDispute, "dispute.opened")
                   \o If(Responded(s, purchase), "dispute.responded")) \o Ending(purchase)
<1> DEFINE c1 == s \notin InDispute /\ purchase.status \in InDispute
           c2 == Responded(s, purchase)
<1>1. c1 \in BOOLEAN /\ c2 \in BOOLEAN
  BY DEF Responded
<1>2. If(c1, "dispute.opened") \in Seq(Names) /\ If(c2, "dispute.responded") \in Seq(Names)
  BY <1>1, IfIsSeq, NamesAre
<1>3. /\ purchase.status = s => escrowEvents(s, purchase) = <<>>
      /\ purchase.status # s => escrowEvents(s, purchase) =
           (If(c1, "dispute.opened") \o If(c2, "dispute.responded")) \o Ending(purchase)
  BY DEF escrowEvents
<1> HIDE DEF c1, c2
<1>4. (If(c1, "dispute.opened") \o If(c2, "dispute.responded")) \o Ending(purchase) \in Seq(Names)
  BY <1>2, EndingIsSeq, ConcatProperties
<1> QED BY <1>3, <1>4, EmptySeq DEF c1, c2

(* What was told by a status that is not an end, whole. *)
LEMMA BeforeAnEnd ==
    ASSUME NEW purchase \in Lookup, Readable(purchase), purchase.status \notin Settled
    PROVE  escrowEvents("held", purchase) = Before(purchase.status)
<1> DEFINE st == purchase.status
<1>1. Ending(purchase) = <<>> /\ st \in Statuses /\ purchase.answered \in BOOLEAN
  BY EndingIsSeq DEF Lookup
<1>2. CASE st \in {"held", "shipped"}
  <2>1. st \notin InDispute /\ ~Responded("held", purchase) /\ Before(st) = <<>>
    BY <1>2 DEF InDispute, Responded, Answered, Before
  <2>2. (<<>> \o <<>>) \o <<>> = <<>>
    OBVIOUS
  <2> QED BY <1>1, <2>1, <2>2, EventsAre, IfIsSeq, NamesAre DEF Statuses
<1>3. CASE st = "disputed"
  <2>1. /\ st # "held" /\ st \in InDispute /\ "held" \notin InDispute
        /\ ~Responded("held", purchase) /\ Before(st) = <<"dispute.opened">>
    BY <1>3 DEF InDispute, Responded, Answered, Before
  <2>2. (<<"dispute.opened">> \o <<>>) \o <<>> = <<"dispute.opened">>
    OBVIOUS
  <2>3. /\ If("held" \notin InDispute /\ st \in InDispute, "dispute.opened") = <<"dispute.opened">>
        /\ If(Responded("held", purchase), "dispute.responded") = <<>>
    BY <2>1 DEF If
  <2> QED BY <1>1, <2>1, <2>2, <2>3, EventsAre DEF Statuses
<1>4. CASE st = "responded"
  <2>1. /\ st # "held" /\ st \in InDispute /\ "held" \notin InDispute
        /\ Responded("held", purchase) /\ Before(st) = <<"dispute.opened", "dispute.responded">>
    BY <1>4 DEF InDispute, Responded, Answered, Before, Readable
  <2>2. (<<"dispute.opened">> \o <<"dispute.responded">>) \o <<>>
          = <<"dispute.opened", "dispute.responded">>
    <3>1. <<"dispute.opened">> \o <<"dispute.responded">>
            = <<"dispute.opened", "dispute.responded">>
      BY Two, NamesAre
    <3>2. <<"dispute.opened", "dispute.responded">> \in Seq(Names)
      BY DEF Names
    <3> QED BY <3>1, <3>2, ConcatEmptySeq
  <2>3. /\ If("held" \notin InDispute /\ st \in InDispute, "dispute.opened") = <<"dispute.opened">>
        /\ If(Responded("held", purchase), "dispute.responded") = <<"dispute.responded">>
    BY <2>1 DEF If
  <2> QED BY <1>1, <2>1, <2>2, <2>3, EventsAre DEF Statuses
<1> QED BY <1>1, <1>2, <1>3, <1>4 DEF Statuses, Settled

(* What was told before, and what a later look adds, is what one look at the
   end would have told: escrowEvents skips and repeats nothing.             *)
LEMMA Telescopes ==
    ASSUME NEW s \in Statuses \ Settled, NEW purchase \in Lookup, Readable(purchase),
           Covers(s, purchase)
    PROVE  Before(s) \o escrowEvents(s, purchase) = escrowEvents("held", purchase)
<1> DEFINE st == purchase.status
           end == Ending(purchase)
           r == If(Responded("held", purchase), "dispute.responded")
<1>1. st \in Statuses /\ purchase.answered \in BOOLEAN /\ end \in Seq(Names)
  BY EndingIsSeq DEF Lookup
<1>2. /\ escrowEvents(s, purchase) \in Seq(Names)
      /\ st = s => escrowEvents(s, purchase) = <<>>
  BY EventsAre
<1>3. CASE st = s
  <2>1. Before(s) \o <<>> = Before(s)
    BY BeforeIsSeq, ConcatEmptySeq
  <2> QED BY <1>2, <1>3, <2>1, BeforeAnEnd
<1>4. CASE st # s /\ s \in {"held", "shipped"}
  <2>1. Before(s) = <<>>
    BY <1>4 DEF Before
  <2>2. escrowEvents(s, purchase) = escrowEvents("held", purchase)
    <3>1. CASE st # "held"
      <4>1. /\ (s \notin InDispute /\ st \in InDispute)
                 = ("held" \notin InDispute /\ st \in InDispute)
            /\ Responded(s, purchase) = Responded("held", purchase)
        BY <1>4 DEF InDispute, Responded, Answered
      <4>2. "held" \in Statuses
        BY DEF Statuses
      <4> QED BY <1>4, <3>1, <4>1, <4>2, EventsAre
    <3>2. CASE st = "held"
      <4>1. /\ ~(s \notin InDispute /\ st \in InDispute)
            /\ ~Responded(s, purchase) /\ st \notin Settled
        BY <3>2 DEF InDispute, Responded, Answered, Settled
      <4>2. (<<>> \o <<>>) \o <<>> = <<>>
        OBVIOUS
      <4>3. escrowEvents(s, purchase) = <<>>
        BY <1>4, <4>1, <4>2, EventsAre, IfIsSeq, NamesAre, EndingIsSeq
      <4> QED BY <3>2, <4>3, EventsAre DEF Statuses
    <3> QED BY <3>1, <3>2
  <2> QED BY <1>2, <2>1, <2>2, ConcatEmptySeq
<1>5. CASE st # s /\ s = "disputed"
  <2>1. /\ st \in InDispute /\ st # "held" /\ "held" \notin InDispute /\ s \in InDispute
        /\ Responded(s, purchase) = Responded("held", purchase)
        /\ Responded("held", purchase) \in BOOLEAN
        /\ "held" \in Statuses
    BY <1>5 DEF Covers, InDispute, Responded, Answered, Statuses
  <2>2. r \in Seq(Names)
    BY <2>1, IfIsSeq, NamesAre
  <2>3. escrowEvents(s, purchase) = (<<>> \o r) \o end
    <3>1. If(s \notin InDispute /\ st \in InDispute, "dispute.opened") = <<>>
      BY <2>1 DEF If
    <3>2. escrowEvents(s, purchase) =
            (If(s \notin InDispute /\ st \in InDispute, "dispute.opened")
               \o If(Responded(s, purchase), "dispute.responded")) \o end
      BY <1>5, EventsAre
    <3>3. If(Responded(s, purchase), "dispute.responded") = r
      BY <2>1
    <3> QED BY <3>1, <3>2, <3>3
  <2>4. escrowEvents("held", purchase) = (<<"dispute.opened">> \o r) \o end
    <3>1. If("held" \notin InDispute /\ st \in InDispute, "dispute.opened") = <<"dispute.opened">>
      BY <2>1 DEF If
    <3> QED BY <2>1, <3>1, EventsAre DEF Statuses
  <2>5. Before(s) = <<"dispute.opened">> /\ Before(s) \in Seq(Names)
    BY <1>5, BeforeIsSeq DEF Before
  <2> HIDE DEF r, end
  <2>6. <<>> \o r = r
    BY <2>2, ConcatEmptySeq
  <2>7. Before(s) \o (r \o end) = (Before(s) \o r) \o end
    BY <1>1, <2>2, <2>5, ConcatAssociative
  <2> QED BY <2>3, <2>4, <2>5, <2>6, <2>7
<1>6. CASE st # s /\ s = "responded"
  <2>1. /\ st \in InDispute /\ st # "held" /\ "held" \notin InDispute /\ s \in InDispute
        /\ ~Responded(s, purchase) /\ Responded("held", purchase)
        /\ "held" \in Statuses
    BY <1>6 DEF Covers, InDispute, Responded, Answered, Statuses
  <2>2. escrowEvents(s, purchase) = (<<>> \o <<>>) \o end
    <3>1. /\ If(s \notin InDispute /\ st \in InDispute, "dispute.opened") = <<>>
          /\ If(Responded(s, purchase), "dispute.responded") = <<>>
      BY <2>1 DEF If
    <3>2. escrowEvents(s, purchase) =
            (If(s \notin InDispute /\ st \in InDispute, "dispute.opened")
               \o If(Responded(s, purchase), "dispute.responded")) \o end
      BY <1>6, EventsAre
    <3> QED BY <3>1, <3>2
  <2>3. escrowEvents("held", purchase) = (<<"dispute.opened">> \o <<"dispute.responded">>) \o end
    <3>1. /\ If("held" \notin InDispute /\ st \in InDispute, "dispute.opened")
               = <<"dispute.opened">>
          /\ If(Responded("held", purchase), "dispute.responded") = <<"dispute.responded">>
      BY <2>1 DEF If
    <3> QED BY <2>1, <3>1, EventsAre DEF Statuses
  <2>4. /\ <<"dispute.opened">> \o <<"dispute.responded">> = Before(s)
        /\ <<>> \o <<>> = <<>>
    BY <1>6, Two, NamesAre DEF Before
  <2> HIDE DEF end
  <2>5. <<>> \o end = end
    BY <1>1, ConcatEmptySeq
  <2> QED BY <2>2, <2>3, <2>4, <2>5
<1> QED BY <1>3, <1>4, <1>5, <1>6 DEF Statuses, Settled

(* A move of the escrow adds what a look right after it would tell. *)
LEMMA HistoryGoesOn ==
    ASSUME escrow \in Lookup, History, escrow.status \notin Settled,
           escrow' \in Lookup, Readable(escrow'), Covers(escrow.status, escrow'),
           happened' = happened \o escrowEvents(escrow.status, escrow')
    PROVE  History'
<1>1. escrow.status \in Statuses \ Settled
  BY DEF Lookup
<1>2. happened = Before(escrow.status)
  BY BeforeAnEnd DEF History
<1>3. Before(escrow.status) \o escrowEvents(escrow.status, escrow') = escrowEvents("held", escrow')
  BY <1>1, Telescopes
<1> QED BY <1>2, <1>3 DEF History

-----------------------------------------------------------------------------
(* The order's record and its queue. *)

(* What a write of an app may do to the copy it had: the delivery that was
   next stays next.                                                         *)
Grows(old, new) ==
    /\ new.seen = old.seen
    /\ QueueOK(old) =>
          /\ QueueOK(new)
          /\ \A s \in Pending(old) : NextUp(old, s) => s \in Pending(new) /\ NextUp(new, s)

(* A write that leaves the queue alone. *)
LEMMA SameQueueGrows ==
    ASSUME NEW old, NEW new, new.seen = old.seen, new.queue = old.queue, new.issued = old.issued
    PROVE  Grows(old, new)
BY DEF Grows, QueueOK, Pending, NextUp

(* appendDeliveries: new ids at the end, and only finished ones go. *)
LEMMA Appended ==
    ASSUME NEW record \in Record, NEW events \in Seq(Events)
    PROVE  /\ AppendDeliveries(record, events) \in Record
           /\ Grows(record, AppendDeliveries(record, events))
<1>1. CASE events = <<>>
  <2>1. AppendDeliveries(record, events) = record
    BY <1>1 DEF AppendDeliveries
  <2> QED BY <2>1, SameQueueGrows
<1>2. CASE events # <<>>
  <2> DEFINE fresh == {Delivery(record.issued + i, events[i]) : i \in DOMAIN events}
             all == record.queue \cup fresh
             n == record.issued + Len(events)
  <2>1. AppendDeliveries(record, events) = [record EXCEPT !.queue = Trim(all), !.issued = n]
    BY <1>2 DEF AppendDeliveries
  <2>2. /\ record.issued \in Nat /\ record.queue \subseteq Deliveries
        /\ Len(events) \in Nat /\ DOMAIN events = 1..Len(events)
        /\ \A i \in DOMAIN events : events[i] \in Events
    BY LenProperties, ElementOfSeq DEF Record
  <2>3. n \in Nat
    BY <2>2
  <2>4. ASSUME NEW d \in fresh
        PROVE  /\ d \in Deliveries /\ ~Finished(d) /\ d.attempts = 0
               /\ d.id > record.issued /\ d.id <= n
    <3>1. PICK i \in DOMAIN events : d = Delivery(record.issued + i, events[i])
      OBVIOUS
    <3>2. i \in 1..Len(events) /\ events[i] \in Events
      BY <2>2
    <3>3. /\ d = [id |-> record.issued + i, event |-> events[i], status |-> "pending",
                   attempts |-> 0]
          /\ record.issued + i \in Nat
      BY <2>2, <3>1, <3>2 DEF Delivery
    <3> QED BY <2>2, <3>2, <3>3 DEF Deliveries, Finished
  <2>5. ASSUME NEW d \in fresh, NEW e \in fresh, d.id = e.id PROVE d = e
    <3>1. PICK i \in DOMAIN events : d = Delivery(record.issued + i, events[i])
      OBVIOUS
    <3>2. PICK j \in DOMAIN events : e = Delivery(record.issued + j, events[j])
      OBVIOUS
    <3>3. d.id = record.issued + i /\ e.id = record.issued + j
      BY <3>1, <3>2 DEF Delivery
    <3>4. i = j
      <4>1. i \in Nat /\ j \in Nat /\ record.issued \in Nat
        BY <2>2
      <4>2. record.issued + i = record.issued + j
        BY <2>5, <3>3
      <4> HIDE DEF fresh
      <4> QED BY <4>1, <4>2
    <3> QED BY <3>1, <3>2, <3>4
  <2> HIDE DEF fresh, n
  <2>6. Trim(all) \subseteq all /\ \A d \in all : ~Finished(d) => d \in Trim(all)
    BY DEF Trim
  <2>7. Trim(all) \in SUBSET Deliveries
    BY <2>2, <2>4, <2>6
  <2> DEFINE new == AppendDeliveries(record, events)
  <2>8. new \in Record
    BY <2>1, <2>3, <2>7 DEF Record
  <2>9. new.queue = Trim(all) /\ new.issued = n /\ new.seen = record.seen
    BY <2>1 DEF Record
  <2> HIDE DEF new
  <2>10. ASSUME QueueOK(record) PROVE QueueOK(new)
    <3>1. \A d \in record.queue : d.id <= record.issued /\ d.id \in Nat
      BY <2>2, <2>10 DEF QueueOK, Deliveries
    <3>2. \A d \in fresh : d.id \in Nat
      BY <2>4 DEF Deliveries
    <3>3. record.issued <= n
      BY <2>2 DEF n
    <3>4. \A d \in all : d.id <= n
      BY <2>2, <2>3, <2>4, <3>1, <3>3
    <3>5. ASSUME NEW d \in all, NEW e \in all, d.id = e.id PROVE d = e
      <4>1. CASE d \in record.queue /\ e \in record.queue
        BY <2>10, <3>5, <4>1 DEF QueueOK
      <4>2. CASE d \in fresh /\ e \in fresh
        BY <2>5, <3>5, <4>2
      <4>3. CASE d \in record.queue /\ e \in fresh
        BY <2>2, <2>4, <3>1, <3>2, <3>5, <4>3
      <4>4. CASE d \in fresh /\ e \in record.queue
        BY <2>2, <2>4, <3>1, <3>2, <3>5, <4>4
      <4> QED BY <4>1, <4>2, <4>3, <4>4
    <3>6. ASSUME NEW d \in all, NEW e \in all, d.id < e.id, ~Finished(d)
          PROVE  ~Finished(e) /\ e.attempts = 0
      <4>1. CASE e \in fresh
        BY <2>4, <4>1
      <4>2. CASE e \in record.queue /\ d \in record.queue
        BY <2>10, <3>6, <4>2 DEF QueueOK
      <4>3. CASE e \in record.queue /\ d \in fresh
        BY <2>2, <2>4, <3>1, <3>2, <3>6, <4>3
      <4> QED BY <4>1, <4>2, <4>3
    <3>7. new.queue \subseteq all /\ new.issued = n
      BY <2>6, <2>9
    <3> HIDE DEF all
    <3> QED BY <3>4, <3>5, <3>6, <3>7 DEF QueueOK
  <2>11. ASSUME QueueOK(record), NEW s \in Pending(record), NextUp(record, s)
         PROVE  s \in Pending(new) /\ NextUp(new, s)
    <3>1. s \in record.queue /\ ~Finished(s) /\ s.id <= record.issued /\ s.id \in Nat
      BY <2>2, <2>11 DEF Pending, QueueOK, Deliveries
    <3>2. s \in Pending(new)
      BY <2>6, <2>9, <3>1 DEF Pending
    <3>3. ASSUME NEW e \in Pending(new) PROVE s.id <= e.id
      <4>1. e \in all /\ ~Finished(e)
        BY <2>6, <2>9 DEF Pending
      <4>2. CASE e \in record.queue
        BY <2>11, <4>1, <4>2 DEF Pending, NextUp
      <4>3. CASE e \in fresh
        <5>1. e.id \in Nat /\ e.id > record.issued
          BY <2>4, <4>3 DEF Deliveries
        <5> QED BY <2>2, <3>1, <5>1
      <4> QED BY <4>1, <4>2, <4>3
    <3> QED BY <3>2, <3>3 DEF NextUp
  <2>12. Grows(record, new)
    BY <2>9, <2>10, <2>11 DEF Grows
  <2> QED BY <2>8, <2>12 DEF new
<1> QED BY <1>1, <1>2

(* What an attempt writes. *)
Tried(record, done) == [record EXCEPT !.queue = {IF d.id = done.id THEN done ELSE d : d \in @}]

(* A delivery keeps its id through its attempts. *)
LEMMA AfterIs ==
    ASSUME NEW s \in Deliveries, NEW outcome \in Outcomes
    PROVE  After(s, outcome) \in Deliveries /\ After(s, outcome).id = s.id
<1>1. s.attempts + 1 \in Nat
  BY DEF Deliveries
<1> QED BY <1>1 DEF After, Deliveries

(* An attempt changes one delivery of the record. *)
LEMMA TriedIs ==
    ASSUME NEW record \in Record, NEW done \in Deliveries
    PROVE  /\ Tried(record, done) \in Record
           /\ Tried(record, done).queue = {IF d.id = done.id THEN done ELSE d : d \in record.queue}
           /\ Tried(record, done).seen = record.seen /\ Tried(record, done).issued = record.issued
<1> DEFINE q == {IF d.id = done.id THEN done ELSE d : d \in record.queue}
<1>1. record.queue \subseteq Deliveries
  BY DEF Record
<1>2. q \in SUBSET Deliveries
  BY <1>1
<1>3. Tried(record, done) = [record EXCEPT !.queue = q]
  BY DEF Tried
<1> HIDE DEF q
<1>4. /\ Tried(record, done) \in Record
      /\ Tried(record, done).queue = q
      /\ Tried(record, done).seen = record.seen /\ Tried(record, done).issued = record.issued
  BY <1>2, <1>3 DEF Record
<1> QED BY <1>4 DEF q

(* Trying the first pending delivery keeps the queue in order. *)
LEMMA TriedInOrder ==
    ASSUME NEW record \in Record, NEW s \in Pending(record), NextUp(record, s), QueueOK(record),
           NEW outcome \in Outcomes
    PROVE  QueueOK(Tried(record, After(s, outcome)))
<1> DEFINE done == After(s, outcome)
           new == Tried(record, done)
<1>1. s \in record.queue /\ ~Finished(s) /\ record.queue \subseteq Deliveries
  BY DEF Pending, Record
<1>2. done \in Deliveries /\ done.id = s.id
  BY <1>1, AfterIs
<1> HIDE DEF done
<1>3. /\ new.queue = {IF d.id = done.id THEN done ELSE d : d \in record.queue}
      /\ new.issued = record.issued
  BY <1>2, TriedIs
<1> HIDE DEF new
<1>4. ASSUME NEW x \in new.queue
      PROVE  \/ x = done
             \/ x \in record.queue /\ x.id # s.id
  BY <1>2, <1>3
<1>5. \A d \in Deliveries : d.id \in Nat
  BY DEF Deliveries
<1>6. \A d \in new.queue : d.id <= new.issued
  BY <1>1, <1>2, <1>3, <1>4 DEF QueueOK
<1>7. ASSUME NEW d \in new.queue, NEW e \in new.queue, d.id = e.id PROVE d = e
  BY <1>2, <1>4, <1>7 DEF QueueOK
<1>8. ASSUME NEW d \in new.queue, NEW e \in new.queue, d.id < e.id, ~Finished(d)
      PROVE  ~Finished(e) /\ e.attempts = 0
  <2>1. CASE d = done /\ e = done
    BY <1>2, <1>5, <1>8, <2>1
  <2>2. CASE d = done /\ e \in record.queue
    BY <1>1, <1>2, <1>8, <2>2 DEF QueueOK
  <2>3. CASE d \in record.queue /\ e = done
    <3>1. d \in Pending(record)
      BY <1>8, <2>3 DEF Pending
    <3>2. s.id <= d.id /\ d.id < s.id
      BY <1>2, <1>8, <2>3, <3>1 DEF NextUp
    <3> QED BY <1>1, <1>5, <2>3, <3>2
  <2>4. CASE d \in record.queue /\ e \in record.queue
    BY <1>8, <2>4 DEF QueueOK
  <2> QED BY <1>4, <2>1, <2>2, <2>3, <2>4
<1>9. QueueOK(new)
  BY <1>6, <1>7, <1>8 DEF QueueOK
<1> QED BY <1>9 DEF new, done

-----------------------------------------------------------------------------
(* The steps of an app. *)

QueueingOK == queueing \in [Apps -> SUBSET ({"created"} \cup Parcels)]
AskingOK == asking \in [Apps -> [asked : BOOLEAN, todo : SUBSET Parcels, all : BOOLEAN]]

(* What Update leaves of the other apps. *)
LEMMA UpdateIs ==
    ASSUME TypeOK, NEW a \in Apps, mem[a] # None, NEW n \in Record, Update(a, n)
    PROVE  /\ db' = n /\ mem' \in [Apps -> Record \cup {None}] /\ mem'[a] = n /\ n # None
           /\ \A b \in Apps \ {a} : mem'[b] = mem[b]
           /\ \A b \in Apps : mem'[b] = None <=> mem[b] = None
<1>1. n # None
  BY NoneAssumption
<1>2. /\ db' = n /\ mem' \in [Apps -> Record \cup {None}] /\ mem'[a] = n
      /\ \A b \in Apps \ {a} : mem'[b] = mem[b]
  BY DEF Update, TypeOK
<1> QED BY <1>1, <1>2

(* A step that is neither of the escrow's nor of the drain's: it writes the
   app's copy, and the delivery that was next stays next.                   *)
LEMMA AppWrites ==
    ASSUME IInv, NEW a \in Apps, mem[a] # None, NEW n \in Record, Update(a, n), Grows(mem[a], n),
           QueueingOK', AskingOK', armed' \in [Apps -> BOOLEAN],
           \A b \in Apps \ {a} : queueing'[b] = queueing[b] /\ asking'[b] = asking[b],
           UNCHANGED <<reading, sending, told, pool, world>>
    PROVE  IInv'
<1>1. TypeOK /\ DeadIsEmpty /\ WaitedIsStopped /\ History
  BY DEF IInv
<1>2. /\ db' = n /\ mem' \in [Apps -> Record \cup {None}] /\ mem'[a] = n
      /\ \A b \in Apps \ {a} : mem'[b] = mem[b]
      /\ \A b \in Apps : mem'[b] = None <=> mem[b] = None
  BY <1>1, UpdateIs
<1>3. /\ UNCHANGED <<reading, sending, told, built, get, version, stopped, overlapped>>
      /\ UNCHANGED <<failures, platform, escrow, happened>>
  BY DEF pool, world
<1>4. TypeOK'
  BY <1>1, <1>2, <1>3 DEF TypeOK, QueueingOK, AskingOK
<1>5. DeadIsEmpty'
  BY <1>1, <1>2, <1>3 DEF DeadIsEmpty
<1>6. WaitedIsStopped'
  BY <1>1, <1>2, <1>3 DEF WaitedIsStopped
<1>7. History'
  BY <1>1, <1>3 DEF History
<1>8. ASSUME ~overlapped' PROVE Apart'
  <2>1. Apart
    BY <1>3, <1>8 DEF IInv
  <2>2. mem[a] = db /\ \A b \in Apps : mem[b] # None => b = a
    BY <2>1 DEF Apart, OneCopy
  <2>3. OneBuilder' /\ OthersStopped'
    BY <1>2, <1>3, <2>1 DEF Apart, OneBuilder, OthersStopped
  <2>4. OneCopy'
    BY <1>2, <2>2 DEF OneCopy
  <2>5. QueueOK(db')
    BY <1>2, <2>1, <2>2 DEF Apart, Grows
  <2>6. SendsNext'
    BY <1>2, <1>3, <2>1, <2>2 DEF Apart, Grows, SendsNext
  <2>7. Seen(db') = Seen(db)
    BY <1>2, <2>2 DEF Grows, Seen
  <2>8. ToldSoFar'
    BY <1>3, <2>1, <2>7 DEF Apart, ToldSoFar, ToldFor, Covers
  <2>9. ReadsCover'
    BY <1>3, <2>1, <2>7 DEF Apart, ReadsCover, Covers, Readable
  <2> QED BY <2>3, <2>4, <2>5, <2>6, <2>8, <2>9 DEF Apart
<1> QED BY <1>4, <1>5, <1>6, <1>7, <1>8 DEF IInv

(* A step that only waits for something else. *)
LEMMA WaitsKeep ==
    ASSUME IInv, NEW a \in Apps, mem[a] # None, UNCHANGED <<db, mem>>,
           QueueingOK', AskingOK', armed' \in [Apps -> BOOLEAN],
           \A b \in Apps \ {a} : queueing'[b] = queueing[b] /\ asking'[b] = asking[b],
           UNCHANGED <<reading, sending, told, pool, world>>
    PROVE  IInv'
<1>1. TypeOK /\ DeadIsEmpty /\ WaitedIsStopped /\ History
  BY DEF IInv
<1>2. /\ UNCHANGED <<reading, sending, told, built, get, version, stopped, overlapped>>
      /\ UNCHANGED <<failures, platform, escrow, happened>>
  BY DEF pool, world
<1>3. TypeOK'
  BY <1>1, <1>2 DEF TypeOK, QueueingOK, AskingOK
<1>4. DeadIsEmpty' /\ WaitedIsStopped' /\ History'
  BY <1>1, <1>2 DEF DeadIsEmpty, WaitedIsStopped, History
<1>5. Apart' <=> Apart
  BY <1>2 DEF Apart, OneBuilder, OthersStopped, OneCopy, SendsNext, ToldSoFar, ToldFor, ReadsCover
<1> QED BY <1>2, <1>3, <1>4, <1>5 DEF IInv

(* Attaching the webhook writes a flag and awaits the queueing of the first event. *)
LEMMA AttachKeeps ==
    ASSUME IInv, NEW a \in Apps, AttachWebhook(a) PROVE IInv'
<1> DEFINE n == [mem[a] EXCEPT !.webhook = TRUE]
<1>1. mem[a] # None /\ mem[a] \in Record /\ TypeOK
  BY DEF AttachWebhook, IInv, TypeOK
<1>2. n \in Record /\ n.seen = mem[a].seen /\ n.queue = mem[a].queue /\ n.issued = mem[a].issued
  BY <1>1 DEF Record
<1>3. Update(a, n)
  BY DEF AttachWebhook
<1> HIDE DEF n
<1>4. /\ QueueingOK' /\ AskingOK'
      /\ \A b \in Apps \ {a} : queueing'[b] = queueing[b] /\ asking'[b] = asking[b]
  BY <1>1 DEF AttachWebhook, TypeOK, QueueingOK, AskingOK
<1>5. armed' \in [Apps -> BOOLEAN] /\ UNCHANGED <<reading, sending, told, pool, world>>
  BY <1>1 DEF AttachWebhook, TypeOK
<1> QED BY <1>1, <1>2, <1>3, <1>4, <1>5, SameQueueGrows, AppWrites

(* Queueing an event appends it. *)
LEMMA QueueKeeps ==
    ASSUME IInv, NEW a \in Apps, NEW event \in {"created"} \cup Parcels, Queue(a, event) PROVE IInv'
<1> DEFINE n == AppendDeliveries(mem[a], <<event>>)
<1>1. mem[a] # None /\ mem[a] \in Record /\ TypeOK
  BY DEF Queue, IInv, TypeOK, DeadIsEmpty
<1>2. n \in Record /\ Grows(mem[a], n)
  <2>1. <<event>> \in Seq(Events)
    BY DEF Events
  <2> QED BY <1>1, <2>1, Appended
<1>3. Update(a, n)
  BY DEF Queue
<1> HIDE DEF n
<1>4. /\ QueueingOK' /\ AskingOK'
      /\ \A b \in Apps \ {a} : queueing'[b] = queueing[b] /\ asking'[b] = asking[b]
  BY <1>1 DEF Queue, TypeOK, QueueingOK, AskingOK
<1>5. armed' \in [Apps -> BOOLEAN] /\ UNCHANGED <<reading, sending, told, pool, world>>
  BY <1>1 DEF Queue, Schedule, TypeOK
<1> QED BY <1>1, <1>2, <1>3, <1>4, <1>5, AppWrites

(* The shipment check of one app goes on. *)
Asks == [asked : BOOLEAN, todo : SUBSET Parcels, all : BOOLEAN]

LEMMA AskingChanges ==
    ASSUME TypeOK, NEW a \in Apps, NEW x \in Asks, asking' = [asking EXCEPT ![a] = x]
    PROVE  AskingOK' /\ \A b \in Apps \ {a} : asking'[b] = asking[b]
<1>1. asking \in [Apps -> Asks]
  BY DEF TypeOK, Asks
<1>2. asking' \in [Apps -> Asks] /\ \A b \in Apps \ {a} : asking'[b] = asking[b]
  BY <1>1
<1> QED BY <1>2 DEF AskingOK, Asks

(* An app that asks nothing. *)
LEMMA NotAskingIs == NotAsking \in Asks
BY DEF NotAsking, Asks

(* Asking the platform writes the record back as it was. *)
LEMMA AskKeeps ==
    ASSUME IInv, NEW a \in Apps, AskPlatform(a) PROVE IInv'
<1>1. mem[a] # None /\ mem[a] \in Record /\ TypeOK
  BY DEF AskPlatform, IInv, TypeOK
<1>2. Update(a, mem[a]) /\ Grows(mem[a], mem[a])
  BY SameQueueGrows DEF AskPlatform
<1> DEFINE x == [asking[a] EXCEPT !.asked = TRUE]
<1>3. asking[a] \in Asks
  BY <1>1 DEF TypeOK, Asks
<1>4. x \in Asks
  BY <1>3 DEF Asks
<1>5. asking' = [asking EXCEPT ![a] = x]
  BY DEF AskPlatform
<1> HIDE DEF x
<1>6. AskingOK' /\ \A b \in Apps \ {a} : asking'[b] = asking[b]
  BY <1>1, <1>4, <1>5, AskingChanges
<1>7. QueueingOK' /\ \A b \in Apps \ {a} : queueing'[b] = queueing[b]
  BY <1>1 DEF AskPlatform, TypeOK, QueueingOK
<1>8. armed' \in [Apps -> BOOLEAN] /\ UNCHANGED <<reading, sending, told, pool, world>>
  BY <1>1 DEF AskPlatform, TypeOK
<1> QED BY <1>1, <1>2, <1>6, <1>7, <1>8, AppWrites

(* Its answer cancels the order or leaves parcels to record. *)
LEMMA AnswerKeeps ==
    ASSUME IInv, NEW a \in Apps, PlatformAnswers(a) PROVE IInv'
<1> DEFINE n == IF platform.canceled THEN [mem[a] EXCEPT !.state = "canceled"] ELSE mem[a]
           y == [asked |-> FALSE, todo |-> platform.left, all |-> platform.left = Parcels]
           x == IF platform.canceled THEN NotAsking ELSE y
<1>1. mem[a] # None /\ mem[a] \in Record /\ TypeOK
  BY DEF PlatformAnswers, IInv, TypeOK, DeadIsEmpty, NotAsking
<1>2. n \in Record /\ n.seen = mem[a].seen /\ n.queue = mem[a].queue /\ n.issued = mem[a].issued
  BY <1>1 DEF Record
<1>3. y \in Asks
  <2>1. platform.left \in SUBSET Parcels /\ (platform.left = Parcels) \in BOOLEAN
    BY <1>1 DEF TypeOK
  <2> QED BY <2>1 DEF Asks
<1>4. asking' = [asking EXCEPT ![a] = x]
  BY DEF PlatformAnswers
<1>5. x \in Asks
  BY <1>3, NotAskingIs
<1> HIDE DEF x, y
<1>6. AskingOK' /\ \A b \in Apps \ {a} : asking'[b] = asking[b]
  BY <1>1, <1>4, <1>5, AskingChanges
<1>7. QueueingOK' /\ \A b \in Apps \ {a} : queueing'[b] = queueing[b]
  BY <1>1 DEF PlatformAnswers, TypeOK, QueueingOK
<1>8. armed' \in [Apps -> BOOLEAN] /\ UNCHANGED <<reading, sending, told, pool, world>>
  BY <1>1 DEF PlatformAnswers, TypeOK
<1>9. CASE platform.canceled
  <2>1. Update(a, n)
    BY <1>9 DEF PlatformAnswers
  <2> HIDE DEF n
  <2> QED BY <1>1, <1>2, <1>6, <1>7, <1>8, <2>1, SameQueueGrows, AppWrites
<1>10. CASE ~platform.canceled
  <2>1. UNCHANGED <<db, mem>>
    BY <1>10 DEF PlatformAnswers
  <2> QED BY <1>1, <1>6, <1>7, <1>8, <2>1, WaitsKeep
<1> QED BY <1>9, <1>10

(* Recording a parcel awaits the queueing of its event. *)
LEMMA ShipmentKeeps ==
    ASSUME IInv, NEW a \in Apps, NEW p \in Parcels, RecordShipment(a, p) PROVE IInv'
<1> DEFINE state == IF asking[a].all \/ mem[a].state = "fulfilled" THEN "fulfilled" ELSE "partial"
           n == [mem[a] EXCEPT !.shipped = mem[a].shipped \cup {p}, !.state = state]
           y == [asked |-> FALSE, todo |-> asking[a].todo \ {p}, all |-> asking[a].all]
           x == IF asking[a].todo = {p} THEN NotAsking ELSE y
<1>1. mem[a] # None /\ mem[a] \in Record /\ TypeOK
  BY DEF RecordShipment, IInv, TypeOK, DeadIsEmpty, NotAsking
<1>2. n \in Record /\ n.seen = mem[a].seen /\ n.queue = mem[a].queue /\ n.issued = mem[a].issued
  BY <1>1 DEF Record
<1>3. Update(a, n)
  BY DEF RecordShipment
<1> HIDE DEF n, state
<1>4. asking[a] \in Asks
  BY <1>1 DEF TypeOK, Asks
<1>5. y \in Asks
  BY <1>4 DEF Asks
<1>6. asking' = [asking EXCEPT ![a] = x]
  BY DEF RecordShipment
<1>7. x \in Asks
  BY <1>5, NotAskingIs
<1> HIDE DEF x, y
<1>8. AskingOK' /\ \A b \in Apps \ {a} : asking'[b] = asking[b]
  BY <1>1, <1>6, <1>7, AskingChanges
<1>9. QueueingOK' /\ \A b \in Apps \ {a} : queueing'[b] = queueing[b]
  BY <1>1 DEF RecordShipment, TypeOK, QueueingOK
<1>10. armed' \in [Apps -> BOOLEAN] /\ UNCHANGED <<reading, sending, told, pool, world>>
  BY <1>1 DEF RecordShipment, TypeOK
<1> QED BY <1>1, <1>2, <1>3, <1>8, <1>9, <1>10, SameQueueGrows, AppWrites

-----------------------------------------------------------------------------
(* The escrow's reads. *)

(* A read starts in the one app that is not stopped, behind what was told. *)
LEMMA ReadKeeps ==
    ASSUME IInv, NEW a \in Apps, ReadEscrow(a) PROVE IInv'
<1>1. TypeOK /\ DeadIsEmpty /\ WaitedIsStopped /\ History
  BY DEF IInv
<1>2. /\ mem[a] # None /\ ~stopped[a] /\ mem[a].seen \notin Settled
      /\ UNCHANGED <<db, mem, queueing, asking, sending, armed, told>>
      /\ UNCHANGED <<built, get, version, stopped, overlapped>>
      /\ UNCHANGED <<failures, platform, escrow, happened>>
  BY DEF ReadEscrow, pool, world
<1>3. /\ reading' \in [Apps -> Lookup \cup {None}]
      /\ reading'[a] = escrow /\ \A b \in Apps \ {a} : reading'[b] = reading[b]
  BY <1>1 DEF ReadEscrow, TypeOK
<1>4. TypeOK'
  BY <1>1, <1>2, <1>3 DEF TypeOK
<1>5. DeadIsEmpty' /\ WaitedIsStopped' /\ History'
  BY <1>1, <1>2, <1>3 DEF DeadIsEmpty, WaitedIsStopped, History
<1>6. ASSUME ~overlapped' PROVE Apart'
  <2>1. Apart
    BY <1>2, <1>6 DEF IInv
  <2>2. OneBuilder' /\ OneCopy' /\ QueueOK(db') /\ SendsNext' /\ ToldSoFar'
    BY <1>2, <2>1 DEF Apart, OneBuilder, OneCopy, SendsNext, ToldSoFar, ToldFor
  <2>3. OthersStopped'
    <3>1. OthersStopped
      BY <2>1 DEF Apart
    <3>2. built # None /\ built.app = a
      BY <1>2, <3>1 DEF OthersStopped
    <3> QED BY <1>2, <1>3, <3>1, <3>2 DEF OthersStopped
  <2>4. Seen(db) \notin Settled /\ Covers(Seen(db), escrow)
    BY <1>2, <2>1 DEF Apart, OneCopy, ToldSoFar, Seen, Settled
  <2>5. Readable(escrow)
    BY <1>1 DEF History
  <2>6. Covers(escrow.status, escrow)
    BY <2>5 DEF Covers, InDispute, Answered, Readable
  <2>7. ReadsCover'
    <3>1. SUFFICES ASSUME NEW b \in Apps, reading'[b] # None
                   PROVE  /\ Seen(db) \notin Settled
                          /\ Readable(reading'[b]) /\ Covers(Seen(db), reading'[b])
                          /\ Covers(reading'[b].status, escrow)
                          /\ reading'[b].status \in Settled => escrow = reading'[b]
      BY <1>2 DEF ReadsCover
    <3>2. CASE b = a
      BY <1>3, <2>4, <2>5, <2>6, <3>2
    <3>3. CASE b # a
      BY <1>3, <2>1, <3>1, <3>3 DEF Apart, ReadsCover
    <3> QED BY <3>2, <3>3
  <2> QED BY <2>2, <2>3, <2>7 DEF Apart
<1> QED BY <1>2, <1>4, <1>5, <1>6 DEF IInv

(* A stopped app drops what it read. *)
LEMMA DropKeeps ==
    ASSUME IInv, NEW a \in Apps, ReportEscrow(a), stopped[a] PROVE IInv'
<1>1. TypeOK /\ DeadIsEmpty /\ WaitedIsStopped /\ History
  BY DEF IInv
<1>2. /\ UNCHANGED <<db, mem, queueing, asking, sending, armed, told>>
      /\ UNCHANGED <<built, get, version, stopped, overlapped>>
      /\ UNCHANGED <<failures, platform, escrow, happened>>
  BY DEF ReportEscrow, pool, world
<1>3. /\ reading' \in [Apps -> Lookup \cup {None}]
      /\ reading'[a] = None /\ \A b \in Apps \ {a} : reading'[b] = reading[b]
  BY <1>1 DEF ReportEscrow, TypeOK
<1>4. TypeOK'
  BY <1>1, <1>2, <1>3 DEF TypeOK
<1>5. DeadIsEmpty' /\ WaitedIsStopped' /\ History'
  BY <1>1, <1>2, <1>3 DEF DeadIsEmpty, WaitedIsStopped, History
<1>6. ASSUME Apart PROVE Apart'
  <2>1. OneBuilder' /\ OneCopy' /\ QueueOK(db') /\ SendsNext' /\ ToldSoFar'
    BY <1>2, <1>6 DEF Apart, OneBuilder, OneCopy, SendsNext, ToldSoFar, ToldFor
  <2>2. OthersStopped'
    BY <1>2, <1>3, <1>6 DEF Apart, OthersStopped
  <2>3. ReadsCover'
    BY <1>2, <1>3, <1>6 DEF Apart, ReadsCover
  <2> QED BY <2>1, <2>2, <2>3 DEF Apart
<1> QED BY <1>2, <1>4, <1>5, <1>6 DEF IInv

(* A report that comes after what was told completes it. *)
LEMMA ToldGoesOn ==
    ASSUME TypeOK, History, ToldSoFar, ReadsCover, NEW a \in Apps, reading[a] # None
    PROVE  /\ told \o escrowEvents(Seen(db), reading[a]) = ToldFor(reading[a].status)
           /\ Covers(reading[a].status, escrow)
<1> DEFINE r == reading[a]
           s == Seen(db)
<1>1. r \in Lookup /\ r.status \in Statuses
  BY DEF TypeOK, Lookup
<1>2. s \in Statuses
  BY DEF TypeOK, Record, Seen, Statuses
<1>3. /\ s \notin Settled /\ Readable(r) /\ Covers(s, r) /\ Covers(r.status, escrow)
      /\ r.status \in Settled => escrow = r
  BY DEF ReadsCover
<1>4. told = Before(s)
  BY <1>3 DEF ToldSoFar, ToldFor
<1> HIDE DEF r, s
<1>5. told \o escrowEvents(s, r) = escrowEvents("held", r)
  BY <1>1, <1>2, <1>3, <1>4, Telescopes
<1>6. CASE r.status \in Settled
  <2>1. ToldFor(r.status) = happened /\ happened = escrowEvents("held", r)
    BY <1>3, <1>6 DEF ToldFor, History
  <2> QED BY <1>3, <1>5, <2>1 DEF r, s
<1>7. CASE r.status \notin Settled
  <2>1. ToldFor(r.status) = escrowEvents("held", r)
    BY <1>1, <1>3, <1>7, BeforeAnEnd DEF ToldFor
  <2> QED BY <1>3, <1>5, <2>1 DEF r, s
<1> QED BY <1>6, <1>7

(* The deliveries of a report and the state they report are one write. *)
LEMMA ReportKeeps ==
    ASSUME IInv, NEW a \in Apps, ReportEscrow(a), ~stopped[a] PROVE IInv'
<1> DEFINE r == reading[a]
           events == escrowEvents(Seen(mem[a]), r)
           old == [mem[a] EXCEPT !.seen = r.status]
           n == AppendDeliveries(old, events)
<1>1. TypeOK /\ DeadIsEmpty /\ WaitedIsStopped /\ History
  BY DEF IInv
<1>2. reading[a] # None /\ mem[a] # None
  BY <1>1 DEF ReportEscrow, DeadIsEmpty
<1>3. mem[a] \in Record /\ r \in Lookup /\ r.status \in Statuses /\ Seen(mem[a]) \in Statuses
  BY <1>1, <1>2 DEF TypeOK, Lookup, Record, Seen, Statuses
<1>4. /\ Update(a, n) /\ told' = told \o events
      /\ armed' = [armed EXCEPT ![a] = armed[a] \/ ~stopped[a]]
      /\ UNCHANGED <<queueing, asking, sending>>
      /\ UNCHANGED <<built, get, version, stopped, overlapped>>
      /\ UNCHANGED <<failures, platform, escrow, happened>>
  BY DEF ReportEscrow, Schedule, pool, world
<1>5. /\ reading' \in [Apps -> Lookup \cup {None}]
      /\ reading'[a] = None /\ \A b \in Apps \ {a} : reading'[b] = reading[b]
  BY <1>1 DEF ReportEscrow, TypeOK
<1>6. events \in Seq(Events)
  <2>1. events \in Seq(Names)
    BY <1>3, EventsAre
  <2>2. Names \subseteq Events
    BY DEF Names, Events
  <2> HIDE DEF events
  <2>3. Seq(Names) \subseteq Seq(Events)
    BY <2>2
  <2> QED BY <2>1, <2>3
<1>7. /\ old \in Record /\ old.seen = r.status
      /\ old.queue = mem[a].queue /\ old.issued = mem[a].issued
  BY <1>3 DEF Record
<1> HIDE DEF events, old, r
<1>8. n \in Record /\ Grows(old, n)
  BY <1>6, <1>7, Appended
<1> HIDE DEF n
<1>9. /\ db' = n /\ mem' \in [Apps -> Record \cup {None}] /\ mem'[a] = n
      /\ \A b \in Apps \ {a} : mem'[b] = mem[b]
      /\ \A b \in Apps : mem'[b] = None <=> mem[b] = None
  BY <1>1, <1>2, <1>4, <1>8, UpdateIs
<1>10. armed' \in [Apps -> BOOLEAN]
  BY <1>1, <1>4 DEF TypeOK
<1>11. TypeOK'
  BY <1>1, <1>4, <1>5, <1>8, <1>9, <1>10 DEF TypeOK
<1>12. DeadIsEmpty' /\ WaitedIsStopped' /\ History'
  BY <1>1, <1>4, <1>5, <1>9 DEF DeadIsEmpty, WaitedIsStopped, History
<1>13. ASSUME Apart PROVE Apart'
  <2>1. mem[a] = db /\ \A b \in Apps : mem[b] # None => b = a
    BY <1>2, <1>13 DEF Apart, OneCopy
  <2>2. OneBuilder' /\ OneCopy'
    BY <1>4, <1>9, <1>13, <2>1 DEF Apart, OneBuilder, OneCopy
  <2>3. OthersStopped'
    BY <1>4, <1>5, <1>9, <1>13 DEF Apart, OthersStopped
  <2>4. /\ QueueOK(old) /\ Pending(old) = Pending(db)
        /\ \A s : NextUp(db, s) <=> NextUp(old, s)
    BY <1>7, <1>13, <2>1 DEF Apart, QueueOK, Pending, NextUp
  <2>5. QueueOK(db') /\ SendsNext'
    BY <1>4, <1>8, <1>9, <1>13, <2>4 DEF Apart, Grows, SendsNext
  <2>6. Seen(db') = r.status
    <3>1. n.seen = r.status /\ r.status # None
      BY <1>3, <1>7, <1>8, NoneAssumption DEF Grows
    <3> QED BY <1>9, <3>1 DEF Seen
  <2>7. ToldSoFar'
    <3>1. told' = ToldFor(r.status) /\ Covers(r.status, escrow)
      BY <1>1, <1>2, <1>4, <1>13, <2>1, ToldGoesOn DEF Apart, r, events
    <3> QED BY <1>4, <2>6, <3>1 DEF ToldSoFar, ToldFor
  <2>8. ReadsCover'
    <3>1. \A b \in Apps : reading'[b] = None
      BY <1>1, <1>5, <2>1 DEF DeadIsEmpty
    <3> QED BY <3>1 DEF ReadsCover
  <2> QED BY <2>2, <2>3, <2>5, <2>7, <2>8 DEF Apart
<1> QED BY <1>4, <1>11, <1>12, <1>13 DEF IInv

-----------------------------------------------------------------------------
(* The drain. *)

(* The drain sends the first pending delivery of the only copy there is. *)
LEMMA SendKeeps ==
    ASSUME IInv, NEW a \in Apps, Send(a) PROVE IInv'
<1>1. TypeOK /\ DeadIsEmpty /\ WaitedIsStopped /\ History
  BY DEF IInv
<1>2. /\ mem[a] # None /\ ~stopped[a] /\ mem[a] \in Record
      /\ UNCHANGED <<db, mem, queueing, asking, reading, armed, told>>
      /\ UNCHANGED <<built, get, version, stopped, overlapped>>
      /\ UNCHANGED <<failures, platform, escrow, happened>>
  BY <1>1 DEF Send, TypeOK, pool, world
<1>3. PICK d \in Pending(mem[a]) :
        NextUp(mem[a], d) /\ sending' = [sending EXCEPT ![a] = d]
  BY DEF Send
<1>4. d \in Deliveries
  BY <1>2 DEF Pending, Record
<1>5. /\ sending' \in [Apps -> Deliveries \cup {None}]
      /\ sending'[a] = d /\ \A b \in Apps \ {a} : sending'[b] = sending[b]
  BY <1>1, <1>3, <1>4 DEF TypeOK
<1>6. TypeOK'
  BY <1>1, <1>2, <1>5 DEF TypeOK
<1>7. DeadIsEmpty' /\ WaitedIsStopped' /\ History'
  BY <1>1, <1>2, <1>5 DEF DeadIsEmpty, WaitedIsStopped, History
<1>8. ASSUME Apart PROVE Apart'
  <2>1. OneBuilder' /\ OneCopy' /\ QueueOK(db') /\ ToldSoFar' /\ ReadsCover'
    BY <1>2, <1>8 DEF Apart, OneBuilder, OneCopy, ToldSoFar, ToldFor, ReadsCover
  <2>2. OthersStopped'
    <3>1. OthersStopped
      BY <1>8 DEF Apart
    <3>2. built # None /\ built.app = a
      BY <1>2, <3>1 DEF OthersStopped
    <3> QED BY <1>2, <1>5, <3>1, <3>2 DEF OthersStopped
  <2>3. mem[a] = db
    BY <1>2, <1>8 DEF Apart, OneCopy
  <2>4. SendsNext'
    BY <1>2, <1>3, <1>5, <1>8, <2>3 DEF Apart, SendsNext
  <2> QED BY <2>1, <2>2, <2>4 DEF Apart
<1> QED BY <1>2, <1>6, <1>7, <1>8 DEF IInv

(* Its answer is written to that copy, where the delivery is still the first. *)
LEMMA AttemptKeeps ==
    ASSUME IInv, NEW a \in Apps, NEW outcome \in Outcomes, Attempt(a, outcome) PROVE IInv'
<1> DEFINE done == After(sending[a], outcome)
           n == Tried(mem[a], done)
<1>1. TypeOK /\ DeadIsEmpty /\ WaitedIsStopped /\ History
  BY DEF IInv
<1>2. sending[a] # None /\ mem[a] # None
  BY <1>1 DEF Attempt, DeadIsEmpty
<1>3. mem[a] \in Record /\ sending[a] \in Deliveries
  BY <1>1, <1>2 DEF TypeOK
<1>4. done \in Deliveries
  BY <1>3, AfterIs
<1>5. /\ Update(a, n)
      /\ UNCHANGED <<queueing, asking, reading, armed, told>>
      /\ UNCHANGED <<built, get, version, stopped, overlapped>>
      /\ UNCHANGED <<failures, platform, escrow, happened>>
  BY DEF Attempt, Tried, pool, world
<1>6. /\ sending' \in [Apps -> Deliveries \cup {None}]
      /\ sending'[a] = None /\ \A b \in Apps \ {a} : sending'[b] = sending[b]
  BY <1>1 DEF Attempt, TypeOK
<1> HIDE DEF done
<1>7. n \in Record /\ n.seen = mem[a].seen
  BY <1>3, <1>4, TriedIs
<1> HIDE DEF n
<1>8. /\ db' = n /\ mem' \in [Apps -> Record \cup {None}] /\ mem'[a] = n
      /\ \A b \in Apps \ {a} : mem'[b] = mem[b]
      /\ \A b \in Apps : mem'[b] = None <=> mem[b] = None
  BY <1>1, <1>2, <1>5, <1>7, UpdateIs
<1>9. TypeOK'
  BY <1>1, <1>5, <1>6, <1>7, <1>8 DEF TypeOK
<1>10. DeadIsEmpty' /\ WaitedIsStopped' /\ History'
  BY <1>1, <1>5, <1>6, <1>8 DEF DeadIsEmpty, WaitedIsStopped, History
<1>11. ASSUME Apart PROVE Apart'
  <2>1. mem[a] = db /\ \A b \in Apps : mem[b] # None => b = a
    BY <1>2, <1>11 DEF Apart, OneCopy
  <2>2. OneBuilder' /\ OneCopy'
    BY <1>5, <1>8, <1>11, <2>1 DEF Apart, OneBuilder, OneCopy
  <2>3. OthersStopped'
    BY <1>5, <1>6, <1>8, <1>11 DEF Apart, OthersStopped
  <2>4. QueueOK(db')
    <3>1. sending[a] \in Pending(mem[a]) /\ NextUp(mem[a], sending[a]) /\ QueueOK(mem[a])
      BY <1>2, <1>11, <2>1 DEF Apart, SendsNext
    <3> QED BY <1>3, <1>8, <3>1, TriedInOrder DEF n, done
  <2>5. SendsNext'
    <3>1. \A b \in Apps : sending'[b] = None
      BY <1>1, <1>6, <2>1 DEF DeadIsEmpty
    <3> QED BY <3>1 DEF SendsNext
  <2>6. Seen(db') = Seen(db)
    BY <1>7, <1>8, <2>1 DEF Seen
  <2>7. ToldSoFar' /\ ReadsCover'
    BY <1>5, <1>11, <2>6 DEF Apart, ToldSoFar, ToldFor, ReadsCover, Covers, Readable
  <2> QED BY <2>2, <2>3, <2>4, <2>5, <2>7 DEF Apart
<1> QED BY <1>5, <1>9, <1>10, <1>11 DEF IInv

-----------------------------------------------------------------------------
(* The pool. *)

(* An app that is building is cached under its request. *)
LEMMA CachedIs ==
    ASSUME TypeOK, NEW g \in Gets, NEW new, new = [version |-> version, app |-> None, by |-> g]
    PROVE  new \in Cached /\ new # None /\ new.app = None /\ new.by = g
<1>1. new \in Cached /\ new.app = None /\ new.by = g
  BY DEF TypeOK, Cached
<1> QED BY <1>1, NoneAssumption

(* What a request does is told apart from the app it waits for. *)
LEMMA NotApps == "idle" \notin Apps /\ "building" \notin Apps /\ None \notin Apps
BY WebhooksAssumption, NoneAssumption

(* A request builds where nothing is cached, or stops the app that is. *)
LEMMA GetKeeps ==
    ASSUME IInv, NEW g \in Gets, Get(g) PROVE IInv'
<1>1. TypeOK /\ DeadIsEmpty /\ WaitedIsStopped /\ History
  BY DEF IInv
<1>2. /\ UNCHANGED <<db, mem, told, armed, queueing, asking, reading, sending>>
      /\ UNCHANGED <<version, overlapped, failures, platform, escrow, happened>>
  BY DEF Get, Order, world
<1>3. History' /\ DeadIsEmpty'
  BY <1>1, <1>2 DEF History, DeadIsEmpty
<1>4. ASSUME Apart
      PROVE  OneCopy' /\ QueueOK(db') /\ SendsNext' /\ ToldSoFar' /\ ReadsCover'
  BY <1>2, <1>4 DEF Apart, OneCopy, SendsNext, ToldSoFar, ToldFor, ReadsCover
<1>5. CASE built = None
  <2>1. /\ built' = [version |-> version, app |-> None, by |-> g]
        /\ get' = [get EXCEPT ![g] = "building"] /\ stopped' = stopped
    BY <1>5 DEF Get
  <2>2. built' \in Cached /\ built' # None /\ built'.app = None /\ built'.by = g
    BY <1>1, <2>1, CachedIs
  <2>3. /\ get' \in [Gets -> {"idle", "building"} \cup Apps] /\ get'[g] = "building"
        /\ \A h \in Gets \ {g} : get'[h] = get[h]
    BY <1>1, <2>1 DEF TypeOK
  <2>4. TypeOK'
    BY <1>1, <1>2, <2>1, <2>2, <2>3 DEF TypeOK
  <2>5. WaitedIsStopped'
    BY <1>1, <1>2, <2>1, <2>3, NotApps DEF WaitedIsStopped
  <2>6. ASSUME Apart PROVE OneBuilder' /\ OthersStopped'
    <3>1. OneBuilder'
      BY <1>5, <2>2, <2>3, <2>6 DEF Apart, OneBuilder
    <3>2. OthersStopped'
      BY <1>2, <1>5, <2>1, <2>6 DEF Apart, OthersStopped
    <3> QED BY <3>1, <3>2
  <2> QED BY <1>2, <1>3, <1>4, <2>4, <2>5, <2>6 DEF IInv, Apart
<1>6. CASE built # None
  <2>1. /\ built.app # None /\ built' = built
        /\ stopped' = [stopped EXCEPT ![built.app] = TRUE]
        /\ get' = [get EXCEPT ![g] = built.app]
    BY <1>6 DEF Get
  <2>2. built.app \in Apps
    BY <1>1, <1>6, <2>1 DEF TypeOK, Cached
  <2>3. /\ get' \in [Gets -> {"idle", "building"} \cup Apps] /\ get'[g] = built.app
        /\ \A h \in Gets \ {g} : get'[h] = get[h]
    BY <1>1, <2>1, <2>2 DEF TypeOK
  <2>4. /\ stopped' \in [Apps -> BOOLEAN] /\ stopped'[built.app] = TRUE
        /\ \A b \in Apps \ {built.app} : stopped'[b] = stopped[b]
    BY <1>1, <2>1, <2>2 DEF TypeOK
  <2>5. TypeOK'
    BY <1>1, <1>2, <2>1, <2>3, <2>4 DEF TypeOK
  <2>6. WaitedIsStopped'
    BY <1>1, <1>2, <2>2, <2>3, <2>4 DEF WaitedIsStopped
  <2>7. ASSUME Apart PROVE OneBuilder' /\ OthersStopped'
    <3>1. OneBuilder'
      BY <2>1, <2>2, <2>3, <2>7, NotApps DEF Apart, OneBuilder
    <3>2. OthersStopped'
      BY <1>2, <2>1, <2>4, <2>7 DEF Apart, OthersStopped
    <3> QED BY <3>1, <3>2
  <2> QED BY <1>2, <1>3, <1>4, <2>5, <2>6, <2>7 DEF IInv, Apart
<1> QED BY <1>5, <1>6

(* The app it stopped has finished: nothing runs while the new one is built. *)
LEMMA ReplaceKeeps ==
    ASSUME IInv, NEW g \in Gets, Replace(g) PROVE IInv'
<1>1. TypeOK /\ DeadIsEmpty /\ WaitedIsStopped /\ History
  BY DEF IInv
<1>2. /\ UNCHANGED <<db, mem, told, armed, queueing, asking, reading, sending>>
      /\ UNCHANGED <<stopped, version, failures, platform, escrow, happened>>
  BY DEF Replace, Order, world
<1>3. History' /\ DeadIsEmpty'
  BY <1>1, <1>2 DEF History, DeadIsEmpty
<1>4. /\ get[g] \in Apps /\ sending[get[g]] = None /\ reading[get[g]] = None
      /\ overlapped' = (overlapped \/ (built # None /\ built.app # get[g]))
      /\ built' = [version |-> version, app |-> None, by |-> g]
      /\ get' = [get EXCEPT ![g] = "building"]
  BY DEF Replace, Idle
<1>5. built' \in Cached /\ built' # None /\ built'.app = None /\ built'.by = g
  BY <1>1, <1>4, CachedIs
<1>6. /\ get' \in [Gets -> {"idle", "building"} \cup Apps] /\ get'[g] = "building"
      /\ \A h \in Gets \ {g} : get'[h] = get[h]
  BY <1>1, <1>4 DEF TypeOK
<1>7. overlapped' \in BOOLEAN
  BY <1>4
<1>8. TypeOK'
  BY <1>1, <1>2, <1>5, <1>6, <1>7 DEF TypeOK
<1>9. WaitedIsStopped'
  BY <1>1, <1>2, <1>6, NotApps DEF WaitedIsStopped
<1>10. ASSUME ~overlapped' PROVE Apart'
  <2>1. ~overlapped /\ (built = None \/ built.app = get[g])
    BY <1>4, <1>10
  <2>2. Apart
    BY <2>1 DEF IInv
  <2>3. OneCopy' /\ QueueOK(db') /\ SendsNext' /\ ToldSoFar' /\ ReadsCover'
    BY <1>2, <2>2 DEF Apart, OneCopy, SendsNext, ToldSoFar, ToldFor, ReadsCover
  <2>4. OneBuilder'
    BY <1>4, <1>5, <1>6, <2>1, <2>2, NotApps DEF Apart, OneBuilder
  <2>5. ASSUME NEW b \in Apps, mem[b] # None
        PROVE  stopped[b] /\ sending[b] = None /\ reading[b] = None
    <3>1. CASE built = None \/ built.app # b
      BY <2>2, <2>5, <3>1 DEF Apart, OthersStopped
    <3>2. CASE built # None /\ built.app = b
      BY <1>1, <1>4, <2>1, <2>5, <3>2 DEF WaitedIsStopped
    <3> QED BY <3>1, <3>2
  <2>6. OthersStopped'
    BY <1>2, <2>5 DEF OthersStopped
  <2> QED BY <2>3, <2>4, <2>6 DEF Apart
<1> QED BY <1>3, <1>8, <1>9, <1>10 DEF IInv

(* The new app loads the record, and it is the only one with a copy. *)
LEMMA ReadyKeeps ==
    ASSUME IInv, NEW g \in Gets, Ready(g) PROVE IInv'
<1> DEFINE a == CHOOSE b \in Apps : Free(b)
           Gone(b) == stopped[b] /\ Idle(b)
           done == [built EXCEPT !.app = a, !.by = None]
<1>1. TypeOK /\ DeadIsEmpty /\ WaitedIsStopped /\ History
  BY DEF IInv
<1>2. /\ get[g] = "building"
      /\ UNCHANGED <<db, told, reading, sending, version, overlapped>>
      /\ UNCHANGED <<failures, platform, escrow, happened>>
  BY DEF Ready, world
<1>3. a \in Apps /\ Free(a)
  BY DEF Ready
<1>4. mem' = [b \in Apps |-> IF b = a THEN db ELSE IF Gone(b) THEN None ELSE mem[b]]
  BY DEF Ready
<1>5. stopped' = [b \in Apps |-> b # a /\ ~Gone(b) /\ stopped[b]]
  BY DEF Ready
<1>6. armed' = [b \in Apps |-> IF b = a THEN Resumes(db) ELSE ~Gone(b) /\ armed[b]]
  BY DEF Ready
<1>7. queueing' = [b \in Apps |-> IF b = a \/ Gone(b) THEN {} ELSE queueing[b]]
  BY DEF Ready
<1>8. asking' = [b \in Apps |-> IF b = a \/ Gone(b) THEN NotAsking ELSE asking[b]]
  BY DEF Ready
<1>9. built' = IF built # None /\ built.by = g THEN done ELSE built
  BY DEF Ready
<1>10. get' = [get EXCEPT ![g] = "idle"]
  BY DEF Ready
<1> HIDE DEF a
<1>11. mem[a] = None /\ \A h \in Gets : get[h] # a
  BY <1>3 DEF Free
<1>12. \A b \in Apps : Gone(b) <=> stopped[b] /\ sending[b] = None /\ reading[b] = None
  BY DEF Idle
<1> HIDE DEF Gone
<1>13. db # None
  BY <1>1, NoneAssumption DEF TypeOK
<1>14. TypeOK'
  <2>1. mem' \in [Apps -> Record \cup {None}]
    BY <1>1, <1>4 DEF TypeOK
  <2>2. stopped' \in [Apps -> BOOLEAN]
    BY <1>5
  <2>3. armed' \in [Apps -> BOOLEAN]
    <3>1. Resumes(db) \in BOOLEAN
      BY DEF Resumes
    <3>2. \A b \in Apps : (~Gone(b) /\ armed[b]) \in BOOLEAN
      OBVIOUS
    <3> QED BY <1>6, <3>1, <3>2
  <2>4. queueing' \in [Apps -> SUBSET ({"created"} \cup Parcels)]
    BY <1>1, <1>7 DEF TypeOK
  <2>5. asking' \in [Apps -> [asked : BOOLEAN, todo : SUBSET Parcels, all : BOOLEAN]]
    <3>1. asking \in [Apps -> Asks]
      BY <1>1 DEF TypeOK, Asks
    <3>2. asking' \in [Apps -> Asks]
      BY <1>8, <3>1, NotAskingIs
    <3> QED BY <3>2 DEF Asks
  <2>6. built' \in Cached \cup {None}
    <3>1. CASE built # None /\ built.by = g
      <4>1. built \in Cached
        BY <1>1, <3>1 DEF TypeOK
      <4>2. done \in Cached
        BY <1>3, <4>1 DEF Cached
      <4> QED BY <1>9, <3>1, <4>2
    <3>2. CASE ~(built # None /\ built.by = g)
      BY <1>1, <1>9, <3>2 DEF TypeOK
    <3> QED BY <3>1, <3>2
  <2>7. get' \in [Gets -> {"idle", "building"} \cup Apps]
    BY <1>1, <1>10 DEF TypeOK
  <2> QED BY <1>1, <1>2, <2>1, <2>2, <2>3, <2>4, <2>5, <2>6, <2>7 DEF TypeOK
<1>15. /\ mem'[a] = db
       /\ \A b \in Apps \ {a} : mem'[b] = IF Gone(b) THEN None ELSE mem[b]
  BY <1>3, <1>4
<1>16. \A b \in Apps \ {a} : ~Gone(b) => stopped'[b] = stopped[b]
  BY <1>1, <1>5 DEF TypeOK
<1>17. get'[g] = "idle" /\ \A h \in Gets \ {g} : get'[h] = get[h]
  BY <1>1, <1>10 DEF TypeOK
<1>18. DeadIsEmpty'
  <2>1. SUFFICES ASSUME NEW b \in Apps, mem'[b] = None
                 PROVE  /\ queueing'[b] = {} /\ asking'[b] = NotAsking
                        /\ reading[b] = None /\ sending[b] = None
    BY <1>2 DEF DeadIsEmpty
  <2>2. b # a
    BY <1>13, <1>15, <2>1
  <2>3. CASE Gone(b)
    BY <1>7, <1>8, <1>12, <2>3
  <2>4. CASE ~Gone(b)
    <3>1. mem[b] = None
      BY <1>15, <2>1, <2>2, <2>4
    <3> QED BY <1>1, <1>7, <1>8, <2>2, <2>4, <3>1 DEF DeadIsEmpty
  <2> QED BY <2>3, <2>4
<1>19. WaitedIsStopped'
  <2>1. SUFFICES ASSUME NEW h \in Gets, get'[h] \in Apps, mem'[get'[h]] # None
                 PROVE  stopped'[get'[h]]
    BY DEF WaitedIsStopped
  <2>2. h # g /\ get'[h] = get[h] /\ get[h] # a
    BY <1>11, <1>17, <2>1, NotApps
  <2>3. ~Gone(get[h]) /\ mem[get[h]] # None
    BY <1>15, <2>1, <2>2
  <2> QED BY <1>1, <1>16, <2>1, <2>2, <2>3 DEF WaitedIsStopped
<1>20. History'
  BY <1>1, <1>2 DEF History
<1>21. ASSUME Apart PROVE Apart'
  <2>1. built # None /\ built.app = None /\ built.by = g
    BY <1>2, <1>21 DEF Apart, OneBuilder
  <2>2. built' # None /\ built'.app = a
    <3>1. built \in Cached
      BY <1>1, <2>1 DEF TypeOK
    <3>2. done \in Cached /\ done.app = a
      BY <1>3, <3>1 DEF Cached
    <3> QED BY <1>9, <2>1, <3>2, NoneAssumption
  <2>3. OneBuilder'
    BY <1>17, <1>21, <2>1 DEF Apart, OneBuilder
  <2>4. \A b \in Apps \ {a} : mem'[b] = None
    <3>1. SUFFICES ASSUME NEW b \in Apps \ {a}, mem[b] # None PROVE Gone(b)
      BY <1>15
    <3>2. b \in Apps /\ built.app # b
      BY <2>1, NotApps
    <3>3. stopped[b] /\ sending[b] = None /\ reading[b] = None
      BY <1>21, <3>1, <3>2 DEF Apart, OthersStopped
    <3> QED BY <1>12, <3>2, <3>3
  <2>5. OthersStopped' /\ OneCopy'
    BY <1>2, <1>15, <2>2, <2>4 DEF OthersStopped, OneCopy
  <2>6. QueueOK(db') /\ SendsNext' /\ ToldSoFar' /\ ReadsCover'
    BY <1>2, <1>21 DEF Apart, SendsNext, ToldSoFar, ToldFor, ReadsCover
  <2> QED BY <2>3, <2>5, <2>6 DEF Apart
<1> QED BY <1>2, <1>14, <1>18, <1>19, <1>20, <1>21 DEF IInv

(* A failed build leaves nothing cached or the one build of who awaited it,
   and nothing running.                                                     *)
LEMMA BuildFailsKeeps ==
    ASSUME IInv, NEW g \in Gets, BuildFails(g) PROVE IInv'
<1>1. TypeOK /\ DeadIsEmpty /\ WaitedIsStopped /\ History
  BY DEF IInv
<1>2. /\ get[g] = "building" /\ failures' = failures + 1
      /\ UNCHANGED <<db, mem, told, stopped, armed, queueing, asking, reading, sending>>
      /\ UNCHANGED <<version, platform, escrow, happened>>
  BY DEF BuildFails, Order
<1>3. PICK waiters \in SUBSET {h \in Gets : get[h] = "idle"} :
          /\ overlapped' = (overlapped \/ \E h, k \in waiters : h # k)
          /\ built' = IF waiters # {}
                      THEN [version |-> version, app |-> None, by |-> CHOOSE h \in waiters : TRUE]
                      ELSE IF built # None /\ built.by = g THEN None ELSE built
          /\ get' = [h \in Gets |-> IF h \in waiters THEN "building"
                                    ELSE IF h = g THEN "idle" ELSE get[h]]
  BY DEF BuildFails
<1> DEFINE last == CHOOSE h \in waiters : TRUE
           next == [version |-> version, app |-> None, by |-> last]
<1>4. waiters \subseteq Gets /\ (waiters # {} => last \in waiters)
  OBVIOUS
<1>5. /\ waiters # {} => built' = next
      /\ waiters = {} => built' = IF built # None /\ built.by = g THEN None ELSE built
  BY <1>3
<1> HIDE DEF last
<1>6. /\ get' \in [Gets -> {"idle", "building"} \cup Apps]
      /\ \A h \in Gets : get'[h] \in Apps => get'[h] = get[h]
      /\ \A h \in Gets : get'[h] = "building" => h \in waiters \/ (h # g /\ get[h] = "building")
  BY <1>1, <1>3, NotApps DEF TypeOK
<1>7. waiters # {} => built' \in Cached /\ built'.app = None /\ built'.by = last
  BY <1>1, <1>4, <1>5 DEF TypeOK, Cached
<1>8. TypeOK'
  <2>1. built' \in Cached \cup {None}
    BY <1>1, <1>5, <1>7 DEF TypeOK
  <2>2. overlapped' \in BOOLEAN
    <3>1. (\E h, k \in waiters : h # k) \in BOOLEAN
      OBVIOUS
    <3> QED BY <1>1, <1>3, <3>1 DEF TypeOK
  <2> QED BY <1>1, <1>2, <1>6, <2>1, <2>2 DEF TypeOK
<1>9. DeadIsEmpty' /\ History'
  BY <1>1, <1>2 DEF DeadIsEmpty, History
<1>10. WaitedIsStopped'
  BY <1>1, <1>2, <1>6 DEF WaitedIsStopped
<1>11. ASSUME ~overlapped' PROVE Apart'
  <2>1. ~overlapped /\ \A h, k \in waiters : h = k
    BY <1>3, <1>11
  <2>2. Apart
    BY <2>1 DEF IInv
  <2>3. built # None /\ built.app = None /\ built.by = g
    BY <1>2, <2>2 DEF Apart, OneBuilder
  <2>4. \A h \in Gets : get'[h] = "building" => h \in waiters
    BY <1>6, <2>2, <2>3 DEF Apart, OneBuilder
  <2>5. built' = None \/ built'.app = None
    BY <1>5, <1>7, <2>3
  <2>6. OneBuilder'
    <3>1. SUFFICES ASSUME NEW h \in Gets, get'[h] = "building"
                   PROVE  built' # None /\ built'.app = None /\ built'.by = h
      BY DEF OneBuilder
    <3>2. h \in waiters /\ waiters # {} /\ h = last
      BY <1>4, <2>1, <2>4, <3>1
    <3> QED BY <1>7, <3>2, NoneAssumption
  <2>7. OthersStopped'
    BY <1>2, <2>2, <2>3, NotApps DEF Apart, OthersStopped
  <2>8. OneCopy' /\ QueueOK(db') /\ SendsNext' /\ ToldSoFar' /\ ReadsCover'
    BY <1>2, <2>2 DEF Apart, OneCopy, SendsNext, ToldSoFar, ToldFor, ReadsCover
  <2> QED BY <2>6, <2>7, <2>8 DEF Apart
<1> QED BY <1>8, <1>9, <1>10, <1>11 DEF IInv

(* A death of the process leaves the record, which is all that counts. *)
LEMMA CrashKeeps ==
    ASSUME IInv, Crash PROVE IInv'
<1>1. TypeOK /\ History
  BY DEF IInv
<1>2. /\ failures' = failures + 1
      /\ mem' = [a \in Apps |-> None] /\ stopped' = [a \in Apps |-> FALSE]
      /\ armed' = [a \in Apps |-> FALSE] /\ queueing' = [a \in Apps |-> {}]
      /\ asking' = [a \in Apps |-> NotAsking] /\ reading' = [a \in Apps |-> None]
      /\ sending' = [a \in Apps |-> None] /\ built' = None
      /\ get' = [g \in Gets |-> "idle"]
      /\ UNCHANGED <<db, told, version, overlapped, platform, escrow, happened>>
  BY DEF Crash
<1>3. TypeOK'
  <2>1. asking' \in [Apps -> [asked : BOOLEAN, todo : SUBSET Parcels, all : BOOLEAN]]
    BY <1>2, NotAskingIs DEF Asks
  <2> QED BY <1>1, <1>2, <2>1 DEF TypeOK
<1>4. DeadIsEmpty' /\ WaitedIsStopped' /\ History'
  BY <1>1, <1>2 DEF DeadIsEmpty, WaitedIsStopped, History
<1>5. ASSUME Apart PROVE Apart'
  <2>1. OneBuilder' /\ OthersStopped' /\ OneCopy' /\ SendsNext' /\ ReadsCover'
    BY <1>2 DEF OneBuilder, OthersStopped, OneCopy, SendsNext, ReadsCover
  <2>2. QueueOK(db') /\ ToldSoFar'
    BY <1>2, <1>5 DEF Apart, ToldSoFar, ToldFor
  <2> QED BY <2>1, <2>2 DEF Apart
<1> QED BY <1>2, <1>3, <1>4, <1>5 DEF IInv

-----------------------------------------------------------------------------
(* The world. *)

(* A step of the merchant: nothing the apps or the escrow keep. *)
LEMMA MerchantKeeps ==
    ASSUME IInv, version' \in Nat, platform' \in [left : SUBSET Parcels, canceled : BOOLEAN],
           UNCHANGED <<inside, escrow, happened>>
    PROVE  IInv'
<1>1. TypeOK /\ DeadIsEmpty /\ WaitedIsStopped /\ History
  BY DEF IInv
<1>2. /\ UNCHANGED <<db, mem, told, armed, queueing, asking, reading, sending, stopped>>
      /\ UNCHANGED <<built, get, overlapped, failures, escrow, happened>>
  BY DEF inside, Order
<1>3. TypeOK'
  BY <1>1, <1>2 DEF TypeOK
<1>4. DeadIsEmpty' /\ WaitedIsStopped' /\ History'
  BY <1>1, <1>2 DEF DeadIsEmpty, WaitedIsStopped, History
<1>5. Apart' <=> Apart
  BY <1>2 DEF Apart, OneBuilder, OthersStopped, OneCopy, SendsNext, ToldSoFar, ToldFor, ReadsCover
<1> QED BY <1>2, <1>3, <1>4, <1>5 DEF IInv

(* What may follow a status may follow what came before it. *)
LEMMA CoversOn ==
    ASSUME NEW s, NEW p, NEW q, p.status \notin Settled, Covers(s, p), Covers(p.status, q),
           p.status \in Statuses
    PROVE  Covers(s, q)
BY DEF Covers, Settled, InDispute, Answered, Statuses

(* A move of the escrow leaves every read and every report behind it. *)
LEMMA EscrowMoveKeeps ==
    ASSUME IInv, escrow.status \notin Settled, escrow' \in Lookup, Readable(escrow'),
           Covers(escrow.status, escrow'),
           happened' = happened \o escrowEvents(escrow.status, escrow'),
           UNCHANGED <<inside, version, platform>>
    PROVE  IInv'
<1>1. TypeOK /\ DeadIsEmpty /\ WaitedIsStopped /\ History
  BY DEF IInv
<1>2. /\ UNCHANGED <<db, mem, told, armed, queueing, asking, reading, sending, stopped>>
      /\ UNCHANGED <<built, get, overlapped, failures, version, platform>>
  BY DEF inside, Order
<1>3. escrow \in Lookup /\ escrow.status \in Statuses
  BY <1>1 DEF TypeOK, Lookup
<1>4. TypeOK'
  BY <1>1, <1>2 DEF TypeOK
<1>5. DeadIsEmpty' /\ WaitedIsStopped'
  BY <1>1, <1>2 DEF DeadIsEmpty, WaitedIsStopped
<1>6. History'
  BY <1>1, <1>3, HistoryGoesOn
<1>7. ASSUME Apart PROVE Apart'
  <2>1. OneBuilder' /\ OthersStopped' /\ OneCopy' /\ QueueOK(db') /\ SendsNext'
    BY <1>2, <1>7 DEF Apart, OneBuilder, OthersStopped, OneCopy, SendsNext
  <2>2. told = ToldFor(Seen(db)) /\ Covers(Seen(db), escrow)
    BY <1>7 DEF Apart, ToldSoFar
  <2>3. Seen(db) \notin Settled
    BY <2>2 DEF Covers
  <2>4. Covers(Seen(db), escrow')
    BY <1>3, <2>2, CoversOn
  <2>5. ToldSoFar'
    BY <1>2, <2>2, <2>3, <2>4 DEF ToldSoFar, ToldFor
  <2>6. ASSUME NEW a \in Apps, reading[a] # None
        PROVE  /\ Readable(reading[a]) /\ Covers(Seen(db), reading[a])
               /\ reading[a].status \notin Settled /\ Covers(reading[a].status, escrow')
    <3>1. /\ Readable(reading[a]) /\ Covers(Seen(db), reading[a])
          /\ Covers(reading[a].status, escrow)
          /\ reading[a].status \in Settled => escrow = reading[a]
      BY <1>7, <2>6 DEF Apart, ReadsCover
    <3> QED BY <1>3, <3>1, CoversOn
  <2>7. ReadsCover'
    BY <1>2, <2>3, <2>6 DEF ReadsCover
  <2> QED BY <2>1, <2>5, <2>7 DEF Apart
<1> QED BY <1>2, <1>4, <1>5, <1>6, <1>7 DEF IInv

(* The ends of a payment, by its status and the arbiter's ruling. *)
LEMMA EndsAre ==
    ASSUME NEW purchase \in Lookup
    PROVE  /\ purchase.status = "released" => Ending(purchase) = <<"escrow.released">>
           /\ purchase.status = "expired" => Ending(purchase) = <<"escrow.refunded">>
           /\ purchase.status = "resolved" => Ending(purchase) =
                (<<"dispute.resolved">> \o If(purchase.refund # "none", "escrow.refunded"))
                    \o If(purchase.refund # "all", "escrow.released")
<1> DEFINE c1 == purchase.status = "resolved"
           c2 == (c1 /\ purchase.refund # "none") \/ purchase.status = "expired"
           c3 == (c1 /\ purchase.refund # "all") \/ purchase.status = "released"
<1>1. Ending(purchase) = (If(c1, "dispute.resolved") \o If(c2, "escrow.refunded"))
                            \o If(c3, "escrow.released")
  BY DEF Ending
<1>2. CASE purchase.status = "released"
  <2>1. If(c1, "dispute.resolved") = <<>> /\ If(c2, "escrow.refunded") = <<>>
    BY <1>2 DEF If
  <2>2. If(c3, "escrow.released") = <<"escrow.released">>
    BY <1>2 DEF If
  <2>3. (<<>> \o <<>>) \o <<"escrow.released">> = <<"escrow.released">>
    OBVIOUS
  <2> QED BY <1>1, <1>2, <2>1, <2>2, <2>3
<1>3. CASE purchase.status = "expired"
  <2>1. If(c1, "dispute.resolved") = <<>> /\ If(c3, "escrow.released") = <<>>
    BY <1>3 DEF If
  <2>2. If(c2, "escrow.refunded") = <<"escrow.refunded">>
    BY <1>3 DEF If
  <2>3. (<<>> \o <<"escrow.refunded">>) \o <<>> = <<"escrow.refunded">>
    OBVIOUS
  <2> QED BY <1>1, <1>3, <2>1, <2>2, <2>3
<1>4. CASE purchase.status = "resolved"
  <2>1. If(c1, "dispute.resolved") = <<"dispute.resolved">>
    BY <1>4 DEF If
  <2>2. If(c2, "escrow.refunded") = If(purchase.refund # "none", "escrow.refunded")
    BY <1>4 DEF If
  <2>3. If(c3, "escrow.released") = If(purchase.refund # "all", "escrow.released")
    BY <1>4 DEF If
  <2> HIDE DEF c1, c2, c3
  <2> QED BY <1>1, <1>4, <2>1, <2>2, <2>3
<1>5. CASE purchase.status \notin {"released", "expired", "resolved"}
  BY <1>5
<1> QED BY <1>2, <1>3, <1>4, <1>5

(* What a move of the escrow writes. *)
LEMMA MoveIs ==
    ASSUME TypeOK, History, NEW from, NEW to \in Statuses, NEW refund \in {"none", "part", "all"},
           NEW events, EscrowMoves(from, to, refund, events)
    PROVE  /\ escrow.status \in from /\ escrow' \in Lookup
           /\ escrow'.status = to /\ escrow'.refund = refund
           /\ escrow'.answered = (escrow.answered \/ to = "responded")
           /\ happened' = happened \o events
           /\ Readable(escrow) /\ escrow.answered \in BOOLEAN
           /\ UNCHANGED <<inside, version, platform>>
<1>1. escrow' = [status |-> to, refund |-> refund, answered |-> escrow.answered \/ to = "responded"]
  BY DEF EscrowMoves
<1>2. escrow.answered \in BOOLEAN /\ (escrow.answered \/ to = "responded") \in BOOLEAN
  BY DEF TypeOK, Lookup
<1>3. escrow' \in Lookup
  BY <1>1, <1>2 DEF Lookup
<1>4. /\ escrow'.status = to /\ escrow'.refund = refund
      /\ escrow'.answered = (escrow.answered \/ to = "responded")
  BY <1>1
<1>5. /\ escrow.status \in from /\ happened' = happened \o events
      /\ UNCHANGED <<inside, version, platform>>
  BY DEF EscrowMoves
<1> QED BY <1>2, <1>3, <1>4, <1>5 DEF History

(* Every move of the escrow happens as escrowEvents would tell it. *)
LEMMA EscrowKeeps ==
    ASSUME IInv, EscrowSteps PROVE IInv'
<1>1. TypeOK /\ History /\ escrow.status \in Statuses
  BY DEF IInv, TypeOK, Lookup
<1>2. CASE EscrowMoves({"held"}, "shipped", "none", <<>>)
  <2>1. /\ escrow.status = "held" /\ escrow' \in Lookup /\ escrow'.status = "shipped"
        /\ escrow'.answered = escrow.answered /\ happened' = happened \o <<>>
        /\ Readable(escrow) /\ UNCHANGED <<inside, version, platform>>
    BY <1>1, <1>2, MoveIs DEF Statuses
  <2>2. Readable(escrow') /\ Covers(escrow.status, escrow') /\ escrow.status \notin Settled
    BY <2>1 DEF Readable, Covers, Settled
  <2>3. /\ If("held" \notin InDispute /\ escrow'.status \in InDispute, "dispute.opened") = <<>>
        /\ If(Responded("held", escrow'), "dispute.responded") = <<>>
    BY <2>1 DEF If, InDispute, Responded, Answered
  <2>4. Ending(escrow') = <<>> /\ (<<>> \o <<>>) \o <<>> = <<>>
    BY <2>1, EndingIsSeq DEF Settled
  <2>5. escrowEvents(escrow.status, escrow') = <<>>
    BY <1>1, <2>1, <2>3, <2>4, EventsAre
  <2> QED BY <2>1, <2>2, <2>5, EscrowMoveKeeps
<1>3. CASE EscrowMoves({"shipped"}, "released", "none", <<"escrow.released">>)
  <2>1. /\ escrow.status = "shipped" /\ escrow' \in Lookup /\ escrow'.status = "released"
        /\ escrow'.answered = escrow.answered /\ happened' = happened \o <<"escrow.released">>
        /\ Readable(escrow) /\ UNCHANGED <<inside, version, platform>>
    <3>1. "released" \in Statuses /\ "none" \in {"none", "part", "all"}
      BY DEF Statuses
    <3>2. /\ escrow.status \in {"shipped"} /\ escrow' \in Lookup
          /\ escrow'.status = "released"
          /\ escrow'.answered = (escrow.answered \/ "released" = "responded")
          /\ happened' = happened \o <<"escrow.released">>
          /\ Readable(escrow) /\ escrow.answered \in BOOLEAN
          /\ UNCHANGED <<inside, version, platform>>
      BY <1>1, <1>3, <3>1, MoveIs
    <3> QED BY <3>2
  <2>2. Readable(escrow') /\ Covers(escrow.status, escrow') /\ escrow.status \notin Settled
    BY <2>1 DEF Readable, Covers, Settled
  <2>3. /\ If("shipped" \notin InDispute /\ escrow'.status \in InDispute, "dispute.opened") = <<>>
        /\ If(Responded("shipped", escrow'), "dispute.responded") = <<>>
    BY <2>1 DEF If, InDispute, Responded, Answered
  <2>4. Ending(escrow') = <<"escrow.released">>
    BY <2>1, EndsAre
  <2>5. (<<>> \o <<>>) \o <<"escrow.released">> = <<"escrow.released">>
    OBVIOUS
  <2>6. escrowEvents(escrow.status, escrow') = <<"escrow.released">>
    BY <1>1, <2>1, <2>3, <2>4, <2>5, EventsAre
  <2> QED BY <2>1, <2>2, <2>6, EscrowMoveKeeps
<1>4. CASE EscrowMoves({"held", "shipped"}, "disputed", "none", <<"dispute.opened">>)
  <2>1. /\ escrow.status \in {"held", "shipped"} /\ escrow' \in Lookup
        /\ escrow'.status = "disputed"
        /\ escrow'.answered = escrow.answered /\ happened' = happened \o <<"dispute.opened">>
        /\ Readable(escrow) /\ UNCHANGED <<inside, version, platform>>
    BY <1>1, <1>4, MoveIs DEF Statuses
  <2>2. Readable(escrow') /\ Covers(escrow.status, escrow') /\ escrow.status \notin Settled
    BY <2>1 DEF Readable, Covers, Settled
  <2>3. /\ If(escrow.status \notin InDispute /\ escrow'.status \in InDispute, "dispute.opened")
             = <<"dispute.opened">>
        /\ If(Responded(escrow.status, escrow'), "dispute.responded") = <<>>
    BY <2>1 DEF If, InDispute, Responded, Answered
  <2>4. Ending(escrow') = <<>>
    BY <2>1, EndingIsSeq DEF Settled
  <2>5. (<<"dispute.opened">> \o <<>>) \o <<>> = <<"dispute.opened">>
    OBVIOUS
  <2>6. escrow'.status # escrow.status
    BY <2>1
  <2>7. escrowEvents(escrow.status, escrow') = <<"dispute.opened">>
    BY <1>1, <2>1, <2>3, <2>4, <2>5, <2>6, EventsAre
  <2> QED BY <2>1, <2>2, <2>7, EscrowMoveKeeps
<1>5. CASE EscrowMoves({"disputed"}, "responded", "none", <<"dispute.responded">>)
  <2>1. /\ escrow.status = "disputed" /\ escrow' \in Lookup /\ escrow'.status = "responded"
        /\ escrow'.answered /\ happened' = happened \o <<"dispute.responded">>
        /\ Readable(escrow) /\ UNCHANGED <<inside, version, platform>>
    <3>1. "responded" \in Statuses /\ "none" \in {"none", "part", "all"}
      BY DEF Statuses
    <3>2. /\ escrow.status \in {"disputed"} /\ escrow' \in Lookup
          /\ escrow'.status = "responded"
          /\ escrow'.answered = (escrow.answered \/ "responded" = "responded")
          /\ happened' = happened \o <<"dispute.responded">>
          /\ Readable(escrow) /\ escrow.answered \in BOOLEAN
          /\ UNCHANGED <<inside, version, platform>>
      BY <1>1, <1>5, <3>1, MoveIs
    <3> QED BY <3>2
  <2>2. Readable(escrow') /\ Covers(escrow.status, escrow') /\ escrow.status \notin Settled
    BY <2>1 DEF Readable, Covers, Settled, InDispute
  <2>3. /\ If("disputed" \notin InDispute /\ escrow'.status \in InDispute, "dispute.opened") = <<>>
        /\ If(Responded("disputed", escrow'), "dispute.responded") = <<"dispute.responded">>
    BY <2>1 DEF If, InDispute, Responded, Answered
  <2>4. Ending(escrow') = <<>>
    BY <2>1, EndingIsSeq DEF Settled
  <2>5. (<<>> \o <<"dispute.responded">>) \o <<>> = <<"dispute.responded">>
    OBVIOUS
  <2>6. escrowEvents(escrow.status, escrow') = <<"dispute.responded">>
    BY <1>1, <2>1, <2>3, <2>4, <2>5, EventsAre
  <2> QED BY <2>1, <2>2, <2>6, EscrowMoveKeeps
(* The ends of a dispute: it was opened, and answered or not, before. *)
<1>6. ASSUME NEW to \in {"resolved", "expired"}, NEW refund \in {"none", "part", "all"},
             NEW events, EscrowMoves({"disputed", "responded"}, to, refund, events)
      PROVE  /\ escrow' \in Lookup /\ escrow'.status = to /\ escrow'.refund = refund
             /\ Ending(escrow') = events => IInv'
  <2>1. /\ escrow.status \in {"disputed", "responded"} /\ escrow' \in Lookup
        /\ escrow'.status = to /\ escrow'.refund = refund
        /\ escrow'.answered = escrow.answered /\ happened' = happened \o events
        /\ Readable(escrow) /\ UNCHANGED <<inside, version, platform>>
    BY <1>1, <1>6, MoveIs DEF Statuses
  <2>2. Readable(escrow') /\ Covers(escrow.status, escrow') /\ escrow.status \notin Settled
    BY <2>1 DEF Readable, Covers, Settled, InDispute, Answered
  <2>3. /\ If(escrow.status \notin InDispute /\ escrow'.status \in InDispute, "dispute.opened")
             = <<>>
        /\ If(Responded(escrow.status, escrow'), "dispute.responded") = <<>>
    BY <2>1 DEF If, InDispute, Responded, Answered, Readable
  <2>4. escrow'.status # escrow.status /\ Ending(escrow') \in Seq(Names)
    BY <2>1, EndingIsSeq
  <2>5. <<>> \o <<>> = <<>>
    OBVIOUS
  <2>6. <<>> \o Ending(escrow') = Ending(escrow')
    BY <2>4, ConcatEmptySeq
  <2>7. escrowEvents(escrow.status, escrow') = Ending(escrow')
    BY <1>1, <2>1, <2>3, <2>4, <2>5, <2>6, EventsAre
  <2> QED BY <2>1, <2>2, <2>7, EscrowMoveKeeps
<1>7. ASSUME NEW refund \in Refunds,
             EscrowMoves({"disputed", "responded"}, "resolved", refund,
                         <<"dispute.resolved">> \o If(refund # "none", "escrow.refunded")
                                                \o If(refund # "all", "escrow.released"))
      PROVE  IInv'
  <2>1. refund \in {"none", "part", "all"}
    BY WebhooksAssumption
  <2> QED BY <1>6, <1>7, <2>1, EndsAre
<1>8. CASE EscrowMoves({"disputed", "responded"}, "expired", "all", <<"escrow.refunded">>)
  BY <1>6, <1>8, EndsAre
<1> QED BY <1>2, <1>3, <1>4, <1>5, <1>7, <1>8 DEF EscrowSteps

-----------------------------------------------------------------------------
(* The induction. *)

(* A new order, no app. *)
LEMMA InitIInv == Init => IInv
<1> SUFFICES ASSUME Init PROVE IInv
  OBVIOUS
<1>1. NewOrder \in Record
  BY DEF NewOrder, Record
<1>2. TypeOK
  <2>1. db \in Record /\ mem \in [Apps -> Record \cup {None}]
    BY <1>1 DEF Init
  <2>2. asking \in [Apps -> [asked : BOOLEAN, todo : SUBSET Parcels, all : BOOLEAN]]
    BY NotAskingIs DEF Init, NoTasks, Asks
  <2>3. escrow \in Lookup
    BY DEF Init, Lookup, Statuses
  <2>4. platform \in [left : SUBSET Parcels, canceled : BOOLEAN]
    BY DEF Init
  <2>5. /\ stopped \in [Apps -> BOOLEAN] /\ armed \in [Apps -> BOOLEAN]
        /\ get \in [Gets -> {"idle", "building"} \cup Apps]
        /\ queueing \in [Apps -> SUBSET ({"created"} \cup Parcels)]
        /\ reading \in [Apps -> Lookup \cup {None}]
        /\ sending \in [Apps -> Deliveries \cup {None}]
    BY DEF Init, NoTasks
  <2>6. /\ built \in Cached \cup {None}
        /\ version \in Nat /\ failures \in Nat /\ overlapped \in BOOLEAN
    BY DEF Init
  <2> QED BY <2>1, <2>2, <2>3, <2>4, <2>5, <2>6 DEF TypeOK
<1>3. DeadIsEmpty
  BY DEF Init, NoTasks, DeadIsEmpty
<1>4. WaitedIsStopped
  BY NotApps DEF Init, WaitedIsStopped
<1>5. History
  <2>1. escrow.status = "held" /\ ~escrow.answered /\ happened = <<>>
    BY DEF Init
  <2>2. Readable(escrow)
    BY <2>1 DEF Readable
  <2>3. escrowEvents("held", escrow) = <<>>
    BY <1>2, <2>1, EventsAre DEF TypeOK, Statuses
  <2> QED BY <2>1, <2>2, <2>3 DEF History
<1>6. OneBuilder /\ OthersStopped /\ OneCopy /\ SendsNext /\ ReadsCover
  BY DEF Init, NoTasks, OneBuilder, OthersStopped, OneCopy, SendsNext, ReadsCover
<1>7. QueueOK(db)
  BY DEF Init, NewOrder, QueueOK
<1>8. ToldSoFar
  <2>1. Seen(db) = "held" /\ told = <<>>
    BY DEF Init, NewOrder, Seen
  <2> QED BY <2>1 DEF ToldSoFar, ToldFor, Before, Covers, Settled
<1> QED BY <1>2, <1>3, <1>4, <1>5, <1>6, <1>7, <1>8 DEF IInv, Apart

(* A step of no one. *)
LEMMA StillIInv == IInv /\ UNCHANGED vars => IInv'
<1> SUFFICES ASSUME IInv, UNCHANGED vars PROVE IInv'
  OBVIOUS
<1>1. version' \in Nat /\ platform' \in [left : SUBSET Parcels, canceled : BOOLEAN]
  BY DEF IInv, TypeOK, vars
<1>2. UNCHANGED <<inside, escrow, happened>>
  BY DEF vars, inside, Order
<1> QED BY <1>1, <1>2, MerchantKeeps

(* Every step keeps the invariant. *)
LEMMA StepIInv == IInv /\ Next => IInv'
<1> SUFFICES ASSUME IInv, Next PROVE IInv'
  OBVIOUS
<1>1. TypeOK
  BY DEF IInv
<1>2. ASSUME NEW a \in Apps, Duties(a) PROVE IInv'
  BY <1>2, ReadKeeps, DropKeeps, ReportKeeps, SendKeeps, AttemptKeeps DEF Duties
<1>3. ASSUME NEW a \in Apps, AppSteps(a) PROVE IInv'
  BY <1>2, <1>3, AttachKeeps, QueueKeeps, AskKeeps, AnswerKeeps, ShipmentKeeps DEF AppSteps
<1>4. ASSUME NEW g \in Gets, PoolSteps(g) PROVE IInv'
  BY <1>4, GetKeeps, ReplaceKeeps, ReadyKeeps, BuildFailsKeeps DEF PoolSteps
<1>5. CASE ChangeStore
  <2>1. version' \in Nat
    BY <1>1, <1>5 DEF ChangeStore, TypeOK
  <2>2. platform' = platform /\ UNCHANGED <<inside, escrow, happened>>
    BY <1>5 DEF ChangeStore
  <2> QED BY <1>1, <2>1, <2>2, MerchantKeeps DEF TypeOK
<1>6. CASE CancelOrder
  <2>1. platform' \in [left : SUBSET Parcels, canceled : BOOLEAN]
    BY <1>1, <1>6 DEF CancelOrder, TypeOK
  <2>2. version' = version /\ UNCHANGED <<inside, escrow, happened>>
    BY <1>6 DEF CancelOrder
  <2> QED BY <1>1, <2>1, <2>2, MerchantKeeps DEF TypeOK
<1>7. ASSUME NEW p \in Parcels, ParcelLeaves(p) PROVE IInv'
  <2>1. platform' \in [left : SUBSET Parcels, canceled : BOOLEAN]
    BY <1>1, <1>7 DEF ParcelLeaves, TypeOK
  <2>2. version' = version /\ UNCHANGED <<inside, escrow, happened>>
    BY <1>7 DEF ParcelLeaves
  <2> QED BY <1>1, <2>1, <2>2, MerchantKeeps DEF TypeOK
<1> QED BY <1>3, <1>4, <1>5, <1>6, <1>7, CrashKeeps, EscrowKeeps DEF Next

(* At most one app has a copy of the order, it is the record, and what was told
   is what the status it has reported stands for: the invariant of the steps of
   every app, request, crash and move of the escrow.                        *)
THEOREM InductiveInvariant == Spec => []IInv
BY InitIInv, StepIInv, StillIInv, PTL DEF Spec

(* Deliveries go out in order: a later one waits behind an earlier one and its
   retries, whatever crashes, rebuilds and trims come between
   (order-events.ts:410-436).                                               *)
THEOREM DeliveriesInOrder == Spec => []DeliveredInOrder
<1>1. IInv => DeliveredInOrder
  BY DEF IInv, Apart, QueueOK, DeliveredInOrder
<1> QED BY <1>1, InductiveInvariant, PTL

(* The escrow events queued for the platform are the ones that happened, in
   their order and each once (order-events.ts:330-336, escrow-events.ts:4-8). *)
THEOREM EscrowIsToldOnce == Spec => []EscrowToldOnce
<1>1. IInv => EscrowToldOnce
  <2> SUFFICES ASSUME IInv, ~overlapped PROVE IsPrefix(told, happened)
    BY DEF EscrowToldOnce
  <2>1. /\ TypeOK /\ History /\ Apart
    BY DEF IInv
  <2>2. told = ToldFor(Seen(db)) /\ Covers(Seen(db), escrow)
    BY <2>1 DEF Apart, ToldSoFar
  <2>3. /\ escrow \in Lookup /\ Readable(escrow) /\ happened = escrowEvents("held", escrow)
        /\ Seen(db) \in Statuses /\ "held" \in Statuses
    BY <2>1 DEF TypeOK, History, Record, Seen, Statuses
  <2>4. happened \in Seq(Names)
    BY <2>3, EventsAre
  <2>5. CASE Seen(db) \in Settled
    BY <2>2, <2>4, <2>5, PrefixOfConcat DEF ToldFor
  <2>6. CASE Seen(db) \notin Settled
    <3>1. told = Before(Seen(db)) /\ told \in Seq(Names)
      BY <2>2, <2>3, <2>6, BeforeIsSeq DEF ToldFor
    <3>2. escrowEvents(Seen(db), escrow) \in Seq(Names)
      BY <2>3, EventsAre
    <3>3. told \o escrowEvents(Seen(db), escrow) = happened
      BY <2>2, <2>3, <2>6, <3>1, Telescopes
    <3> QED BY <3>1, <3>2, <3>3, PrefixOfConcat
  <2> QED BY <2>5, <2>6
<1> QED BY <1>1, InductiveInvariant, PTL

(* Once the store has its new app, no delivery and no escrow read of a replaced
   one is left to write over it (platform/storefronts.ts:77-79).            *)
THEOREM ReplacedAppsAreIdle == Spec => []ReplacedIsIdle
<1>1. IInv => ReplacedIsIdle
  BY DEF IInv, DeadIsEmpty, Apart, OthersStopped, ReplacedIsIdle
<1> QED BY <1>1, InductiveInvariant, PTL
=============================================================================
