------------------------- MODULE ConsentFlowProofs --------------------------
(***************************************************************************)
(* What a consent session records, for any number of tabs, wallets, starts  *)
(* and failures: all that the argument needs is that the chain and the      *)
(* directory only grow, and that what goes astray is marked.               *)
(***************************************************************************)
EXTENDS ConsentFlow, TLAPS

Places == Waiting \cup {"issuing", "registering", "saving", "preparing", "submitting", "sending",
                        "crediting", "recording", "completing", "deleting", "mirroring"}
(* Where a tab has documents that name a wallet. *)
WithDoc == {"issuing", "registering", "saving", "shown", "preparing", "prepared", "submitting",
            "sending", "crediting", "recording", "completing", "revoking", "mirroring"}
AfterIssue == {"registering", "saving", "shown", "preparing", "prepared"}
Starting == {"verified", "issuing"} \cup AfterIssue
WithRow == {"submitting", "sending", "crediting", "recording", "completing", "mirroring"}
WithWrite == {"submitting", "sending"}
AfterSubmit == {"crediting", "recording", "completing"}

Records == [issuer : Wallets \cup {Platform}, revoked : BOOLEAN]
WriteIds == [kind : {"anchor", "revoke"}, tab : Tabs, doc : Docs]
Rows == [doc : Docs, request : WriteIds \cup {None}]
Tab == [page : {"consent", "revoke"}, pc : Places, wallet : Wallets \cup {None},
        doc : Docs \cup {None}, row : Docs \cup {None}, write : WriteIds \cup {None}]

TypeOK ==
    /\ issuer \in [Wallets \cup {Platform} -> {"none", "active", "inactive"}]
    /\ cred \in [Hashes -> Records \cup {None}]
    /\ wallet \in [Docs -> Wallets \cup {None}]
    /\ session \in Docs \cup {None}
    /\ address \in Wallets \cup {None}
    /\ pending \in Rows \cup {None}
    /\ writes \in SUBSET WriteIds
    /\ credentials \in SUBSET Docs
    /\ mandate \in [Docs -> {"none", "active", "revoked"}]
    /\ tab \in [Tabs -> Tab]
    /\ astray \in SUBSET Docs
    /\ faults \in Nat

Named(d) == wallet[d] # None
Issued(d) == cred[<<"credential", d>>] # None
Anchored(d) == /\ cred[<<"mandate", d>>] # None
               /\ cred[<<"mandate", d>>].issuer = wallet[d]
Revoked(d) == cred[<<"mandate", d>>] # None /\ cred[<<"mandate", d>>].revoked
Recorded(d) == mandate[d] # "none"

(* The row in the store, and the write prepared for it. *)
RowAgrees ==
    pending # None =>
        /\ Named(pending.doc) /\ Issued(pending.doc)
        /\ \A w \in WriteIds : pending.request = w => pending.doc \in astray \cup {w.doc}

WritesAgree == \A w \in writes : Named(w.doc)

(* What a tab has done, by where it is; what its request is about is what its
   write is about, or is astray.                                            *)
TabAgrees(t) ==
    /\ tab[t].pc \in Starting => tab[t].page = "consent"
    /\ tab[t].pc = "revoking" => tab[t].page = "revoke" /\ Recorded(tab[t].doc)
    /\ tab[t].pc \in WithDoc => tab[t].doc \in Docs /\ Named(tab[t].doc)
    /\ tab[t].pc \in AfterIssue => Issued(tab[t].doc)
    /\ tab[t].pc \in WithRow => tab[t].row \in Docs /\ Named(tab[t].row)
    /\ tab[t].pc \in WithWrite =>
          /\ tab[t].write \in WriteIds /\ Named(tab[t].write.doc)
          /\ tab[t].row \in astray \cup {tab[t].write.doc}
          /\ IF tab[t].page = "consent"
             THEN Issued(tab[t].row) /\ (tab[t].row \in astray \/ tab[t].write.kind = "anchor")
             ELSE Recorded(tab[t].row) /\ (tab[t].row \in astray \/ tab[t].write.kind = "revoke")
    /\ tab[t].pc \in AfterSubmit =>
          Issued(tab[t].row) /\ (tab[t].row \in astray \/ Anchored(tab[t].row))
    /\ tab[t].pc \in {"recording", "completing"} => tab[t].row \in credentials
    /\ tab[t].pc = "completing" => Recorded(tab[t].row)
    /\ tab[t].pc = "mirroring" =>
          Recorded(tab[t].row) /\ (tab[t].row \in astray \/ Revoked(tab[t].row))

DirectoryAgrees ==
    \A d \in Docs :
        /\ Recorded(d) => Named(d)
        /\ Recorded(d) /\ d \notin astray => Anchored(d) /\ Issued(d) /\ d \in credentials
        /\ mandate[d] = "revoked" /\ d \notin astray => Revoked(d)

SessionAgrees == session # None => Recorded(session)

IInv ==
    /\ TypeOK
    /\ RowAgrees
    /\ WritesAgree
    /\ \A t \in Tabs : TabAgrees(t)
    /\ DirectoryAgrees
    /\ SessionAgrees

-----------------------------------------------------------------------------
(* A hash of the registry is of one document, and of one kind. *)
LEMMA HashOf ==
    ASSUME NEW d \in Docs
    PROVE  <<"credential", d>> \in Hashes /\ <<"mandate", d>> \in Hashes
BY DEF Hashes

(* Anchoring adds, revoking marks: an anchored hash keeps its issuer, and a
   revoked one stays revoked.                                               *)
ChainGrows ==
    \A h \in Hashes : cred[h] # None =>
        /\ cred'[h] # None
        /\ cred'[h].issuer = cred[h].issuer
        /\ cred[h].revoked => cred'[h].revoked

(* What an anchor or a revocation leaves in the registry. *)
LEMMA Writes ==
    ASSUME cred \in [Hashes -> Records \cup {None}], NEW a \in Wallets \cup {Platform},
           NEW h \in Hashes, Registry!Anchor(a, h) \/ Registry!Revoke(a, h)
    PROVE  /\ cred' \in [Hashes -> Records \cup {None}] /\ issuer' = issuer
           /\ ChainGrows
           /\ cred'[h] # None /\ cred'[h].issuer = a
           /\ Registry!Revoke(a, h) => cred'[h].revoked
<1>1. CASE Registry!Anchor(a, h)
  <2>1. [issuer |-> a, revoked |-> FALSE] \in Records
    BY DEF Records
  <2>2. /\ cred[h] = None /\ issuer' = issuer
        /\ cred' = [cred EXCEPT ![h] = [issuer |-> a, revoked |-> FALSE]]
    BY <1>1 DEF Registry!Anchor, Registry!CanAnchor
  <2> QED BY <1>1, <2>1, <2>2, NoneAssumption DEF ChainGrows, Records, Registry!Revoke,
     Registry!CanRevoke
<1>2. CASE Registry!Revoke(a, h)
  <2>1. cred[h] \in Records /\ cred[h].issuer = a
    BY <1>2 DEF Registry!Revoke, Registry!CanRevoke
  <2> DEFINE c == [cred[h] EXCEPT !.revoked = TRUE]
  <2>2. c \in Records /\ c.issuer = a /\ c.revoked
    BY <2>1 DEF Records
  <2>3. cred' = [cred EXCEPT ![h] = c] /\ issuer' = issuer
    BY <1>2 DEF Registry!Revoke
  <2> HIDE DEF c
  <2>4. c # None
    BY <2>2, NoneAssumption DEF Records
  <2> QED BY <2>1, <2>2, <2>3, <2>4 DEF ChainGrows
<1> QED BY <1>1, <1>2

Calls(kind, d) ==
    IF kind = "anchor" THEN Registry!Anchor(wallet[d], <<"mandate", d>>)
                       ELSE Registry!Revoke(wallet[d], <<"mandate", d>>)
(* The call of a prepared write, or of any other transaction of a wallet. *)
LEMMA CallWrites ==
    ASSUME TypeOK, NEW kind \in {"anchor", "revoke"}, NEW d \in Docs, Named(d), Calls(kind, d)
    PROVE  /\ cred' \in [Hashes -> Records \cup {None}] /\ issuer' = issuer
           /\ ChainGrows
           /\ cred'[<<"mandate", d>>] # None
           /\ cred'[<<"mandate", d>>].issuer = wallet[d]
           /\ kind = "revoke" => cred'[<<"mandate", d>>].revoked
<1>1. wallet[d] \in Wallets \cup {Platform} /\ <<"mandate", d>> \in Hashes
  BY HashOf DEF TypeOK, Named
<1>2. cred \in [Hashes -> Records \cup {None}]
  BY DEF TypeOK
<1>3. CASE kind = "anchor"
  <2>1. Registry!Anchor(wallet[d], <<"mandate", d>>)
    BY <1>3 DEF Calls
  <2> QED BY <1>1, <1>2, <1>3, <2>1, Writes
<1>4. CASE kind = "revoke"
  <2>1. Registry!Revoke(wallet[d], <<"mandate", d>>)
    BY <1>4 DEF Calls
  <2> QED BY <1>1, <1>2, <2>1, Writes
<1> QED BY <1>3, <1>4

-----------------------------------------------------------------------------
(* How a tab moves. *)
Others(t) == \A x \in Tabs \ {t} : tab'[x] = tab[x]

(* What each way to move a tab does to it: on to another place, ... *)
LEMMA GoMoves ==
    ASSUME TypeOK, NEW t \in Tabs, NEW pc \in Places, Go(t, pc)
    PROVE  /\ tab' \in [Tabs -> Tab] /\ Others(t)
           /\ tab'[t].pc = pc /\ tab'[t].doc = tab[t].doc /\ tab'[t].row = tab[t].row
           /\ tab'[t].page = tab[t].page /\ tab'[t].write = tab[t].write
<1> DEFINE q == [tab[t] EXCEPT !.pc = pc]
<1>1. tab \in [Tabs -> Tab] /\ tab[t] \in Tab
  BY DEF TypeOK
<1>2. /\ q \in Tab /\ q.pc = pc /\ q.doc = tab[t].doc /\ q.row = tab[t].row
      /\ q.page = tab[t].page /\ q.write = tab[t].write
  BY <1>1 DEF Tab
<1>3. tab' = [tab EXCEPT ![t] = q]
  BY <1>1 DEF Go
<1> HIDE DEF q
<1> QED BY <1>1, <1>2, <1>3 DEF Others

(* ... closed, ... *)
LEMMA CloseMoves ==
    ASSUME TypeOK, NEW t \in Tabs, Close(t)
    PROVE  tab' \in [Tabs -> Tab] /\ Others(t) /\ tab'[t].pc = "idle"
<1>1. NewTab \in Tab /\ NewTab.pc = "idle"
  BY DEF NewTab, Tab, Places, Waiting
<1> QED BY <1>1 DEF Close, Others, TypeOK

(* ... started with a fresh document, ... *)
LEMMA StartMoves ==
    ASSUME TypeOK, NEW t \in Tabs, NEW d \in Docs,
           tab' = [tab EXCEPT ![t].pc = "issuing", ![t].doc = d]
    PROVE  /\ tab' \in [Tabs -> Tab] /\ Others(t)
           /\ tab'[t].pc = "issuing" /\ tab'[t].doc = d /\ tab'[t].page = tab[t].page
<1> DEFINE q == [tab[t] EXCEPT !.pc = "issuing"]
<1>1. tab \in [Tabs -> Tab] /\ tab[t] \in Tab
  BY DEF TypeOK
<1>2. q \in Tab /\ q.pc = "issuing" /\ q.page = tab[t].page
  BY <1>1 DEF Tab, Places
<1> DEFINE p == [q EXCEPT !.doc = d]
<1>3. tab' = [tab EXCEPT ![t] = p]
  BY <1>1
<1> HIDE DEF q
<1>4. p \in Tab /\ p.pc = "issuing" /\ p.doc = d /\ p.page = tab[t].page
  BY <1>2 DEF Tab
<1> HIDE DEF p
<1> QED BY <1>1, <1>3, <1>4 DEF Others

Requests(t, d, w) ==
    tab' = [tab EXCEPT ![t] = [tab[t] EXCEPT !.pc = "submitting", !.row = d, !.write = w]]

(* ... with a request that names a row and a write, ... *)
LEMMA RequestMoves ==
    ASSUME TypeOK, NEW t \in Tabs, NEW d \in Docs, NEW w \in WriteIds, Requests(t, d, w)
    PROVE  /\ tab' \in [Tabs -> Tab] /\ Others(t)
           /\ tab'[t].pc = "submitting" /\ tab'[t].doc = tab[t].doc
           /\ tab'[t].page = tab[t].page /\ tab'[t].row = d /\ tab'[t].write = w
<1> DEFINE q == [tab[t] EXCEPT !.pc = "submitting", !.row = d, !.write = w]
<1>1. tab \in [Tabs -> Tab] /\ tab[t] \in Tab
  BY DEF TypeOK
<1>2. /\ q \in Tab /\ q.pc = "submitting" /\ q.doc = tab[t].doc
      /\ q.page = tab[t].page /\ q.row = d /\ q.write = w
  BY <1>1 DEF Tab, Places
<1>3. tab' = [tab EXCEPT ![t] = q]
  BY DEF Requests
<1> HIDE DEF q
<1> QED BY <1>1, <1>2, <1>3 DEF Others

(* ... verified anew, ... *)
LEMMA VerifyMoves ==
    ASSUME TypeOK, NEW t \in Tabs, NEW w \in Wallets, Verify(t, w)
    PROVE  /\ tab' \in [Tabs -> Tab] /\ Others(t)
           /\ tab'[t].pc = "verified" /\ tab'[t].page = "consent"
<1> DEFINE q == [NewTab EXCEPT !.pc = "verified", !.wallet = w]
<1>1. q \in Tab /\ q.pc = "verified" /\ q.page = "consent"
  BY DEF NewTab, Tab, Places, Waiting
<1>2. tab' = [tab EXCEPT ![t] = q]
  BY DEF Verify
<1> HIDE DEF q
<1> QED BY <1>1, <1>2 DEF Others, TypeOK

(* ... or set to revoke. *)
LEMMA RevokePrepareMoves ==
    ASSUME TypeOK, NEW t \in Tabs, NEW d \in Docs, RevokePrepare(t, d)
    PROVE  /\ tab' \in [Tabs -> Tab] /\ Others(t)
           /\ tab'[t].pc = "revoking" /\ tab'[t].doc = d /\ tab'[t].page = "revoke"
<1> DEFINE q == [NewTab EXCEPT !.page = "revoke", !.pc = "revoking", !.doc = d,
                               !.wallet = wallet[d]]
<1>1. wallet[d] \in Wallets \cup {None}
  BY DEF TypeOK
<1>2. q \in Tab /\ q.pc = "revoking" /\ q.doc = d /\ q.page = "revoke"
  BY <1>1 DEF NewTab, Tab, Places, Waiting
<1>3. tab' = [tab EXCEPT ![t] = q]
  BY DEF RevokePrepare
<1> HIDE DEF q
<1> QED BY <1>2, <1>3 DEF Others, TypeOK

-----------------------------------------------------------------------------
(* What is named, anchored or recorded stays so. *)
Grows ==
    /\ ChainGrows
    /\ \A d \in Docs : Named(d) => wallet'[d] = wallet[d]
    /\ \A d \in Docs : Recorded(d) => Recorded(d)'
    /\ credentials \subseteq credentials'
    /\ astray \subseteq astray'

(* So what was true of a document stays true of it. *)
LEMMA DocsKeep ==
    ASSUME Grows, NEW d \in Docs
    PROVE  /\ Named(d) => Named(d)'
           /\ Issued(d) => Issued(d)'
           /\ Named(d) /\ Anchored(d) => Anchored(d)'
           /\ Revoked(d) => Revoked(d)'
           /\ Recorded(d) => Recorded(d)'
BY HashOf DEF Grows, ChainGrows, Named, Issued, Anchored, Revoked, Recorded

(* Growth of the chain and the directory disturbs no other tab. *)
LEMMA OthersAgree ==
    ASSUME TypeOK, Grows, NEW x \in Tabs, TabAgrees(x), tab'[x] = tab[x]
    PROVE  TabAgrees(x)'
<1>1. AfterIssue \cup {"revoking"} \subseteq WithDoc
  BY DEF AfterIssue, WithDoc
<1>2. WithWrite \cup AfterSubmit \cup {"recording", "completing", "mirroring"} \subseteq WithRow
  BY DEF WithWrite, AfterSubmit, WithRow
<1>3. tab[x].write \in WriteIds => tab[x].write.doc \in Docs
  BY DEF WriteIds
<1> QED BY <1>1, <1>2, <1>3, DocsKeep DEF TabAgrees, Grows

(* Nor the directory, ... *)
LEMMA DirectoryStays ==
    ASSUME TypeOK, DirectoryAgrees, Grows, UNCHANGED mandate
    PROVE  DirectoryAgrees'
BY DocsKeep DEF DirectoryAgrees, Grows, Recorded

(* ... the pending row ... *)
LEMMA RowStays ==
    ASSUME TypeOK, RowAgrees, Grows, UNCHANGED pending
    PROVE  RowAgrees'
<1>1. pending # None => pending.doc \in Docs
  BY DEF TypeOK, Rows
<1> QED BY <1>1, DocsKeep DEF RowAgrees, Grows

(* ... the writes prepared ... *)
LEMMA WritesStay ==
    ASSUME TypeOK, WritesAgree, Grows, \A w \in writes' : w \in writes \/ Named(w.doc),
           writes' \in SUBSET WriteIds
    PROVE  WritesAgree'
<1>1. \A w \in WriteIds : w.doc \in Docs
  BY DEF WriteIds
<1> QED BY <1>1, DocsKeep DEF WritesAgree

(* ... or the sessions completed. *)
LEMMA SessionStays ==
    ASSUME TypeOK, SessionAgrees, Grows, UNCHANGED session
    PROVE  SessionAgrees'
BY DocsKeep DEF SessionAgrees, TypeOK

(* Most steps leave the row, the session and the recorded mandates alone. *)
LEMMA TabMoves ==
    ASSUME IInv, NEW t \in Tabs, TypeOK', Grows, Others(t), TabAgrees(t)',
           UNCHANGED <<pending, session, mandate>>,
           \A w \in writes' : w \in writes \/ Named(w.doc)
    PROVE  IInv'
<1>1. /\ TypeOK /\ RowAgrees /\ WritesAgree /\ DirectoryAgrees /\ SessionAgrees
      /\ \A x \in Tabs : TabAgrees(x)
  BY DEF IInv
<1>2. \A x \in Tabs : TabAgrees(x)'
  BY <1>1, OthersAgree DEF Others
<1>3. WritesAgree'
  BY <1>1, WritesStay DEF TypeOK
<1> QED BY <1>1, <1>2, <1>3, RowStays, DirectoryStays, SessionStays DEF IInv

(* The parts of the invariant that a step by no tab's request keeps. *)
LEMMA RestStays ==
    ASSUME IInv, TypeOK', Grows, \A w \in writes' : w \in writes \/ Named(w.doc),
           RowAgrees', DirectoryAgrees', SessionAgrees', \A x \in Tabs : TabAgrees(x)'
    PROVE  IInv'
BY WritesStay DEF IInv, TypeOK

(* Nothing is written but tabs and rows about to be read. *)
LEMMA NothingWritten ==
    ASSUME UNCHANGED <<cred, wallet, mandate, credentials>>, astray \subseteq astray'
    PROVE  Grows
BY DEF Grows, ChainGrows, Recorded

-----------------------------------------------------------------------------
(* verify: a signature over the challenge, no state beyond the tab. *)
LEMMA VerifyStep ==
    ASSUME IInv, NEW t \in Tabs, NEW w \in Wallets, Verify(t, w)
    PROVE  IInv'
<1>1. TypeOK
  BY DEF IInv
<1>2. /\ tab' \in [Tabs -> Tab] /\ Others(t)
      /\ tab'[t].pc = "verified" /\ tab'[t].page = "consent"
  BY <1>1, VerifyMoves
<1>3. /\ UNCHANGED <<issuer, cred, pending, writes, astray, session, credentials, mandate,
                     wallet, faults>>
      /\ address' = w
  BY DEF Verify, registry, directory
<1>4. TypeOK'
  BY <1>1, <1>2, <1>3 DEF TypeOK
<1>5. Grows
  BY <1>3, NothingWritten
<1>6. TabAgrees(t)'
  BY <1>2 DEF TabAgrees, WithDoc, AfterIssue, Starting, WithRow, WithWrite, AfterSubmit
<1> QED BY <1>2, <1>3, <1>4, <1>5, <1>6, TabMoves

(* A start names a document no one had. *)
LEMMA StartStep ==
    ASSUME IInv, NEW t \in Tabs, StartConsentSession(t)
    PROVE  IInv'
<1>1. TypeOK /\ tab[t].page = "consent"
  BY DEF IInv, TabAgrees, StartConsentSession, At, Starting
<1>2. PICK d \in Docs : /\ wallet[d] = None
                        /\ wallet' = [wallet EXCEPT ![d] = address]
                        /\ tab' = [tab EXCEPT ![t].pc = "issuing", ![t].doc = d]
  BY DEF StartConsentSession
<1>3. /\ tab' \in [Tabs -> Tab] /\ Others(t)
      /\ tab'[t].pc = "issuing" /\ tab'[t].doc = d /\ tab'[t].page = "consent"
  BY <1>1, <1>2, StartMoves
<1>4. /\ UNCHANGED <<issuer, cred, address, pending, writes, astray, session, credentials,
                     mandate, faults>>
      /\ address \in Wallets
  BY <1>1 DEF StartConsentSession, registry, rows, directory, TypeOK
<1>5. TypeOK'
  BY <1>1, <1>2, <1>3, <1>4 DEF TypeOK
<1>6. Grows
  BY <1>1, <1>2, <1>4 DEF Grows, ChainGrows, Recorded, Named, TypeOK
<1>7. wallet'[d] # None
  BY <1>1, <1>2, <1>4, NoneAssumption DEF TypeOK
<1>8. TabAgrees(t)'
  BY <1>3, <1>7 DEF TabAgrees, Named, WithDoc, AfterIssue, Starting, WithRow, WithWrite, AfterSubmit
<1> QED BY <1>3, <1>4, <1>5, <1>6, <1>8, TabMoves

(* The platform anchors the credential of the document. *)
LEMMA IssueStep ==
    ASSUME IInv, NEW t \in Tabs, Issue(t)
    PROVE  IInv'
<1> DEFINE d == tab[t].doc
<1>1. /\ TypeOK /\ d \in Docs /\ Named(d)
      /\ tab[t].page = "consent"
  BY DEF IInv, TabAgrees, Issue, At, Starting, AfterIssue, WithDoc
<1>2. Go(t, "registering") /\ Registry!Anchor(Platform, <<"credential", d>>)
      /\ UNCHANGED <<address, pending, writes, astray, session, credentials, mandate, wallet,
                     faults>>
  BY DEF Issue, rows, directory
<1>3. /\ cred' \in [Hashes -> Records \cup {None}] /\ issuer' = issuer /\ ChainGrows
      /\ cred'[<<"credential", d>>] # None
  BY <1>1, <1>2, Writes, HashOf DEF TypeOK
<1>4. /\ tab' \in [Tabs -> Tab] /\ Others(t) /\ tab'[t].pc = "registering" /\ tab'[t].doc = d
      /\ tab'[t].page = "consent"
  BY <1>1, <1>2, GoMoves DEF Places
<1>5. TypeOK'
  BY <1>1, <1>2, <1>3, <1>4 DEF TypeOK
<1>6. Grows
  BY <1>2, <1>3 DEF Grows, Recorded
<1>7. TabAgrees(t)'
  BY <1>1, <1>2, <1>3, <1>4 DEF TabAgrees, Named, Issued, WithDoc, AfterIssue, Starting, WithRow,
     WithWrite, AfterSubmit
<1> QED BY <1>2, <1>4, <1>5, <1>6, <1>7, TabMoves

(* The wallet becomes an issuer; the registry's records stay. *)
LEMMA EnsureStep ==
    ASSUME IInv, NEW t \in Tabs, ensureWalletIsRegisteredIssuer(t)
    PROVE  IInv'
<1> DEFINE d == tab[t].doc
<1>1. /\ TypeOK /\ d \in Docs /\ Named(d) /\ Issued(d)
      /\ tab[t].page = "consent"
  BY DEF IInv, TabAgrees, ensureWalletIsRegisteredIssuer, At, Starting, WithDoc, AfterIssue
<1>2. /\ Go(t, "saving")
      /\ UNCHANGED <<cred, address, pending, writes, astray, session, credentials, mandate,
                     wallet, faults>>
      /\ \/ issuer' = issuer
         \/ issuer' = [issuer EXCEPT ![wallet[d]] = "active"]
  BY DEF ensureWalletIsRegisteredIssuer, rows, directory, registry, Registry!RegisterIssuer
<1>3. issuer' \in [Wallets \cup {Platform} -> {"none", "active", "inactive"}]
  BY <1>1, <1>2 DEF TypeOK, Named
<1>4. /\ tab' \in [Tabs -> Tab] /\ Others(t) /\ tab'[t].pc = "saving" /\ tab'[t].doc = d
      /\ tab'[t].page = "consent"
  BY <1>1, <1>2, GoMoves DEF Places
<1>5. TypeOK'
  BY <1>1, <1>2, <1>3, <1>4 DEF TypeOK
<1>6. Grows
  BY <1>2, NothingWritten
<1>7. TabAgrees(t)'
  BY <1>1, <1>2, <1>4 DEF TabAgrees, Named, Issued, WithDoc, AfterIssue, Starting, WithRow,
     WithWrite, AfterSubmit
<1> QED BY <1>2, <1>4, <1>5, <1>6, <1>7, TabMoves

(* Consent, and a refused preparation, only move the tab. *)
LEMMA ConsentStep ==
    ASSUME IInv, NEW t \in Tabs, Consent(t) \/ PrepareRefused(t)
    PROVE  IInv'
<1> DEFINE d == tab[t].doc
<1>1. /\ TypeOK /\ d \in Docs /\ Named(d) /\ Issued(d)
      /\ tab[t].page = "consent"
  BY DEF IInv, TabAgrees, Consent, PrepareRefused, At, Starting, WithDoc, AfterIssue
<1>2. PICK pc \in {"preparing", "shown"} : Go(t, pc)
  BY DEF Consent, PrepareRefused
<1>3. UNCHANGED <<issuer, cred, address, pending, writes, astray, session, credentials, mandate,
                  wallet, faults>>
  BY DEF Consent, PrepareRefused, rows, directory, registry
<1>4. /\ tab' \in [Tabs -> Tab] /\ Others(t) /\ tab'[t].pc = pc /\ tab'[t].doc = d
      /\ tab'[t].page = "consent"
  BY <1>1, <1>2, GoMoves DEF Places, Waiting
<1>5. TypeOK'
  BY <1>1, <1>3, <1>4 DEF TypeOK
<1>6. Grows
  BY <1>3, NothingWritten
<1>7. TabAgrees(t)'
  BY <1>1, <1>3, <1>4 DEF TabAgrees, Named, Issued, WithDoc, AfterIssue, Starting, WithRow,
     WithWrite, AfterSubmit
<1> QED BY <1>3, <1>4, <1>5, <1>6, <1>7, TabMoves

(* Saving a start replaces the row, and leaves no write of its own in it. *)
LEMMA SavePendingStep ==
    ASSUME IInv, NEW t \in Tabs, setPendingConsentSession(t)
    PROVE  IInv'
<1> DEFINE d == tab[t].doc
<1>1. /\ TypeOK /\ DirectoryAgrees /\ SessionAgrees /\ \A x \in Tabs : TabAgrees(x)
      /\ d \in Docs /\ Named(d) /\ Issued(d)
      /\ tab[t].page = "consent"
  BY DEF IInv, TabAgrees, setPendingConsentSession, At, Starting, WithDoc, AfterIssue
<1>2. /\ Go(t, "shown") /\ pending' = [doc |-> d, request |-> None]
      /\ UNCHANGED <<issuer, cred, address, writes, astray, session, credentials, mandate,
                     wallet, faults>>
  BY DEF setPendingConsentSession, directory, registry
<1>3. /\ tab' \in [Tabs -> Tab] /\ Others(t) /\ tab'[t].pc = "shown" /\ tab'[t].doc = d
      /\ tab'[t].page = "consent"
  BY <1>1, <1>2, GoMoves DEF Places, Waiting
<1>4. TypeOK'
  BY <1>1, <1>2, <1>3 DEF TypeOK, Rows
<1>5. Grows
  BY <1>2, NothingWritten
<1>6. TabAgrees(t)'
  BY <1>1, <1>2, <1>3 DEF TabAgrees, Named, Issued, WithDoc, AfterIssue, Starting, WithRow,
     WithWrite, AfterSubmit
<1>7. RowAgrees'
  BY <1>1, <1>2, NoneAssumption DEF RowAgrees, Named, Issued, WriteIds
<1>8. \A x \in Tabs : TabAgrees(x)'
  BY <1>1, <1>3, <1>5, <1>6, OthersAgree DEF Others
<1> QED BY <1>1, <1>2, <1>4, <1>5, <1>7, <1>8, DirectoryStays, SessionStays, RestStays

(* The row read is the tab's own, or one gone astray. *)
LEMMA PrepareAnchorStep ==
    ASSUME IInv, NEW t \in Tabs, PrepareAnchor(t)
    PROVE  IInv'
<1> DEFINE d == tab[t].doc
<1>1. /\ TypeOK /\ RowAgrees /\ DirectoryAgrees /\ SessionAgrees /\ \A x \in Tabs : TabAgrees(x)
      /\ d \in Docs /\ Named(d) /\ Issued(d)
      /\ tab[t].page = "consent"
  BY DEF IInv, TabAgrees, PrepareAnchor, At, Starting, WithDoc, AfterIssue
<1>2. /\ Go(t, "prepared") /\ writes' = writes \cup {AnchorWrite(t, d)}
      /\ UNCHANGED <<issuer, cred, address, session, credentials, mandate, wallet, faults>>
      /\ IF pending = None THEN UNCHANGED <<pending, astray>>
         ELSE /\ pending' = [pending EXCEPT !.request = AnchorWrite(t, d)]
              /\ astray' = IF pending.doc = d THEN astray ELSE astray \cup {pending.doc}
  BY DEF PrepareAnchor, directory, registry
<1>3. /\ tab' \in [Tabs -> Tab] /\ Others(t) /\ tab'[t].pc = "prepared" /\ tab'[t].doc = d
      /\ tab'[t].page = "consent"
  BY <1>1, <1>2, GoMoves DEF Places, Waiting
<1>a. AnchorWrite(t, d) \in WriteIds /\ AnchorWrite(t, d).doc = d
  BY <1>1 DEF AnchorWrite, WriteIds
<1>4. pending # None => /\ pending' \in Rows /\ pending'.doc = pending.doc /\ pending.doc \in Docs
                        /\ pending'.request = AnchorWrite(t, d)
                        /\ pending.doc \in astray' \cup {d}
  BY <1>1, <1>2, <1>a DEF TypeOK, Rows
<1>5. astray \subseteq astray' /\ astray' \in SUBSET Docs
  BY <1>1, <1>2, <1>4 DEF TypeOK
<1>6. TypeOK'
  BY <1>1, <1>2, <1>3, <1>4, <1>5, <1>a DEF TypeOK
<1>7. Grows
  BY <1>2, <1>5, NothingWritten
<1>8. TabAgrees(t)'
  BY <1>1, <1>2, <1>3 DEF TabAgrees, Named, Issued, WithDoc, AfterIssue, Starting, WithRow,
     WithWrite, AfterSubmit
<1>9. RowAgrees'
  BY <1>1, <1>2, <1>4, <1>5, <1>a DEF RowAgrees, Named, Issued
<1>10. \A x \in Tabs : TabAgrees(x)'
  BY <1>1, <1>3, <1>7, <1>8, OthersAgree DEF Others
<1>11. \A w \in writes' : w \in writes \/ Named(w.doc)
  BY <1>1, <1>2, <1>a
<1> QED BY <1>1, <1>2, <1>11, <1>6, <1>7, <1>9, <1>10, DirectoryStays, SessionStays, RestStays

(* The row read here is the one its write was prepared for, or is astray. *)
LEMMA AnchorStep ==
    ASSUME IInv, NEW t \in Tabs, Anchor(t)
    PROVE  IInv'
<1>1. PICK d \in Docs : /\ d = tab[t].doc /\ TypeOK /\ RowAgrees /\ Named(d)
                        /\ tab[t].page = "consent"
  BY DEF IInv, TabAgrees, Anchor, At, WithDoc, Starting, AfterIssue
<1> DEFINE w == AnchorWrite(t, d)
<1>2. w \in WriteIds /\ w.doc = d /\ w.kind = "anchor"
  BY DEF AnchorWrite, WriteIds
<1>3. /\ pending # None /\ pending.request = w
      /\ Requests(t, pending.doc, w)
      /\ UNCHANGED <<issuer, cred, address, pending, writes, astray, session, credentials,
                     mandate, wallet, faults>>
  BY <1>1 DEF Anchor, RequestMatches, Requests, rows, directory, registry
<1> HIDE DEF w
<1>4. /\ pending.doc \in Docs /\ Named(pending.doc) /\ Issued(pending.doc)
      /\ pending.doc \in astray \cup {d}
  BY <1>1, <1>2, <1>3 DEF RowAgrees, TypeOK, Rows
<1>5. /\ tab' \in [Tabs -> Tab] /\ Others(t) /\ tab'[t].pc = "submitting" /\ tab'[t].doc = d
      /\ tab'[t].row = pending.doc /\ tab'[t].write = w /\ tab'[t].page = "consent"
  BY <1>1, <1>2, <1>3, <1>4, RequestMoves
<1>6. TypeOK'
  BY <1>1, <1>3, <1>5 DEF TypeOK
<1>7. Grows
  BY <1>3, NothingWritten
<1>8. TabAgrees(t)'
  BY <1>1, <1>2, <1>3, <1>4, <1>5 DEF TabAgrees, Named, Issued, WithDoc, AfterIssue, Starting,
     WithRow, WithWrite, AfterSubmit
<1> QED BY <1>3, <1>5, <1>6, <1>7, <1>8, TabMoves

(* A tab that closes has nothing left to agree on. *)
LEMMA ClosedAgrees ==
    ASSUME NEW t \in Tabs, tab'[t].pc = "idle"
    PROVE  TabAgrees(t)'
BY DEF TabAgrees, WithDoc, AfterIssue, Starting, WithRow, WithWrite, AfterSubmit

(* A write taken is the request's own affair. *)
LEMMA SubmitStep ==
    ASSUME IInv, NEW t \in Tabs, Submit(t)
    PROVE  IInv'
<1>1. TypeOK /\ tab[t].pc = "submitting" /\ TabAgrees(t)
  BY DEF IInv, Submit, At
<1>2. /\ Go(t, "sending") /\ writes' \in SUBSET writes
      /\ UNCHANGED <<issuer, cred, address, pending, astray, session, credentials, mandate,
                     wallet, faults>>
  BY DEF Submit, Take, directory, registry
<1>3. /\ tab' \in [Tabs -> Tab] /\ Others(t) /\ tab'[t].pc = "sending"
      /\ tab'[t].doc = tab[t].doc /\ tab'[t].row = tab[t].row
      /\ tab'[t].page = tab[t].page /\ tab'[t].write = tab[t].write
  BY <1>1, <1>2, GoMoves DEF Places
<1>4. TypeOK'
  BY <1>1, <1>2, <1>3 DEF TypeOK
<1>5. Grows
  BY <1>2, NothingWritten
<1>6. TabAgrees(t)'
  BY <1>1, <1>2, <1>3 DEF TabAgrees, Named, Issued, Recorded, WithDoc, AfterIssue, Starting,
     WithRow, WithWrite, AfterSubmit
<1> QED BY <1>2, <1>3, <1>4, <1>5, <1>6, TabMoves

(* A write that is gone, or no longer applies, ends the request. *)
LEMMA SubmitFailsStep ==
    ASSUME IInv, NEW t \in Tabs, SubmitFails(t)
    PROVE  IInv'
<1>1. TypeOK
  BY DEF IInv
<1>2. /\ Close(t) /\ writes' \in SUBSET writes
      /\ UNCHANGED <<issuer, cred, address, pending, astray, session, credentials, mandate,
                     wallet, faults>>
  BY DEF SubmitFails, Take, directory, registry, rows
<1>3. tab' \in [Tabs -> Tab] /\ Others(t) /\ tab'[t].pc = "idle"
  BY <1>1, <1>2, CloseMoves
<1>4. TypeOK'
  BY <1>1, <1>2, <1>3 DEF TypeOK
<1>5. Grows
  BY <1>2, NothingWritten
<1> QED BY <1>2, <1>3, <1>4, <1>5, ClosedAgrees, TabMoves

(* What was sent is the write's own call, or the row goes astray. *)
LEMMA SentStep ==
    ASSUME IInv, NEW t \in Tabs,
           \/ Send(t)
           \/ SendInVain(t)
           \/ \E kind \in {"anchor", "revoke"}, d \in Docs :
                 SendOther(t, [kind |-> kind, doc |-> d])
    PROVE  IInv'
<1>1. Sent(t)
  BY DEF Send, SendInVain, SendOther
<1>2. PICK k \in Docs, d \in Docs, w \in WriteIds :
          /\ TypeOK /\ TabAgrees(t) /\ tab[t].pc = "sending"
          /\ k = tab[t].row /\ w = tab[t].write /\ Named(k) /\ Named(w.doc)
          /\ w.doc \in Docs /\ w.kind \in {"anchor", "revoke"}
          /\ k \in astray \cup {w.doc}
          /\ d = tab[t].doc /\ Named(d)
  BY <1>1 DEF IInv, TabAgrees, Sent, At, WithDoc, WithRow, WithWrite, WriteIds
<1>3. UNCHANGED <<address, pending, writes, session, credentials, mandate, wallet>>
  BY <1>1 DEF Sent, directory
<1> DEFINE pc == IF tab[t].page = "consent" THEN "crediting" ELSE "mirroring"
<1>4. pc \in Places /\ Go(t, pc)
  BY <1>1 DEF Sent, Places
<1>5. /\ tab' \in [Tabs -> Tab] /\ Others(t) /\ tab'[t].pc = pc
      /\ tab'[t].doc = d /\ tab'[t].row = k /\ tab'[t].page = tab[t].page
  BY <1>2, <1>4, GoMoves
<1>6. /\ cred' \in [Hashes -> Records \cup {None}] /\ issuer' = issuer /\ ChainGrows
      /\ faults' \in Nat /\ astray' \in SUBSET Docs /\ astray \subseteq astray'
      /\ \/ k \in astray'
         \/ /\ cred'[<<"mandate", w.doc>>] # None
            /\ cred'[<<"mandate", w.doc>>].issuer = wallet[w.doc]
            /\ w.kind = "revoke" => cred'[<<"mandate", w.doc>>].revoked
  <2>1. CASE Send(t)
    <3>1. Calls(w.kind, w.doc)
      BY <1>2, <2>1 DEF Send, Call, Calls
    <3> QED BY <1>2, <2>1, <3>1, CallWrites DEF Send, TypeOK
  <2>2. CASE SendInVain(t)
    BY <1>2, <2>2 DEF SendInVain, Fault, TypeOK, ChainGrows, registry
  <2>3. ASSUME NEW kind \in {"anchor", "revoke"}, NEW x \in Docs,
               SendOther(t, [kind |-> kind, doc |-> x])
        PROVE  <1>6
    <3>2. faults' = faults + 1 /\ astray' = astray \cup {k}
      BY <1>2, <2>3 DEF SendOther, Fault
    <3>3. Named(x) /\ Calls(kind, x)
      BY <2>3 DEF SendOther, Named, Call, Calls
    <3>4. TypeOK
      BY <1>2
    <3>5. cred' \in [Hashes -> Records \cup {None}] /\ issuer' = issuer /\ ChainGrows
      BY <3>3, <3>4, CallWrites
    <3> QED BY <1>2, <3>2, <3>5 DEF TypeOK
  <2> QED BY <2>1, <2>2, <2>3
<1>7. TypeOK'
  BY <1>2, <1>3, <1>5, <1>6 DEF TypeOK
<1>8. Grows
  BY <1>3, <1>6 DEF Grows, Recorded
<1>9. /\ Named(k)' /\ Named(d)'
      /\ Issued(k) => Issued(k)'
      /\ Recorded(k) => Recorded(k)'
  BY <1>2, <1>8, DocsKeep
<1>10. /\ tab[t].page = "consent" =>
             Issued(k) /\ (k \in astray \/ (k = w.doc /\ w.kind = "anchor"))
       /\ tab[t].page # "consent" =>
             Recorded(k) /\ (k \in astray \/ (k = w.doc /\ w.kind = "revoke"))
  BY <1>2 DEF TabAgrees, WithWrite
<1>11. /\ tab[t].page = "consent" => k \in astray' \/ Anchored(k)'
       /\ tab[t].page # "consent" => k \in astray' \/ Revoked(k)'
  BY <1>2, <1>3, <1>6, <1>10 DEF Anchored, Revoked
<1>12. TabAgrees(t)'
  <2>1. CASE tab[t].page = "consent"
    <3>1. tab'[t].pc = "crediting"
      BY <1>5, <2>1
    <3> QED BY <1>2, <1>5, <1>9, <1>10, <1>11, <2>1, <3>1 DEF TabAgrees, Named, Issued, Anchored,
       WithDoc, AfterIssue, Starting, WithRow, WithWrite, AfterSubmit
  <2>2. CASE tab[t].page # "consent"
    <3>1. tab'[t].pc = "mirroring"
      BY <1>5, <2>2
    <3> QED BY <1>2, <1>5, <1>9, <1>10, <1>11, <2>2, <3>1 DEF TabAgrees, Named, Recorded, Revoked,
       WithDoc, AfterIssue, Starting, WithRow, WithWrite, AfterSubmit
  <2> QED BY <2>1, <2>2
<1> QED BY <1>3, <1>5, <1>7, <1>8, <1>12, TabMoves

(* A call that landed for a request that ends with an error. *)
LEMMA SendAnsweredLateStep ==
    ASSUME IInv, NEW t \in Tabs, SendAnsweredLate(t)
    PROVE  IInv'
<1>1. PICK w \in WriteIds : /\ TypeOK /\ w = tab[t].write /\ Named(w.doc) /\ w.doc \in Docs
                            /\ w.kind \in {"anchor", "revoke"}
  BY DEF IInv, TabAgrees, SendAnsweredLate, At, WithWrite, WriteIds
<1>2. /\ Close(t) /\ Call(w) /\ faults' = faults + 1
      /\ UNCHANGED <<address, pending, writes, astray, session, credentials, mandate, wallet>>
  BY <1>1 DEF SendAnsweredLate, Fault, directory, rows
<1>3. cred' \in [Hashes -> Records \cup {None}] /\ issuer' = issuer /\ ChainGrows
  <2>1. TypeOK /\ w.kind \in {"anchor", "revoke"} /\ w.doc \in Docs /\ Named(w.doc)
    BY <1>1
  <2>2. Calls(w.kind, w.doc)
    BY <1>2 DEF Call, Calls
  <2> QED BY <2>1, <2>2, CallWrites
<1>4. tab' \in [Tabs -> Tab] /\ Others(t) /\ tab'[t].pc = "idle"
  BY <1>1, <1>2, CloseMoves
<1>5. TypeOK'
  BY <1>1, <1>2, <1>3, <1>4 DEF TypeOK
<1>6. Grows
  BY <1>2, <1>3 DEF Grows, Recorded
<1> QED BY <1>2, <1>4, <1>5, <1>6, ClosedAgrees, TabMoves

(* The credential of the row read was issued. *)
LEMMA RecordCredentialStep ==
    ASSUME IInv, NEW t \in Tabs, RecordCredential(t)
    PROVE  IInv'
<1>1. PICK d \in Docs, k \in Docs :
          /\ TypeOK /\ d = tab[t].doc /\ Named(d)
          /\ k = tab[t].row /\ Named(k) /\ Issued(k) /\ (k \in astray \/ Anchored(k))
  BY DEF IInv, TabAgrees, RecordCredential, At, WithDoc, WithRow, AfterSubmit
<1>2. /\ credentials' = credentials \cup {k}
      /\ Close(t) \/ Go(t, "recording")
      /\ UNCHANGED <<issuer, cred, address, pending, writes, astray, session, mandate, wallet,
                     faults>>
  BY <1>1 DEF RecordCredential, registry, rows
<1>3. Grows
  BY <1>2 DEF Grows, ChainGrows, Recorded
<1>4. CASE Close(t)
  <2>1. tab' \in [Tabs -> Tab] /\ Others(t) /\ tab'[t].pc = "idle"
    BY <1>1, <1>4, CloseMoves
  <2>2. TypeOK'
    BY <1>1, <1>2, <2>1 DEF TypeOK
  <2> QED BY <1>2, <1>3, <2>1, <2>2, ClosedAgrees, TabMoves
<1>5. CASE Go(t, "recording")
  <2>1. /\ tab' \in [Tabs -> Tab] /\ Others(t) /\ tab'[t].pc = "recording"
        /\ tab'[t].doc = d /\ tab'[t].row = k
    BY <1>1, <1>5, GoMoves DEF Places
  <2>2. TypeOK'
    BY <1>1, <1>2, <2>1 DEF TypeOK
  <2>3. Issued(k)' /\ Named(k)' /\ Named(d)' /\ (k \in astray' \/ Anchored(k)')
    BY <1>1, <1>2, <1>3, DocsKeep
  <2>4. TabAgrees(t)'
    BY <1>1, <1>2, <2>1, <2>3
       DEF TabAgrees, Named, Issued, Anchored, WithDoc, AfterIssue, Starting, WithRow, WithWrite,
     AfterSubmit
  <2> QED BY <1>2, <1>3, <2>1, <2>2, <2>4, TabMoves
<1> QED BY <1>2, <1>4, <1>5

(* The mandate recorded is of the row: anchored, or astray. *)
LEMMA RecordMandateStep ==
    ASSUME IInv, NEW t \in Tabs, RecordMandate(t)
    PROVE  IInv'
<1>1. PICK d \in Docs, k \in Docs :
          /\ d = tab[t].doc /\ Named(d)
          /\ k = tab[t].row /\ Named(k) /\ Issued(k) /\ (k \in astray \/ Anchored(k))
          /\ k \in credentials
  BY DEF IInv, TabAgrees, RecordMandate, At, WithDoc, WithRow, AfterSubmit
<1>2. TypeOK /\ RowAgrees /\ DirectoryAgrees /\ SessionAgrees /\ \A x \in Tabs : TabAgrees(x)
  BY DEF IInv
<1>3. /\ mandate' = [mandate EXCEPT ![k] = "active"] /\ Go(t, "completing")
      /\ UNCHANGED <<issuer, cred, address, pending, writes, astray, session, credentials,
                     wallet, faults>>
  BY <1>1 DEF RecordMandate, registry, rows
<1>4. Grows
  BY <1>2, <1>3 DEF Grows, ChainGrows, Recorded, TypeOK
<1>5. /\ tab' \in [Tabs -> Tab] /\ Others(t) /\ tab'[t].pc = "completing"
      /\ tab'[t].doc = d /\ tab'[t].row = k
  BY <1>1, <1>2, <1>3, GoMoves DEF Places
<1>6. TypeOK'
  BY <1>2, <1>3, <1>5 DEF TypeOK
<1>7. /\ Issued(k)' /\ Named(k)' /\ Named(d)' /\ (k \in astray' \/ Anchored(k)')
  BY <1>1, <1>3, <1>4, DocsKeep
<1>8. mandate'[k] = "active"
  BY <1>2, <1>3 DEF TypeOK
<1>9. TabAgrees(t)'
  BY <1>1, <1>3, <1>5, <1>7, <1>8
     DEF TabAgrees, Named, Issued, Anchored, Recorded, WithDoc, AfterIssue, Starting, WithRow,
     WithWrite, AfterSubmit
<1>10. \A x \in Tabs : TabAgrees(x)'
  BY <1>2, <1>4, <1>5, <1>9, OthersAgree DEF Others
<1>11. DirectoryAgrees'
  <2> SUFFICES ASSUME NEW c \in Docs
               PROVE  /\ Recorded(c)' => Named(c)'
                      /\ Recorded(c)' /\ c \notin astray' =>
                            Anchored(c)' /\ Issued(c)' /\ c \in credentials'
                      /\ mandate'[c] = "revoked" /\ c \notin astray' => Revoked(c)'
    BY DEF DirectoryAgrees
  <2>1. CASE c = k
    BY <1>1, <1>3, <1>7, <1>8, <2>1
  <2>2. CASE c # k
    <3>1. mandate'[c] = mandate[c]
      BY <1>2, <1>3, <2>2 DEF TypeOK
    <3> QED BY <1>2, <1>3, <1>4, <3>1, DocsKeep DEF DirectoryAgrees, Recorded
  <2> QED BY <2>1, <2>2
<1> QED BY <1>2, <1>3, <1>4, <1>6, <1>10, <1>11, RowStays, SessionStays, RestStays

(* A session is completed with a mandate on record. *)
LEMMA CompleteStep ==
    ASSUME IInv, NEW t \in Tabs, CompleteConsentSession(t)
    PROVE  IInv'
<1>1. PICK k \in Docs : k = tab[t].row /\ Recorded(k)
  BY DEF IInv, TabAgrees, CompleteConsentSession, At, WithRow
<1>2. TypeOK /\ RowAgrees /\ DirectoryAgrees /\ SessionAgrees /\ \A x \in Tabs : TabAgrees(x)
  BY DEF IInv
<1>3. /\ \/ session' = k /\ Go(t, "deleting")
         \/ UNCHANGED session /\ Close(t)
      /\ UNCHANGED <<issuer, cred, address, pending, writes, astray, credentials, mandate,
                     wallet, faults>>
  BY <1>1 DEF CompleteConsentSession, registry, rows
<1>4. Grows
  BY <1>3, NothingWritten
<1>5. tab' \in [Tabs -> Tab] /\ Others(t) /\ tab'[t].pc \in {"deleting", "idle"}
  BY <1>2, <1>3, GoMoves, CloseMoves DEF Places
<1>6. TypeOK'
  BY <1>2, <1>3, <1>5 DEF TypeOK
<1>7. TabAgrees(t)'
  BY <1>5 DEF TabAgrees, WithDoc, AfterIssue, Starting, WithRow, WithWrite, AfterSubmit
<1>8. \A x \in Tabs : TabAgrees(x)'
  BY <1>2, <1>4, <1>5, <1>7, OthersAgree DEF Others
<1>9. SessionAgrees'
  BY <1>1, <1>2, <1>3 DEF SessionAgrees, Recorded
<1> QED BY <1>2, <1>3, <1>4, <1>6, <1>8, <1>9, RowStays, DirectoryStays, RestStays

(* The row is gone: nothing is left to agree on. *)
LEMMA DeletePendingStep ==
    ASSUME IInv, NEW t \in Tabs, DeletePending(t)
    PROVE  IInv'
<1>1. TypeOK /\ RowAgrees /\ DirectoryAgrees /\ SessionAgrees /\ \A x \in Tabs : TabAgrees(x)
  BY DEF IInv
<1>2. /\ Close(t) /\ pending' = None /\ address' = None
      /\ UNCHANGED <<issuer, cred, writes, astray, session, credentials, mandate, wallet, faults>>
  BY DEF DeletePending, registry, directory
<1>3. Grows
  BY <1>2, NothingWritten
<1>4. tab' \in [Tabs -> Tab] /\ Others(t) /\ tab'[t].pc = "idle"
  BY <1>1, <1>2, CloseMoves
<1>5. TypeOK'
  BY <1>1, <1>2, <1>4 DEF TypeOK
<1>6. \A x \in Tabs : TabAgrees(x)'
  BY <1>1, <1>3, <1>4, OthersAgree, ClosedAgrees DEF Others
<1>7. RowAgrees'
  BY <1>2 DEF RowAgrees
<1> QED BY <1>1, <1>2, <1>3, <1>5, <1>6, <1>7, DirectoryStays, SessionStays, RestStays

(* Only a mandate on record is offered for revocation. *)
LEMMA RevokePrepareStep ==
    ASSUME IInv, NEW t \in Tabs, NEW d \in Docs, RevokePrepare(t, d)
    PROVE  IInv'
<1>1. TypeOK /\ Named(d) /\ Recorded(d)
  BY DEF IInv, DirectoryAgrees, RevokePrepare, Recorded
<1>2. /\ writes' = writes \cup {RevokeWrite(t, d)}
      /\ UNCHANGED <<issuer, cred, address, pending, astray, session, credentials, mandate,
                     wallet, faults>>
  BY DEF RevokePrepare, registry, directory
<1>3. RevokeWrite(t, d) \in WriteIds /\ RevokeWrite(t, d).doc = d
  BY DEF RevokeWrite, WriteIds
<1>4. /\ tab' \in [Tabs -> Tab] /\ Others(t)
      /\ tab'[t].pc = "revoking" /\ tab'[t].doc = d /\ tab'[t].page = "revoke"
  BY <1>1, RevokePrepareMoves
<1>5. TypeOK'
  BY <1>1, <1>2, <1>3, <1>4 DEF TypeOK
<1>6. Grows
  BY <1>2, NothingWritten
<1>7. TabAgrees(t)'
  BY <1>1, <1>2, <1>4 DEF TabAgrees, Named, Recorded, WithDoc, AfterIssue, Starting, WithRow,
     WithWrite, AfterSubmit
<1>8. \A w \in writes' : w \in writes \/ Named(w.doc)
  BY <1>1, <1>2, <1>3
<1> QED BY <1>2, <1>4, <1>5, <1>6, <1>7, <1>8, TabMoves

(* A revocation submitted is of the write's mandate, or the URL's is astray. *)
LEMMA RevokeSubmitStep ==
    ASSUME IInv, NEW t \in Tabs, NEW d \in Docs,
           NEW w \in writes \cup {RevokeWrite(t, tab[t].doc)}, RevokeSubmit(t, w, d)
    PROVE  IInv'
<1>1. PICK k \in Docs : /\ TypeOK /\ Recorded(d) /\ Named(d)
                        /\ k = tab[t].doc /\ Named(k) /\ tab[t].page = "revoke"
  BY DEF IInv, DirectoryAgrees, TabAgrees, RevokeSubmit, Recorded, At, WithDoc
<1>2. w \in WriteIds /\ Named(w.doc)
  BY <1>1 DEF IInv, TypeOK, WritesAgree, RevokeWrite, WriteIds
<1>3. /\ Requests(t, d, w)
      /\ UNCHANGED <<issuer, cred, address, pending, writes, session, credentials, mandate, wallet>>
      /\ faults' \in {faults, faults + 1}
      /\ astray' = IF w.kind = "revoke" /\ w.doc = d THEN astray ELSE astray \cup {d}
  BY DEF RevokeSubmit, Requests, Fault, registry, directory
<1>4. /\ tab' \in [Tabs -> Tab] /\ Others(t) /\ tab'[t].pc = "submitting"
      /\ tab'[t].doc = k /\ tab'[t].page = "revoke"
      /\ tab'[t].row = d /\ tab'[t].write = w
  BY <1>1, <1>2, <1>3, RequestMoves
<1>5. astray \subseteq astray' /\ astray' \in SUBSET Docs
  BY <1>1, <1>3 DEF TypeOK
<1>6. TypeOK'
  BY <1>1, <1>3, <1>4, <1>5 DEF TypeOK
<1>7. Grows
  BY <1>3, <1>5, NothingWritten
<1>8. d \in astray' \/ (w.kind = "revoke" /\ w.doc = d)
  BY <1>3
<1>9. Recorded(d)' /\ Named(d)' /\ Named(k)' /\ wallet'[w.doc] # None
  BY <1>1, <1>2, <1>3 DEF Recorded, Named
<1>10. TabAgrees(t)'
  BY <1>1, <1>2, <1>4, <1>8, <1>9 DEF TabAgrees, Named, Recorded, WithDoc, AfterIssue, Starting,
     WithRow, WithWrite, AfterSubmit
<1> QED BY <1>3, <1>4, <1>6, <1>7, <1>10, TabMoves

(* The URL's mandate is marked: revoked on the chain, or astray. *)
LEMMA RevokeMandateStep ==
    ASSUME IInv, NEW t \in Tabs, RevokeMandate(t)
    PROVE  IInv'
<1>1. PICK d \in Docs : d = tab[t].row /\ Recorded(d) /\ (d \in astray \/ Revoked(d))
  BY DEF IInv, TabAgrees, RevokeMandate, At, WithRow
<1>2. TypeOK /\ RowAgrees /\ DirectoryAgrees /\ SessionAgrees /\ \A x \in Tabs : TabAgrees(x)
  BY DEF IInv
<1>3. /\ mandate' = [mandate EXCEPT ![d] = "revoked"] /\ Close(t)
      /\ UNCHANGED <<issuer, cred, address, pending, writes, astray, session, credentials,
                     wallet, faults>>
  BY <1>1 DEF RevokeMandate, registry, rows
<1>4. Grows
  BY <1>2, <1>3 DEF Grows, ChainGrows, Recorded, TypeOK
<1>5. tab' \in [Tabs -> Tab] /\ Others(t) /\ tab'[t].pc = "idle"
  BY <1>2, <1>3, CloseMoves
<1>6. TypeOK'
  BY <1>2, <1>3, <1>5 DEF TypeOK
<1>7. \A x \in Tabs : TabAgrees(x)'
  BY <1>2, <1>4, <1>5, OthersAgree, ClosedAgrees DEF Others
<1>8. \A c \in Docs : /\ Recorded(c)' => Recorded(c)
                      /\ mandate'[c] = "revoked" => mandate[c] = "revoked" \/ c = d
  BY <1>1, <1>2, <1>3 DEF Recorded, TypeOK
<1>9. DirectoryAgrees'
  BY <1>1, <1>2, <1>3, <1>4, <1>8, DocsKeep DEF DirectoryAgrees
<1> QED BY <1>2, <1>3, <1>4, <1>6, <1>7, <1>9, RowStays, SessionStays, RestStays

(* A request that dies leaves what it had written. *)
LEMMA DieStep ==
    ASSUME IInv, NEW t \in Tabs, Die(t)
    PROVE  IInv'
<1>1. TypeOK
  BY DEF IInv
<1>2. /\ Close(t) /\ faults' = faults + 1
      /\ UNCHANGED <<issuer, cred, address, pending, writes, astray, session, credentials,
                     mandate, wallet>>
  BY DEF Die, Fault, registry, rows, directory
<1>3. tab' \in [Tabs -> Tab] /\ Others(t) /\ tab'[t].pc = "idle"
  BY <1>1, <1>2, CloseMoves
<1>4. TypeOK'
  BY <1>1, <1>2, <1>3 DEF TypeOK
<1>5. Grows
  BY <1>2, NothingWritten
<1> QED BY <1>2, <1>3, <1>4, <1>5, ClosedAgrees, TabMoves

(* Steps of nobody's tab: rows that expire and an issuer the platform turns off. *)
LEMMA ElsewhereStep ==
    ASSUME IInv,
           \/ ExpirePending
           \/ \E w \in writes : ExpireWrite(w)
           \/ \E w \in Wallets : Deactivate(w)
    PROVE  IInv'
<1>1. TypeOK /\ RowAgrees /\ DirectoryAgrees /\ SessionAgrees /\ \A x \in Tabs : TabAgrees(x)
  BY DEF IInv
<1>2. /\ UNCHANGED <<cred, address, astray, session, credentials, mandate, wallet, tab, faults>>
      /\ pending' \in {pending, None} /\ writes' \in SUBSET writes
  BY DEF ExpirePending, ExpireWrite, Deactivate, registry, rows, directory,
     Registry!DeactivateIssuer
<1>3. issuer' \in [Wallets \cup {Platform} -> {"none", "active", "inactive"}]
  <2>1. CASE UNCHANGED issuer
    BY <1>1, <2>1 DEF TypeOK
  <2>2. ASSUME NEW w \in Wallets, Deactivate(w)
        PROVE  issuer' \in [Wallets \cup {Platform} -> {"none", "active", "inactive"}]
    BY <1>1, <2>2 DEF TypeOK, Deactivate, Registry!DeactivateIssuer
  <2> QED BY <2>1, <2>2 DEF ExpirePending, ExpireWrite, registry
<1>4. TypeOK'
  BY <1>1, <1>2, <1>3 DEF TypeOK
<1>5. Grows
  BY <1>2, NothingWritten
<1>6. \A x \in Tabs : TabAgrees(x)'
  BY <1>1, <1>2, <1>5, OthersAgree
<1>7. RowAgrees'
  <2>1. CASE pending' = pending
    BY <1>1, <1>5, <2>1, RowStays
  <2>2. CASE pending' = None
    BY <2>2 DEF RowAgrees
  <2> QED BY <1>2, <2>1, <2>2
<1> QED BY <1>1, <1>2, <1>4, <1>5, <1>6, <1>7, DirectoryStays, SessionStays, RestStays

-----------------------------------------------------------------------------
(* It holds at the start. *)
LEMMA InitEstablishes == Init => IInv
<1> SUFFICES ASSUME Init PROVE IInv
  OBVIOUS
<1>1. NewTab \in Tab /\ NewTab.pc = "idle"
  BY DEF NewTab, Tab, Places, Waiting
<1>2. TypeOK
  BY <1>1, ConsentAssumption DEF Init, TypeOK
<1>3. \A t \in Tabs : TabAgrees(t)
  BY <1>1 DEF Init, TabAgrees, WithDoc, AfterIssue, Starting, WithRow, WithWrite, AfterSubmit
<1> QED BY <1>2, <1>3 DEF Init, IInv, RowAgrees, WritesAgree, DirectoryAgrees, SessionAgrees,
     Recorded

(* Every step of the specification keeps the invariant. *)
LEMMA StepPreserves == IInv /\ [Next]_vars => IInv'
<1> SUFFICES ASSUME IInv, [Next]_vars PROVE IInv'
  OBVIOUS
<1>1. ASSUME NEW t \in Tabs, Step(t) PROVE IInv'
  BY <1>1, VerifyStep, StartStep, IssueStep, EnsureStep, SavePendingStep, ConsentStep,
     PrepareAnchorStep, AnchorStep, SubmitStep, SubmitFailsStep, SentStep, SendAnsweredLateStep,
     RecordCredentialStep, RecordMandateStep, CompleteStep, DeletePendingStep, RevokePrepareStep,
     RevokeSubmitStep, RevokeMandateStep, DieStep DEF Step
<1>2. CASE ExpirePending \/ (\E w \in writes : ExpireWrite(w)) \/ \E w \in Wallets : Deactivate(w)
  BY <1>2, ElsewhereStep
<1>3. CASE UNCHANGED vars
  BY <1>3 DEF vars, registry, rows, directory, IInv, TypeOK, RowAgrees, WritesAgree, TabAgrees,
     DirectoryAgrees, SessionAgrees, Named, Issued, Anchored, Revoked, Recorded
<1> QED BY <1>1, <1>2, <1>3 DEF Next

(* So it holds in every reachable state. *)
LEMMA Invariance == Spec => []IInv
BY InitEstablishes, StepPreserves, PTL DEF Spec

(* Whatever number of tabs and wallets share a session, and wherever requests
   die: a mandate the directory records is anchored by the wallet it names,
   with its credential, unless it went astray: another start replaced its row,
   or the transaction of its request was another or failed on the chain.    *)
THEOREM DirectoryFollowsTheChain == Spec => []RecordedIsAnchored
<1>1. IInv => RecordedIsAnchored
  BY DEF IInv, DirectoryAgrees, RecordedIsAnchored, Recorded, Anchored, Issued
<1> QED BY <1>1, Invariance, PTL

(* Unless it went astray, a mandate called revoked is revoked on the chain, and
   one called active can be revoked by its wallet, deactivated or not.      *)
THEOREM RevocationIsNeverLost == Spec => []RevocationHolds
<1>1. IInv => RevocationHolds
  BY DEF IInv, DirectoryAgrees, RevocationHolds, Recorded, Anchored, Revoked, Registry!Revoked,
     Registry!CanRevoke
<1> QED BY <1>1, Invariance, PTL

(* The first completion of a session stands, with a recorded mandate
   (completeConsentSession's WHERE status = 'pending').                     *)
THEOREM SessionsCompleteOnce == Spec => CompletedOnce
<1>1. IInv => (session # None => mandate[session] # "none")
  BY DEF IInv, SessionAgrees, Recorded
<1>2. [Next]_vars => [session # None => session' = session]_vars
  <2> SUFFICES ASSUME Next, session # None PROVE session' = session
    BY DEF vars, directory
  <2>1. ASSUME NEW t \in Tabs, Step(t) PROVE session' = session
    <3>1. CASE CompleteConsentSession(t)
      BY <3>1 DEF CompleteConsentSession, StillPending
    <3>2. ASSUME NEW w \in writes \cup {RevokeWrite(t, tab[t].doc)}, NEW d \in Docs,
                 RevokeSubmit(t, w, d)
          PROVE  session' = session
      BY <3>2 DEF RevokeSubmit, directory
    <3>3. ASSUME NEW c, SendOther(t, c) PROVE session' = session
      BY <3>3 DEF SendOther, Sent, directory
    <3> QED BY <2>1, <3>1, <3>2, <3>3 DEF Step, directory, Verify, StartConsentSession, Issue,
       ensureWalletIsRegisteredIssuer, setPendingConsentSession, Consent, PrepareAnchor,
       PrepareRefused, Anchor, Submit, SubmitFails, Sent, Send, SendInVain, SendAnsweredLate,
       RecordCredential, RecordMandate, DeletePending, RevokePrepare, RevokeMandate, Die
  <2> QED BY <2>1 DEF Next, directory, ExpirePending, ExpireWrite, Deactivate
<1>3. Spec => [](session # None => mandate[session] # "none")
  BY <1>1, Invariance, PTL
<1>4. Spec => [][session # None => session' = session]_vars
  BY <1>2, PTL DEF Spec
<1> QED BY <1>3, <1>4 DEF CompletedOnce
=============================================================================
