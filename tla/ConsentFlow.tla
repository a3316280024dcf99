---------------------------- MODULE ConsentFlow -----------------------------
(***************************************************************************)
(* A partner's consent session at apps/web (server.ts /api/consent and      *)
(* /api/revoke): a person connects a wallet, the server builds and issues   *)
(* the documents, the wallet signs and anchors the mandate, the directory   *)
(* records it; later the person revokes it from the revocation page.        *)
(*                                                                          *)
(* A tab is a page with at most one request on its way; tabs of one or of   *)
(* several people share the session's rows.  An await ends a step.  The     *)
(* demo's /api/session routes take the same steps over rows of their own.   *)
(***************************************************************************)
EXTENDS Integers, FiniteSets

CONSTANTS
    Tabs, Wallets,
    Platform,  \* the ISSUER_SECRET_KEY account
    Docs,      \* pairs of a credential and a mandate, one per start
    None,
    MaxFaults  \* bound: requests that die, get a late error, or carry what is not theirs

ASSUME ConsentAssumption == MaxFaults \in Nat /\ Platform \notin Wallets
(* None is nobody and nothing. *)
ASSUME NoneAssumption ==
    /\ None \notin Docs \cup Wallets
    /\ None \notin [issuer : Wallets \cup {Platform}, revoked : BOOLEAN]
    /\ None \notin [kind : {"anchor", "revoke"}, tab : Tabs, doc : Docs]
    /\ None \notin [doc : Docs,
                    request : [kind : {"anchor", "revoke"}, tab : Tabs, doc : Docs] \cup {None}]

Hashes == {"credential", "mandate"} \X Docs

VARIABLES
    issuer, cred,  \* the registry contract
    wallet,        \* whom the documents of each start name as principal, None before
    session,       \* directory_consent_sessions: None while pending, then its mandate
    address,       \* wallet_address_by_consent_session
    pending,       \* pending_consent_sessions: None, or documents and what was patched in
    writes,        \* sdk_pending_writes: each the call it holds and the tab it was prepared for
    credentials,   \* directory_credentials
    mandate,       \* directory_mandates: "none", "active" or "revoked"
    tab,           \* the page of each tab and where it is, its wallet, the documents
                   \* shown, the row its request is about and the write it names
    astray,        \* history: documents a request records or revokes by a transaction that
                   \* is not theirs, or that failed on the chain
    faults

registry == <<issuer, cred>>
rows == <<address, pending, writes, astray>>
directory == <<session, credentials, mandate>>
vars == <<registry, rows, directory, wallet, tab, faults>>

Registry == INSTANCE AgentRegistry WITH Addresses <- Wallets \cup {Platform}

NewTab == [page |-> "consent", pc |-> "idle", wallet |-> None, doc |-> None, row |-> None,
           write |-> None]
Init ==
    /\ issuer = [a \in Wallets \cup {Platform} |-> IF a = Platform THEN "active" ELSE "none"]
    /\ cred = [h \in Hashes |-> None]
    /\ wallet = [d \in Docs |-> None]
    /\ session = None
    /\ address = None /\ pending = None /\ writes = {} /\ astray = {}
    /\ credentials = {} /\ mandate = [d \in Docs |-> "none"]
    /\ tab = [t \in Tabs |-> NewTab]
    /\ faults = 0

At(t, pc) == tab[t].pc = pc
Go(t, pc) == tab' = [tab EXCEPT ![t].pc = pc]
Close(t) == tab' = [tab EXCEPT ![t] = NewTab]
Fault == faults < MaxFaults /\ faults' = faults + 1

Waiting == {"idle", "verified", "shown", "prepared", "revoking"}

-----------------------------------------------------------------------------
(* wallet-verify: the last wallet to prove itself is the session's. *)
Verify(t, w) ==
    /\ tab[t].pc \in Waiting
    /\ address' = w
    /\ tab' = [tab EXCEPT ![t] = [NewTab EXCEPT !.pc = "verified", !.wallet = w]]
    /\ UNCHANGED <<registry, pending, writes, astray, directory, wallet, faults>>

(* start: the documents name the wallet of the session's row. *)
StartConsentSession(t) ==
    /\ At(t, "verified")
    /\ address # None /\ session = None
    /\ \E d \in Docs :
          /\ wallet[d] = None
          /\ wallet' = [wallet EXCEPT ![d] = address]
          /\ tab' = [tab EXCEPT ![t].pc = "issuing", ![t].doc = d]
    /\ UNCHANGED <<registry, rows, directory, faults>>

Issue(t) ==
    /\ At(t, "issuing")
    /\ Registry!Anchor(Platform, <<"credential", tab[t].doc>>)
    /\ Go(t, "registering")
    /\ UNCHANGED <<rows, directory, wallet, faults>>

ensureWalletIsRegisteredIssuer(t) ==
    LET w == wallet[tab[t].doc] IN
    /\ At(t, "registering")
    /\ IF issuer[w] = "active" THEN UNCHANGED registry ELSE Registry!RegisterIssuer(w)
    /\ Go(t, "saving")
    /\ UNCHANGED <<rows, directory, wallet, faults>>

setPendingConsentSession(t) ==
    /\ At(t, "saving")
    /\ pending' = [doc |-> tab[t].doc, request |-> None]
    /\ Go(t, "shown")
    /\ UNCHANGED <<registry, address, writes, astray, directory, wallet, faults>>

-----------------------------------------------------------------------------
(* wallet-consent: the wallet of the tab signed the documents it was shown;
   they must be the stored ones, and name that wallet.                      *)
Consent(t) ==
    /\ At(t, "shown")
    /\ pending # None /\ pending.doc = tab[t].doc
    /\ wallet[tab[t].doc] = tab[t].wallet
    /\ Go(t, "preparing")
    /\ UNCHANGED <<registry, rows, directory, wallet, faults>>

AnchorWrite(t, d) == [kind |-> "anchor", tab |-> t, doc |-> d]
RevokeWrite(t, d) == [kind |-> "revoke", tab |-> t, doc |-> d]

(* prepareAnchor simulated and saved; the patch goes to the row as it is now. *)
PrepareAnchor(t) ==
    LET d == tab[t].doc IN
    /\ At(t, "preparing")
    /\ Registry!CanAnchor(wallet[d], <<"mandate", d>>)
    /\ writes' = writes \cup {AnchorWrite(t, d)}
    /\ IF pending = None THEN UNCHANGED <<pending, astray>>
       ELSE /\ pending' = [pending EXCEPT !.request = AnchorWrite(t, d)]
            /\ astray' = IF pending.doc = d THEN astray ELSE astray \cup {pending.doc}
    /\ Go(t, "prepared")
    /\ UNCHANGED <<registry, address, directory, wallet, faults>>
PrepareRefused(t) ==
    /\ At(t, "preparing")
    /\ ~Registry!CanAnchor(wallet[tab[t].doc], <<"mandate", tab[t].doc>>)
    /\ Go(t, "shown")
    /\ UNCHANGED <<registry, rows, directory, wallet, faults>>

-----------------------------------------------------------------------------
(* wallet-anchor. *)

RequestUnchecked(t) == pending # None /\ pending.request # None
(* "falta requestId o signedXdr, o no coincide" *)
RequestMatches(t) == pending # None /\ pending.request = AnchorWrite(t, tab[t].doc)

Anchor(t) ==
    /\ At(t, "prepared")
    /\ RequestMatches(t)
    /\ tab' = [tab EXCEPT ![t] = [tab[t] EXCEPT !.pc = "submitting", !.row = pending.doc,
                                               !.write = AnchorWrite(t, tab[t].doc)]]
    /\ UNCHANGED <<registry, rows, directory, wallet, faults>>

-----------------------------------------------------------------------------
(* submitSigned, for both pages. *)

(* What a prepared write would do, and whether the contract lets it. *)
CanCall(c) ==
    LET w == wallet[c.doc]
        h == <<"mandate", c.doc>>
    IN  IF c.kind = "anchor" THEN Registry!CanAnchor(w, h) ELSE Registry!CanRevoke(w, h)
Call(c) ==
    LET w == wallet[c.doc]
        h == <<"mandate", c.doc>>
    IN  IF c.kind = "anchor" THEN Registry!Anchor(w, h) ELSE Registry!Revoke(w, h)

(* A write is taken once, and simulated again as it was stored. *)
Take(t) ==
    /\ tab[t].write \in writes
    /\ writes' = writes \ {tab[t].write}
    /\ UNCHANGED <<address, pending, astray>>
Submit(t) ==
    /\ At(t, "submitting")
    /\ Take(t)
    /\ CanCall(tab[t].write)
    /\ Go(t, "sending")
    /\ UNCHANGED <<registry, directory, wallet, faults>>
SubmitFails(t) ==
    /\ At(t, "submitting")
    /\ \/ tab[t].write \notin writes /\ UNCHANGED rows
       \/ Take(t) /\ ~CanCall(tab[t].write)
    /\ Close(t)
    /\ UNCHANGED <<registry, directory, wallet, faults>>

(* Only the hash of what was sent comes back. *)
Sent(t) ==
    /\ At(t, "sending")
    /\ Go(t, IF tab[t].page = "consent" THEN "crediting" ELSE "mirroring")
    /\ UNCHANGED <<address, pending, writes, directory, wallet>>
Send(t) ==
    /\ Sent(t)
    /\ Call(tab[t].write)
    /\ UNCHANGED <<astray, faults>>

(* The transaction is not compared with the write ... *)
SendOther(t, c) ==
    /\ Sent(t)
    /\ Fault
    /\ <<c.kind, c.doc>> # <<tab[t].write.kind, tab[t].write.doc>>
    /\ wallet[c.doc] # None /\ Call(c)
    /\ astray' = astray \cup {tab[t].row}
(* ... nor is its result read: it failed, or was no call of the registry. *)
SendInVain(t) ==
    /\ Sent(t)
    /\ IF CanCall(tab[t].write) THEN Fault ELSE UNCHANGED faults
    /\ astray' = astray \cup {tab[t].row}
    /\ UNCHANGED registry

(* It landed, and an error is answered. *)
SendAnsweredLate(t) ==
    /\ At(t, "sending")
    /\ Fault
    /\ Call(tab[t].write)
    /\ Close(t)
    /\ UNCHANGED <<rows, directory, wallet>>

-----------------------------------------------------------------------------
(* The rest of wallet-anchor: the row read before is recorded. *)

(* Hashes are unique in the directory: a second insert throws. *)
RecordCredential(t) ==
    LET d == tab[t].row IN
    /\ At(t, "crediting")
    /\ credentials' = credentials \cup {d}
    /\ IF d \in credentials THEN Close(t) ELSE Go(t, "recording")
    /\ UNCHANGED <<registry, rows, session, mandate, wallet, faults>>

RecordMandate(t) ==
    LET d == tab[t].row IN
    /\ At(t, "recording")
    /\ mandate' = [mandate EXCEPT ![d] = "active"]
    /\ Go(t, "completing")
    /\ UNCHANGED <<registry, rows, session, credentials, wallet, faults>>

CompleteOver(t) == TRUE
StillPending(t) == session = None
(* Completed already: it throws, and the mandate stays recorded. *)
CompleteConsentSession(t) ==
    /\ At(t, "completing")
    /\ IF StillPending(t) THEN session' = tab[t].row /\ Go(t, "deleting")
                          ELSE UNCHANGED session /\ Close(t)
    /\ UNCHANGED <<registry, rows, credentials, mandate, wallet, faults>>

DeletePending(t) ==
    /\ At(t, "deleting")
    /\ pending' = None /\ address' = None
    /\ Close(t)
    /\ UNCHANGED <<registry, writes, astray, directory, wallet, faults>>

-----------------------------------------------------------------------------
(* The revocation page. *)

RevokePrepare(t, d) ==
    /\ At(t, "idle")
    /\ mandate[d] = "active"
    /\ Registry!CanRevoke(wallet[d], <<"mandate", d>>)
    /\ writes' = writes \cup {RevokeWrite(t, d)}
    /\ tab' = [tab EXCEPT ![t] = [NewTab EXCEPT !.page = "revoke", !.pc = "revoking", !.doc = d,
                                                !.wallet = wallet[d]]]
    /\ UNCHANGED <<registry, address, pending, astray, directory, wallet, faults>>

(* The request names a write, and its URL a mandate: nothing ties the two.
   The page sends back what it was given.                                   *)
RevokeSubmit(t, w, d) ==
    /\ At(t, "revoking")
    /\ mandate[d] # "none"
    /\ IF w = RevokeWrite(t, tab[t].doc) /\ d = tab[t].doc THEN UNCHANGED faults ELSE Fault
    /\ astray' = IF w.kind = "revoke" /\ w.doc = d THEN astray ELSE astray \cup {d}
    /\ tab' = [tab EXCEPT ![t] = [tab[t] EXCEPT !.pc = "submitting", !.row = d, !.write = w]]
    /\ UNCHANGED <<registry, address, pending, writes, directory, wallet>>

(* The mandate of the URL is marked, whatever was submitted. *)
RevokeMandate(t) ==
    /\ At(t, "mirroring")
    /\ mandate' = [mandate EXCEPT ![tab[t].row] = "revoked"]
    /\ Close(t)
    /\ UNCHANGED <<registry, rows, session, credentials, wallet, faults>>

-----------------------------------------------------------------------------
(* A request dies wherever it is, with its process or its database. *)
Die(t) ==
    /\ tab[t].pc \notin Waiting
    /\ Fault
    /\ Close(t)
    /\ UNCHANGED <<registry, rows, directory, wallet>>

(* Rows live for minutes. *)
ExpirePending ==
    /\ pending # None /\ pending' = None
    /\ UNCHANGED <<registry, address, writes, astray, directory, wallet, tab, faults>>
ExpireWrite(w) ==
    /\ w \in writes /\ writes' = writes \ {w}
    /\ UNCHANGED <<registry, address, pending, astray, directory, wallet, tab, faults>>

Deactivate(w) ==
    /\ Registry!DeactivateIssuer(w)
    /\ UNCHANGED <<rows, directory, wallet, tab, faults>>

Step(t) ==
    \/ \E w \in Wallets : Verify(t, w)
    \/ StartConsentSession(t) \/ Issue(t) \/ ensureWalletIsRegisteredIssuer(t)
    \/ setPendingConsentSession(t)
    \/ Consent(t) \/ PrepareAnchor(t) \/ PrepareRefused(t)
    \/ Anchor(t)
    \/ Submit(t) \/ SubmitFails(t) \/ Send(t) \/ SendInVain(t) \/ SendAnsweredLate(t)
    \/ \E kind \in {"anchor", "revoke"}, d \in Docs : SendOther(t, [kind |-> kind, doc |-> d])
    \/ RecordCredential(t) \/ RecordMandate(t) \/ CompleteConsentSession(t) \/ DeletePending(t)
    \/ \E d \in Docs :
          \/ RevokePrepare(t, d)
          \/ \E w \in writes \cup {RevokeWrite(t, tab[t].doc)} : RevokeSubmit(t, w, d)
    \/ RevokeMandate(t)
    \/ Die(t)
Next ==
    \/ \E t \in Tabs : Step(t)
    \/ ExpirePending
    \/ \E w \in writes : ExpireWrite(w)
    \/ \E w \in Wallets : Deactivate(w)

Spec == Init /\ [][Next]_vars

-----------------------------------------------------------------------------
(* What the directory records as a mandate is on the chain, anchored by the
   wallet it names, and so is its credential: whatever tabs, wallets and
   failures interleave, unless it is astray.  That takes a start that replaced
   the row between wallet-consent's read and its patch, a request whose
   transaction is not the prepared one, or one that failed on the chain after
   it was simulated (server.ts:1849-1890, registry.ts:396-412).             *)
RecordedIsAnchored ==
    \A d \in Docs \ astray : mandate[d] # "none" =>
        /\ cred[<<"mandate", d>>] # None
        /\ cred[<<"mandate", d>>].issuer = wallet[d]
        /\ cred[<<"credential", d>>] # None
        /\ d \in credentials

(* A mandate the directory calls revoked is revoked on the chain, which is
   what a purchase is checked against; one it calls active can be revoked by
   the wallet it names, deactivated or not, a revocation whose mirror was lost
   included.  Neither is said of one astray, a URL's mandate that a request
   named beside another write or transaction among them (server.ts:2062-2091,
   lib.rs:242-247).                                                         *)
RevocationHolds ==
    \A d \in Docs \ astray :
        /\ mandate[d] = "revoked" => Registry!Revoked(<<"mandate", d>>)
        /\ mandate[d] = "active" => Registry!CanRevoke(wallet[d], <<"mandate", d>>)

(* A session completes once, with a mandate the directory has, and keeps it
   whoever signs afterwards (directory.ts:591, 1383-1405).                  *)
CompletedOnce ==
    /\ [](session # None => mandate[session] # "none")
    /\ [][session # None => session' = session]_vars
=============================================================================
