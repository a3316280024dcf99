--------------------------- MODULE AgentRegistry ----------------------------
(***************************************************************************)
(* contracts/agent-registry: the registered issuers and the anchored hashes *)
(* of credentials and mandates.  An action is one successful invocation;    *)
(* one that fails changes nothing.  Subjects, expiry dates, metadata hashes *)
(* and the lives of storage entries are left out.                           *)
(***************************************************************************)
CONSTANTS Addresses, Hashes, None

VARIABLES
    issuer,  \* IssuerRecord: "none", "active" or "inactive"
    cred     \* CredRecord: None, or who anchored the hash and whether it is revoked

Init ==
    /\ issuer = [a \in Addresses |-> "none"]
    /\ cred = [h \in Hashes |-> None]

(* Admin only.  Registers, or activates again. *)
RegisterIssuer(a) ==
    /\ issuer' = [issuer EXCEPT ![a] = "active"]
    /\ UNCHANGED cred

(* Admin only.  What is anchored keeps its own status. *)
DeactivateIssuer(a) ==
    /\ issuer[a] # "none"
    /\ issuer' = [issuer EXCEPT ![a] = "inactive"]
    /\ UNCHANGED cred

CanAnchor(a, h) == issuer[a] = "active" /\ cred[h] = None
Anchor(a, h) ==
    /\ CanAnchor(a, h)
    /\ cred' = [cred EXCEPT ![h] = [issuer |-> a, revoked |-> FALSE]]
    /\ UNCHANGED issuer

CanRevokeActive(a, h) == cred[h] # None /\ cred[h].issuer = a /\ issuer[a] = "active"
(* By the issuer that anchored it, deactivated or not; twice is no error. *)
CanRevoke(a, h) == cred[h] # None /\ cred[h].issuer = a
Revoke(a, h) ==
    /\ CanRevoke(a, h)
    /\ cred' = [cred EXCEPT ![h].revoked = TRUE]
    /\ UNCHANGED issuer

Revoked(h) == cred[h] # None /\ cred[h].revoked
=============================================================================
