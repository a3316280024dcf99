------------------------- MODULE MCTenantPurchase ---------------------------
(* Small instances of TenantPurchase for TLC. *)
EXTENDS TenantPurchase, TLC

RequestSymmetry == Permutations(Requests)
=============================================================================
