-------------------------- MODULE MCPurchaseEscrow --------------------------
(* Small instances of PurchaseEscrow for TLC. *)
EXTENDS PurchaseEscrow
=============================================================================
