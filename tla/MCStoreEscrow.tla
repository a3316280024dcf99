--------------------------- MODULE MCStoreEscrow ----------------------------
(* Small instances of StoreEscrow for TLC. *)
EXTENDS StoreEscrow, TLC

(* An order names its own payment, so the two are permuted together. *)
Symmetry == Permutations(Orders)
=============================================================================
