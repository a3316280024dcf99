--------------------------- MODULE MCUcpCheckout ----------------------------
(* Small instances of UcpCheckout for TLC. *)
EXTENDS UcpCheckout, TLC

(* Every payment is signed for two: one unit at two, or two units at one. *)
AmountOfTwo == [p \in Payments |-> 2]

Symmetry == Permutations(Requests) \cup Permutations(Sessions) \cup Permutations(Payments)
=============================================================================
