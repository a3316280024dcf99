--------------------------- MODULE MCConsentFlow ----------------------------
(* Small instances of ConsentFlow for TLC. *)
EXTENDS ConsentFlow, TLC

ConsentSymmetry == Permutations(Tabs) \cup Permutations(Wallets) \cup Permutations(Docs)
=============================================================================
