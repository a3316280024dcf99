--------------------------- MODULE MCAgentResolve ---------------------------
(* Small instances of AgentResolve, with its registry, for TLC. *)
EXTENDS AgentResolve, TLC

Symmetry == Permutations(Hashes) \cup Permutations(Merchants)
=============================================================================
