---------------------------- MODULE MCPolicyRail ----------------------------
(* Small instances of PolicyRail for TLC. *)
EXTENDS PolicyRail, TLC

Symmetry == Permutations(RailKeys)
=============================================================================
