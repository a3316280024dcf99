----------------------------- MODULE TokenUnits -----------------------------
(***************************************************************************)
(* Sums of token amounts as sets of token units.  A contract that keeps one *)
(* running total of many entries' amounts promises that the total is their  *)
(* sum; said as a cardinality, that promise can be proved for any number of *)
(* entries from the theorems about finite sets.                             *)
(***************************************************************************)
EXTENDS Integers, FiniteSets

(* The units behind the entries: unit i of entry e is <<e, i>>. *)
Units(entries, bound, amount) ==
    {u \in entries \X (1..bound) : u[2] <= amount[u[1]]}

(* The sum of amount[e] over all entries, for amounts up to bound. *)
Total(entries, bound, amount) == Cardinality(Units(entries, bound, amount))
=============================================================================
