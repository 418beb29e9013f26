---------------------------- MODULE MCBudgetGuard ---------------------------
(* Small instances of BudgetGuard for TLC. *)
EXTENDS BudgetGuard, TLC

CONSTANTS a1, a2, a3

ClientSymmetry == Permutations({a1, a2, a3})
=============================================================================
