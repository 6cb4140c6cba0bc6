---------------------------- MODULE MCLLMBudget ----------------------------
(* Instances of LLMBudget for TLC. *)
EXTENDS LLMBudgetRefinement, TLC

Symmetry == Permutations(Turns)
=============================================================================
