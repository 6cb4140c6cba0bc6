------------------------ MODULE LLMBudgetRefinement ------------------------
(***************************************************************************)
(* LLMBudget implements SpendingLedger.  The nodes, their slots and the    *)
(* breaker are not mapped: however clients are given and kept, the limit   *)
(* is seen before every call that costs.                                   *)
(***************************************************************************)
EXTENDS LLMBudget

Ledger == INSTANCE SpendingLedger WITH
  Brought <- Stored,
  total   <- counter,
  begun   <- {t \in Turns : node[t] # "new"},
  view    <- spent,
  owed    <- due

(* record() of turns that run side by side is bookkeeping: the counter moves *)
(* by the cost of one call, once for each call or not at all, and no call is *)
(* paid for by a turn that has seen the limit reached, though the budget is  *)
(* looked at only where a slot is filled.                                    *)
ImplementsLedger == Ledger!Spec
=============================================================================
