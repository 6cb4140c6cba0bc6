--------------------------- MODULE SpendingLedger ---------------------------
(***************************************************************************)
(* What the budget of a session promises whoever reads its counter, with   *)
(* no node, slot, stage or provider in sight.  The counter is a ledger of  *)
(* which many turns have a view.  A turn that sees less than the limit may *)
(* owe the cost of a call; it owes one cost at a time, which is posted to  *)
(* the ledger, once, or never.                                             *)
(***************************************************************************)
EXTENDS Naturals

CONSTANTS Turns, Limit, MaxCost,
          Brought        \* what the ledger may hold at first

VARIABLES total,         \* of the ledger
          begun,         \* the turns that have a view of it
          view,          \* what a turn takes to be spent
          owed           \* what it has spent and not posted

vars == <<total, begun, view, owed>>

Init == /\ total \in Brought
        /\ begun = {}
        /\ view = [t \in Turns |-> 0]
        /\ owed = [t \in Turns |-> 0]

\* A ledger that cannot be read is taken for an empty one.
Begin(t) ==
  /\ t \notin begun
  /\ begun' = begun \cup {t}
  /\ \E seen \in {total, 0} : view' = [view EXCEPT ![t] = seen]
  /\ UNCHANGED <<total, owed>>

Owe(t) ==
  /\ t \in begun
  /\ owed[t] = 0
  /\ view[t] < Limit
  /\ \E cost \in 1..MaxCost :
       /\ view' = [view EXCEPT ![t] = @ + cost]
       /\ owed' = [owed EXCEPT ![t] = cost]
  /\ UNCHANGED <<total, begun>>

\* The turn's own view knew of the cost before.
Post(t) ==
  /\ owed[t] > 0
  /\ total' = total + owed[t]
  /\ owed' = [owed EXCEPT ![t] = 0]
  /\ UNCHANGED <<begun, view>>

Forget(t) ==
  /\ owed[t] > 0
  /\ owed' = [owed EXCEPT ![t] = 0]
  /\ UNCHANGED <<total, begun, view>>

Next == \E t \in Turns : Begin(t) \/ Owe(t) \/ Post(t) \/ Forget(t)

Spec == Init /\ [][Next]_vars
=============================================================================
