--------------------------- MODULE LLMBudgetProofs ---------------------------
(***************************************************************************)
(* What holds of LLMBudget for every number of turns, every limit and every*)
(* cost.  The invariant is a conjunction over the turns; a step of one     *)
(* turn leaves the others as they are but for the counter, which only      *)
(* grows.                                                                  *)
(***************************************************************************)
EXTENDS LLMBudgetRefinement, TLAPS

\* The features a turn may have asked for before it comes to feature f.
Earlier(f) ==
  CASE f = "intent_classification" -> {}
    [] f = "data_transformation" -> {"intent_classification"}
    [] f = "rag_synthesis" -> {"intent_classification", "data_transformation"}
    [] OTHER -> {"intent_classification", "data_transformation", "rag_synthesis"}

\* A context is empty before for_turn; its slots are those of the nodes passed,
\* so that a node never finds its own slot filled; and a client was given, or a
\* call is under way, below the limit only.
TurnInv(t) ==
  /\ node[t] = "new" => slots[t] = {} /\ unsaved[t] = 0 /\ spent[t] = 0
  /\ doing[t] = "asking" => slots[t] \subseteq Earlier(node[t])
  /\ node[t] \in Features => slots[t] \subseteq Earlier(node[t]) \cup {node[t]}
  /\ doing[t] = "calling" => spent[t] < Limit
  /\ spent[t] <= counter + unsaved[t]
  /\ slots[t] # {} => spent[t] < Limit + MaxCost

Inv == TypeOK /\ \A t \in Turns : TurnInv(t)

\* Where a node's turn goes on to, the node's own feature is an earlier one.
LEMMA GoingOn ==
  ASSUME TypeOK, NEW t \in Turns, node[t] \in Features, GoOn(t)
  PROVE  \E n \in Features \cup {"ended"} :
           /\ node' = [node EXCEPT ![t] = n]
           /\ doing' = [doing EXCEPT ![t] = IF n = "ended" THEN "none" ELSE "asking"]
           /\ n \in Features => Earlier(node[t]) \cup {node[t]} \subseteq Earlier(n)
<1>1. PICK n \in Following(t) :
        /\ node' = [node EXCEPT ![t] = n]
        /\ doing' = [doing EXCEPT ![t] = IF n = "ended" THEN "none" ELSE "asking"]
  BY DEF GoOn
<1>2. n \in Features \cup {"ended"}
  BY <1>1 DEF Following, Features, Guidance
<1>3. ASSUME n \in Features
      PROVE  Earlier(node[t]) \cup {node[t]} \subseteq Earlier(n)
  BY <1>1, <1>3 DEF Following, Features, Guidance, Earlier
<1>4. QED
  BY <1>1, <1>2, <1>3

\* A stage other than exhausted means that the limit is not reached.
LEMMA Below ==
  ASSUME NEW s \in Nat, Stage(s) # "exhausted"
  PROVE  s < Limit
BY BudgetAssumption DEF Stage

LEMMA Initially == Init => Inv
BY BudgetAssumption DEF Init, Inv, TypeOK, TurnInv, Providers, Features, Guidance

\* The invariant is kept by every step.
LEMMA Kept == Inv /\ [Next]_vars => Inv'
<1> SUFFICES ASSUME Inv, [Next]_vars PROVE Inv'
  OBVIOUS
<1> USE BudgetAssumption
<1>1. ASSUME NEW t \in Turns, ForTurn(t) PROVE Inv'
  BY <1>1 DEF ForTurn, Loaded, Inv, TypeOK, TurnInv, Features, Earlier
<1>2. ASSUME NEW t \in Turns, Get(t) PROVE Inv'
  <2>1. node[t] \in Features /\ node[t] \notin slots[t]
    BY <1>2 DEF Get, Inv, TypeOK, TurnInv, Features, Guidance, Earlier
  <2>2. spent[t] < Limit
    BY <1>2, <2>1, Below DEF Get, Available, Inv, TypeOK
  <2>3. TypeOK'
    BY <1>2, <2>1 DEF Get, Inv, TypeOK
  <2>4. ASSUME NEW u \in Turns PROVE TurnInv(u)'
    BY <1>2, <2>1, <2>2 DEF Get, Inv, TypeOK, TurnInv, Features, Guidance
  <2>5. QED
    BY <2>3, <2>4 DEF Inv
<1>3. ASSUME NEW t \in Turns, Refused(t) \/ CallFails(t) PROVE Inv'
  <2>1. node[t] \in Features /\ GoOn(t) /\ due[t] = 0
    BY <1>3 DEF Refused, CallFails, Inv, TypeOK
  <2>2. PICK n \in Features \cup {"ended"} :
          /\ node' = [node EXCEPT ![t] = n]
          /\ doing' = [doing EXCEPT ![t] = IF n = "ended" THEN "none" ELSE "asking"]
          /\ n \in Features => Earlier(node[t]) \cup {node[t]} \subseteq Earlier(n)
    BY <2>1, GoingOn DEF Inv
  <2>3. UNCHANGED <<counter, degraded, review, slots, spent, due, unsaved>>
    BY <1>3 DEF Refused, CallFails
  <2>4. TypeOK'
    BY <2>1, <2>2, <2>3 DEF Inv, TypeOK, Features, Guidance
  <2>5. ASSUME NEW u \in Turns PROVE TurnInv(u)'
    BY <2>1, <2>2, <2>3 DEF Inv, TypeOK, TurnInv, Features, Guidance
  <2>6. QED
    BY <2>4, <2>5 DEF Inv
<1>4. ASSUME NEW t \in Turns, Record(t) PROVE Inv'
  <2>1. PICK cost \in 1..MaxCost :
          /\ spent' = [spent EXCEPT ![t] = @ + cost]
          /\ due' = [due EXCEPT ![t] = cost]
          /\ unsaved' = [unsaved EXCEPT ![t] = @ + cost]
    BY <1>4 DEF Record
  <2>2. TypeOK'
    BY <1>4, <2>1 DEF Record, Inv, TypeOK
  <2>3. ASSUME NEW u \in Turns PROVE TurnInv(u)'
    <3>1. CASE u = t
      <4>1. /\ doing'[t] = "persisting" /\ node'[t] = node[t] /\ node[t] # "new"
            /\ slots'[t] = slots[t] /\ counter' = counter
            /\ spent'[t] = spent[t] + cost /\ unsaved'[t] = unsaved[t] + cost
        BY <1>4, <2>1 DEF Record, Inv, TypeOK, Features, Guidance
      <4>2. /\ spent[t] \in Nat /\ unsaved[t] \in Nat /\ counter \in Nat /\ spent[t] < Limit
            /\ spent[t] <= counter + unsaved[t]
            /\ node[t] \in Features => slots[t] \subseteq Earlier(node[t]) \cup {node[t]}
        BY <1>4 DEF Record, Inv, TypeOK, TurnInv
      <4>3. spent'[t] < Limit + MaxCost /\ spent'[t] <= counter' + unsaved'[t]
        BY <4>1, <4>2
      <4>4. QED
        BY <3>1, <4>1, <4>2, <4>3 DEF TurnInv, Earlier
    <3>2. CASE u # t
      BY <3>2, <1>4, <2>1 DEF Record, Inv, TypeOK, TurnInv
    <3>3. QED
      BY <3>1, <3>2
  <2>4. QED
    BY <2>2, <2>3 DEF Inv
<1>5. ASSUME NEW t \in Turns, Persist(t) PROVE Inv'
  <2>1. node[t] \in Features /\ GoOn(t)
    BY <1>5 DEF Persist, Inv, TypeOK
  <2>2. PICK n \in Features \cup {"ended"} :
          /\ node' = [node EXCEPT ![t] = n]
          /\ doing' = [doing EXCEPT ![t] = IF n = "ended" THEN "none" ELSE "asking"]
          /\ n \in Features => Earlier(node[t]) \cup {node[t]} \subseteq Earlier(n)
    BY <2>1, GoingOn DEF Inv
  <2>3. /\ due' = [due EXCEPT ![t] = 0]
        /\ UNCHANGED <<degraded, review, slots, spent>>
    BY <1>5 DEF Persist, Settled
  <2>4. \/ counter' = counter + due[t] /\ unsaved' = [unsaved EXCEPT ![t] = @ - due[t]]
        \/ UNCHANGED <<counter, unsaved>>
    BY <1>5 DEF Persist, Incremented
  <2>5. TypeOK'
    BY <2>1, <2>2, <2>3, <2>4 DEF Inv, TypeOK, Features, Guidance
  <2>6. ASSUME NEW u \in Turns PROVE TurnInv(u)'
    BY <2>1, <2>2, <2>3, <2>4 DEF Inv, TypeOK, TurnInv, Features, Guidance
  <2>7. QED
    BY <2>5, <2>6 DEF Inv
<1>6. CASE Breaker
  BY <1>6 DEF Breaker, Inv, TypeOK, TurnInv, Providers
<1>7. CASE UNCHANGED vars
  BY <1>7 DEF vars, Inv, TypeOK, TurnInv
<1>8. QED
  BY <1>1, <1>2, <1>3, <1>4, <1>5, <1>6, <1>7 DEF Next, Turn

LEMMA Invariant == Spec => []Inv
<1>1. QED
  BY Initially, Kept, PTL DEF Spec

\* Counters and slots stay well formed, and a cost is due only while it is being
\* persisted.
THEOREM TypeCorrect == Spec => []TypeOK
<1>1. Inv => TypeOK
  BY DEF Inv
<1>2. QED
  BY <1>1, Invariant, PTL

\* No update of the shared counter is lost: a turn's own view exceeds it by what
\* Redis did not take of that turn, and by nothing else.
THEOREM NothingOverstated == Spec => []NeverOverstates
<1>1. Inv => NeverOverstates
  BY DEF Inv, TurnInv, NeverOverstates
<1>2. QED
  BY <1>1, Invariant, PTL

\* A turn that spends goes over the limit by less than one call, however many
\* turns of the session run.
THEOREM StopsAtLimit == Spec => []TurnStopsAtLimit
<1>1. Inv => TurnStopsAtLimit
  BY DEF Inv, TurnInv, TurnStopsAtLimit
<1>2. QED
  BY <1>1, Invariant, PTL

------------------------------------------------------------------------------
(* The ledger.  A step that touches none of counter, views and costs, and    *)
(* begins no turn, is a stutter of it; the others are one step each.         *)

Begun == {t \in Turns : node[t] # "new"}

LEMMA SameLedger ==
  ASSUME UNCHANGED <<counter, spent, due>>, Begun' = Begun
  PROVE  UNCHANGED Ledger!vars
BY DEF Begun, Ledger!vars

\* A node of a turn under way has a successor, or the turn is over: neither is new.
LEMMA BegunStays ==
  ASSUME TypeOK, NEW t \in Turns, node[t] \in Features,
         NEW n \in Features \cup {"ended"}, node' = [node EXCEPT ![t] = n]
  PROVE  Begun' = Begun
BY DEF Begun, TypeOK, Features, Guidance

LEMMA ForTurnBegins ==
  ASSUME TypeOK, NEW t \in Turns, ForTurn(t)
  PROVE  Ledger!Begin(t)
<1>1. /\ node[t] = "new" /\ node' = [node EXCEPT ![t] = "intent_classification"]
      /\ \E s \in {counter, 0} : spent' = [spent EXCEPT ![t] = s]
      /\ UNCHANGED <<counter, due>>
  BY DEF ForTurn, Loaded
<1>2. t \notin Begun /\ Begun' = Begun \cup {t}
  BY <1>1 DEF Begun, TypeOK
<1>3. QED
  BY <1>1, <1>2 DEF Begun, Ledger!Begin

LEMMA RecordOwes ==
  ASSUME Inv, NEW t \in Turns, Record(t)
  PROVE  Ledger!Owe(t)
<1>1. /\ node[t] # "new" /\ due[t] = 0 /\ spent[t] < Limit
  BY DEF Record, Inv, TypeOK, TurnInv, Features, Guidance
<1>2. /\ \E cost \in 1..MaxCost : /\ spent' = [spent EXCEPT ![t] = @ + cost]
                                  /\ due' = [due EXCEPT ![t] = cost]
      /\ UNCHANGED <<counter, node>>
  BY DEF Record
<1>3. t \in Begun /\ Begun' = Begun
  BY <1>1, <1>2 DEF Begun
<1>4. QED
  BY <1>1, <1>2, <1>3 DEF Begun, Ledger!Owe

LEMMA PersistPosts ==
  ASSUME Inv, NEW t \in Turns, Persist(t)
  PROVE  Ledger!Post(t) \/ Ledger!Forget(t) \/ UNCHANGED Ledger!vars
<1>1. node[t] \in Features /\ GoOn(t)
  BY DEF Persist, Inv, TypeOK
<1>2. Begun' = Begun
  BY <1>1, GoingOn, BegunStays DEF Inv
<1>3. /\ due' = [due EXCEPT ![t] = 0] /\ spent' = spent
      /\ counter' = counter + due[t] \/ counter' = counter
  BY DEF Persist, Settled, Incremented
<1>4. due \in [Turns -> 0..MaxCost] /\ counter \in Nat
  BY DEF Inv, TypeOK
<1>5. CASE due[t] > 0
  BY <1>2, <1>3, <1>5 DEF Begun, Ledger!Post, Ledger!Forget
<1>6. CASE due[t] = 0
  <2>1. due' = due /\ counter' = counter
    BY <1>3, <1>4, <1>6
  <2>2. QED
    BY <1>2, <1>3, <2>1, SameLedger
<1>7. QED
  BY BudgetAssumption, <1>4, <1>5, <1>6

LEMMA StepIsLedgerStep ==
  ASSUME Inv, [Next]_vars
  PROVE  [Ledger!Next]_(Ledger!vars)
<1>1. ASSUME NEW t \in Turns, ForTurn(t)
      PROVE  Ledger!Next
  BY <1>1, ForTurnBegins DEF Inv, Ledger!Next
<1>2. ASSUME NEW t \in Turns, Get(t)
      PROVE  UNCHANGED Ledger!vars
  BY <1>2, SameLedger DEF Get, Begun
<1>3. ASSUME NEW t \in Turns, Refused(t) \/ CallFails(t)
      PROVE  UNCHANGED Ledger!vars
  <2>1. node[t] \in Features /\ GoOn(t) /\ UNCHANGED <<counter, spent, due>>
    BY <1>3 DEF Refused, CallFails, Inv, TypeOK
  <2>2. Begun' = Begun
    BY <2>1, GoingOn, BegunStays DEF Inv
  <2>3. QED
    BY <2>1, <2>2, SameLedger
<1>4. ASSUME NEW t \in Turns, Record(t)
      PROVE  Ledger!Next
  BY <1>4, RecordOwes DEF Ledger!Next
<1>5. ASSUME NEW t \in Turns, Persist(t)
      PROVE  [Ledger!Next]_(Ledger!vars)
  BY <1>5, PersistPosts DEF Ledger!Next
<1>6. CASE Breaker
  BY <1>6, SameLedger DEF Breaker, Begun
<1>7. CASE UNCHANGED vars
  BY <1>7, SameLedger DEF vars, Begun
<1>8. QED
  BY <1>1, <1>2, <1>3, <1>4, <1>5, <1>6, <1>7 DEF Next, Turn

(* The halves of record(), with an await between them in any number of turns *)
(* that spend side by side, and a Redis that fails with effect or without:   *)
(* what is seen of them is a ledger to which every cost is posted once or    *)
(* not at all, and owed by nobody who had seen the limit.                    *)
THEOREM BudgetImplementsLedger == Spec => ImplementsLedger
<1>1. Init => Ledger!Init
  BY DEF Init, Ledger!Init
<1>2. Inv /\ [Next]_vars => [Ledger!Next]_(Ledger!vars)
  BY StepIsLedgerStep
<1>3. QED
  BY <1>1, <1>2, Invariant, PTL DEF Spec, ImplementsLedger, Ledger!Spec
=============================================================================
