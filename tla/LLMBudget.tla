------------------------------ MODULE LLMBudget ------------------------------
(***************************************************************************)
(* The turns of one session against its LLM budget: SessionLLMContext with *)
(* its slots, BudgetTracker with its counter in memory and in Redis, and   *)
(* LLMFactory with the circuit breaker of a provider.                      *)
(*                                                                         *)
(* Every turn has a context of its own; only the counter in Redis and the  *)
(* breaker are shared.  Nodes ask for a client, call it and record what it *)
(* cost.  As deployed no node calls record() and nothing mark_degraded();  *)
(* the module takes the nodes to do what the unit tests of the tracker do. *)
(*                                                                         *)
(* Amounts are in units of the smallest cost.  The clients of all slots    *)
(* are one SDK object per provider, so a slot is known by its feature.     *)
(***************************************************************************)
EXTENDS Naturals

CONSTANTS Turns,
          Caution, Critical, Limit,   \* _CAUTION_USD, _CRITICAL_USD, _LIMIT_USD
          MaxCost,                    \* the most one call costs
          Stored                      \* what the counter may hold at first

ASSUME BudgetAssumption ==
  /\ Caution \in Nat /\ Critical \in Nat /\ Limit \in Nat \ {0} /\ MaxCost \in Nat
  /\ Caution <= Critical /\ Critical <= Limit
  /\ Stored \subseteq Nat

VARIABLES
  counter,     \* budget:{workspace}:{session}:total_usd in Redis
  degraded,    \* providers whose circuit is open
  node,        \* the feature the turn's node asks for
  doing,       \* what the node awaits
  review,      \* the session is in ReviewAndSignOff
  slots,       \* SessionLLMContext._slots
  spent,       \* BudgetTracker._spent_usd
  due,         \* the cost that record() is about to persist
  unsaved      \* what record() added to spent and not to the counter

vars == <<counter, degraded, node, doing, review, slots, spent, due, unsaved>>

------------------------------------------------------------------------------
Providers == {"anthropic", "voyage", "openai", "google"}

Guidance == {"brd_generation", "requirement_refinement"}

\* The features of LLMFeature that nodes ask for.
Features == {"intent_classification", "data_transformation", "rag_synthesis"} \cup Guidance

FunctionMap ==
  [f \in Features |-> CASE f = "brd_generation" -> "premium"
                        [] f = "requirement_refinement" -> "standard"
                        [] OTHER -> "fast"]

Stage(s) ==
  CASE s >= Limit -> "exhausted"
    [] s >= Critical /\ s < Limit -> "critical"
    [] s >= Caution /\ s < Critical -> "caution"
    [] OTHER -> "normal"

\* _BUDGET_OVERRIDES of the features above.
Override(f, stage) ==
  CASE f = "brd_generation" /\ stage \in {"caution", "critical"} -> "standard"
    [] f \in {"requirement_refinement", "rag_synthesis"} /\ stage = "critical" -> "fast"
    [] OTHER -> "None"

ResolveTier(f, stage) ==
  IF Override(f, stage) # "None" THEN Override(f, stage) ELSE FunctionMap[f]

ProviderForTier(tier) ==
  CASE tier = "embedding" -> "voyage"
    [] tier = "stt" -> "openai"
    [] OTHER -> "anthropic"

Fallback(provider) ==
  CASE provider = "voyage" -> "openai"
    [] OTHER -> "google"

\* _build_client: the client of "google" is not wired.
Wired == Providers \ {"google"}

Init ==
  /\ counter \in Stored
  /\ degraded = {}
  /\ node = [t \in Turns |-> "new"]
  /\ doing = [t \in Turns |-> "none"]
  /\ review \in BOOLEAN
  /\ slots = [t \in Turns |-> {}]
  /\ spent = [t \in Turns |-> 0]
  /\ due = [t \in Turns |-> 0]
  /\ unsaved = [t \in Turns |-> 0]

\* BudgetTracker.load: without an answer of Redis, nothing is spent.
Loaded == {counter, 0}

\* SessionLLMContextFactory.for_turn.
ForTurn(t) ==
  /\ node[t] = "new"
  /\ node' = [node EXCEPT ![t] = "intent_classification"]
  /\ doing' = [doing EXCEPT ![t] = "asking"]
  /\ \E s \in Loaded : spent' = [spent EXCEPT ![t] = s]
  /\ UNCHANGED <<counter, degraded, review, slots, due, unsaved>>

------------------------------------------------------------------------------
(* The nodes *)

\* The nodes after this one: a revisit goes from intent to guidance.
Following(t) ==
  LET guidance == {IF review THEN "brd_generation" ELSE "requirement_refinement"}
  IN CASE node[t] = "intent_classification" -> {"data_transformation"} \cup guidance
       [] node[t] = "data_transformation" -> {"rag_synthesis"}
       [] node[t] = "rag_synthesis" -> guidance
       [] OTHER -> {"ended"}

GoOn(t) ==
  \E n \in Following(t) :
    /\ node' = [node EXCEPT ![t] = n]
    /\ doing' = [doing EXCEPT ![t] = IF n = "ended" THEN "none" ELSE "asking"]

\* LLMFactory.create gives a client of the provider or of a wired fallback.
Creates(f, stage) ==
  LET provider == ProviderForTier(ResolveTier(f, stage))
  IN (IF provider \in degraded THEN Fallback(provider) ELSE provider) \in Wired

\* Mutated form: the budget is looked at when the first slot is filled.
AvailableOnce(t) ==
  slots[t] # {} \/ (Stage(spent[t]) # "exhausted" /\ Creates(node[t], Stage(spent[t])))

Available(t) ==
  \/ node[t] \in slots[t]
  \/ Stage(spent[t]) # "exhausted" /\ Creates(node[t], Stage(spent[t]))

Get(t) ==
  /\ doing[t] = "asking"
  /\ Available(t)
  /\ slots' = [slots EXCEPT ![t] = @ \cup {node[t]}]
  /\ doing' = [doing EXCEPT ![t] = "calling"]
  /\ UNCHANGED <<counter, degraded, node, review, spent, due, unsaved>>

\* BudgetExhaustedError or NotImplementedError: the node's default stands.
Refused(t) ==
  /\ doing[t] = "asking"
  /\ ~Available(t)
  /\ GoOn(t)
  /\ UNCHANGED <<counter, degraded, review, slots, spent, due, unsaved>>

\* A call that fails or runs into the node's timeout is not recorded.
CallFails(t) ==
  /\ doing[t] = "calling"
  /\ GoOn(t)
  /\ UNCHANGED <<counter, degraded, review, slots, spent, due, unsaved>>

\* record(): the counter in memory first, then INCRBYFLOAT.
Record(t) ==
  /\ doing[t] = "calling"
  /\ doing' = [doing EXCEPT ![t] = "persisting"]
  /\ \E cost \in 1..MaxCost :
       /\ spent' = [spent EXCEPT ![t] = @ + cost]
       /\ due' = [due EXCEPT ![t] = cost]
       /\ unsaved' = [unsaved EXCEPT ![t] = @ + cost]
  /\ UNCHANGED <<counter, degraded, node, review, slots>>

\* Mutated form: the counter is read in for_turn and written back here.
IncrementedBySet(t) == spent[t]

Incremented(t) == counter + due[t]

\* Mutated form: the cost is still due when it is persisted.
SettledNot(t) == due

Settled(t) == [due EXCEPT ![t] = 0]

\* An error is logged; the increment may have been made.
Persist(t) ==
  /\ doing[t] = "persisting"
  /\ \/ /\ counter' = Incremented(t)
        /\ unsaved' = [unsaved EXCEPT ![t] = @ - due[t]]
     \/ UNCHANGED <<counter, unsaved>>
  /\ due' = Settled(t)
  /\ GoOn(t)
  /\ UNCHANGED <<degraded, review, slots, spent>>

\* mark_degraded, and the end of its 60 seconds.
Breaker ==
  /\ degraded' \in {{"anthropic"}, {}} \ {degraded}
  /\ UNCHANGED <<counter, node, doing, review, slots, spent, due, unsaved>>

------------------------------------------------------------------------------
Turn(t) == Get(t) \/ Refused(t) \/ CallFails(t) \/ Record(t) \/ Persist(t)

Next == Breaker \/ \E t \in Turns : ForTurn(t) \/ Turn(t)

Spec == Init /\ [][Next]_vars

------------------------------------------------------------------------------
(* Properties. *)

\* Every variable stays in its type; a cost is due while it is being persisted.
TypeOK ==
  /\ counter \in Nat
  /\ degraded \subseteq Providers
  /\ node \in [Turns -> Features \cup {"new", "ended"}]
  /\ doing \in [Turns -> {"none", "asking", "calling", "persisting"}]
  /\ review \in BOOLEAN
  /\ slots \in [Turns -> SUBSET Features]
  /\ spent \in [Turns -> Nat]
  /\ due \in [Turns -> 0..MaxCost]
  /\ unsaved \in [Turns -> Nat]
  /\ \A t \in Turns :
       /\ node[t] \in Features <=> doing[t] # "none"
       /\ doing[t] # "persisting" => due[t] = 0
       /\ due[t] <= unsaved[t]
       /\ unsaved[t] <= spent[t]

\* No turn thinks that more was spent than the session's counter says, but for
\* what Redis did not take of its own: concurrent turns lose no update of each
\* other, and none is refused because of money nobody spent.
NeverOverstates == \A t \in Turns : spent[t] <= counter + unsaved[t]

\* The limit is looked at when a slot is filled only, yet a turn that spends goes
\* over it by less than one call: each node of a turn asks for a feature of its own.
TurnStopsAtLimit == \A t \in Turns : slots[t] # {} => spent[t] < Limit + MaxCost
=============================================================================
