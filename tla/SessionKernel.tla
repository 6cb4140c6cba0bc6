--------------------------- MODULE SessionKernel ---------------------------
(***************************************************************************)
(* The value level of the Rust state-machine kernel: what one SessionState *)
(* holds, how a turn result, a transition request and a revisit change it, *)
(* and how the acceptance criteria and the upload gates judge it.          *)
(* Everything here is a pure operator on a session record; the service     *)
(* that keeps the sessions is module StateEngine.                          *)
(*                                                                         *)
(* Data abstraction.  Of an Option, bool or Vec<String> the code only asks *)
(* whether it is set or non-empty, so `fields' is the set of those that    *)
(* are.  Actors, requirements and constraints are pushed without any       *)
(* de-duplication and only ever counted by class, so `captured' counts     *)
(* them.  Assumptions and open questions are de-duplicated, so they are    *)
(* sets.                                                                   *)
(***************************************************************************)
EXTENDS Integers, FiniteSets, Sequences

CONSTANT Notes    \* the texts an assumption or a gap entity may carry

------------------------------------------------------------------------------
(* Phases, in the order the enum declares them. *)

Rank == [ProblemIntake          |-> 1,
         StakeholderDiscovery   |-> 2,
         RequirementElicitation |-> 3,
         ConstraintCapture      |-> 4,
         ArchitectureAlignment  |-> 5,
         ReviewAndSignOff       |-> 6,
         SignedOff              |-> 7]

Phases == DOMAIN Rank

ValidTransitions(p) == {q \in Phases : Rank[q] = Rank[p] + 1}

IsTerminal(p) == p = "SignedOff"

------------------------------------------------------------------------------
(* The session record. *)

GateFields == {"brd_artifact_id", "hld_artifact_id", "client_signature_confirmed"}

Fields == GateFields \cup
  {"problem_statement", "business_domain", "primary_goal", "pain_points",
   "scope_boundaries", "external_systems", "success_definition",
   "architecture_approach", "deployment_environment", "documents_indexed"}

\* None, Some("") and Some(text): the gate tells the last two apart.
RegulatoryContexts == {"None", "Empty", "Named"}

\* An entity of one of the three types that are pushed, with the class the
\* keywords in its text give it.
ActorEntities == [type : {"actor"}, value : {"decision_maker", "other"}]

RequirementEntities == [type : {"requirement"}, value : {"Functional", "NonFunctional"}]

ConstraintEntities ==
  [type : {"constraint"}, value : {"Budget", "Timeline", "Technology",
                                   "Regulatory", "DataResidency", "Other"}]

ListedEntities == ActorEntities \cup RequirementEntities \cup ConstraintEntities

Entities == ListedEntities \cup
            [type : {"assumption", "gap", "unknown"}, value : Notes]

\* AC-S3-U1 is <<3, "U1">>.
Criterion == (1..6) \X {"01", "02", "03", "04", "05", "U1", "U2"}

AcUpdates == [criterion : Criterion, met : BOOLEAN]

TurnResults == [entities : Seq(Entities), ac_updates : Seq(AcUpdates),
                cost : Nat, turn_count_delta : Int]

RevisitRecords == [from : Phases, to : Phases]

Sessions ==
  [current_phase      : Phases,
   fields             : SUBSET Fields,
   regulatory_context : RegulatoryContexts,
   captured           : [ListedEntities -> Nat],
   assumptions        : SUBSET Notes,
   open_questions     : SUBSET Notes,
   ac_met             : SUBSET Criterion,
   ac_waived          : SUBSET Criterion,
   revisit_target     : Phases \cup {"None"},
   revisit_history    : Seq(RevisitRecords),
   total_cost         : Nat,
   turn_count         : Nat]

NewSession ==
  [current_phase      |-> "ProblemIntake",
   fields             |-> {},
   regulatory_context |-> "None",
   captured           |-> [e \in ListedEntities |-> 0],
   assumptions        |-> {},
   open_questions     |-> {},
   ac_met             |-> {},
   ac_waived          |-> {},
   revisit_target     |-> "None",
   revisit_history    |-> <<>>,
   total_cost         |-> 0,
   turn_count         |-> 0]

------------------------------------------------------------------------------
(* Applying a turn result.  The handler runs one loop over the entities    *)
(* and one over the criterion updates; these operators give what the loops *)
(* leave behind (module TurnLoop steps through the loops themselves).      *)

Valued(es, type) == {es[i].value : i \in {j \in DOMAIN es : es[j].type = type}}

\* Mutated form: the notes of the turn replace the earlier ones.
ApplyEntitiesReplacing(s, es) ==
  [s EXCEPT
     !.captured = [e \in ListedEntities |->
                     @[e] + Cardinality({i \in DOMAIN es : es[i] = e})],
     !.assumptions    = Valued(es, "assumption"),
     !.open_questions = Valued(es, "gap")]

\* Listed entities are pushed once per occurrence, noted ones once per text,
\* and an entity of unknown type is skipped with a warning.
ApplyEntities(s, es) ==
  [s EXCEPT
     !.captured = [e \in ListedEntities |->
                     @[e] + Cardinality({i \in DOMAIN es : es[i] = e})],
     !.assumptions    = @ \cup Valued(es, "assumption"),
     !.open_questions = @ \cup Valued(es, "gap")]

\* Mutated form: one update to met outweighs a later one to unmet.
ApplyAcUpdatesMetWins(s, us) ==
  LET mentioned == {us[i].criterion : i \in DOMAIN us}
      everMet   == {us[i].criterion : i \in {j \in DOMAIN us : us[j].met}}
  IN [s EXCEPT !.ac_met    = (@ \ mentioned) \cup everMet,
               !.ac_waived = @ \ everMet]

\* The last update of a criterion decides whether it is met; any update to met
\* cancels its waiver, and no update restores one.
ApplyAcUpdates(s, us) ==
  LET mentioned  == {us[i].criterion : i \in DOMAIN us}
      everMet    == {us[i].criterion : i \in {j \in DOMAIN us : us[j].met}}
      finallyMet == {us[i].criterion : i \in
                       {j \in DOMAIN us :
                          /\ us[j].met
                          /\ \A k \in DOMAIN us :
                               k > j => us[k].criterion # us[j].criterion}}
  IN [s EXCEPT !.ac_met    = (@ \ mentioned) \cup finallyMet,
               !.ac_waived = @ \ everMet]

ApplyTurn(s, turn) ==
  [ApplyAcUpdates(ApplyEntities(s, turn.entities), turn.ac_updates) EXCEPT
     !.total_cost = @ + turn.cost,
     !.turn_count = @ + (IF turn.turn_count_delta > 0
                         THEN turn.turn_count_delta ELSE 0)]

------------------------------------------------------------------------------
(* Acceptance criteria. *)

\* Mutated form: a criterion too many is optional.
OptionalFifth == {"U1", "U2", "05"}

Optional == {"U1", "U2"}

Criteria(p) ==
  {Rank[p]} \X ({"01", "02", "03", "04", "05", "U1"} \cup
                IF Rank[p] \in 3..5 THEN {"U2"} ELSE {})

\* The direct field checks, phase by phase, as pairs of a criterion and what its
\* field says.  A criterion that is not listed (AC-S3-04, AC-S5-05, ...) passes
\* FALSE and can only be met by an explicit update; so does AC-S3-03, because no
\* code ever links a requirement to an actor.
Has(s, f)          == f \in s.fields
Documents(s)       == Has(s, "documents_indexed")
Captured(s, type, v) == s.captured[[type |-> type, value |-> v]]

S1Checks(s) ==
  {<<<<1, "01">>, Has(s, "problem_statement")>>,
   <<<<1, "02">>, Has(s, "business_domain")>>,
   <<<<1, "03">>, Has(s, "primary_goal")>>,
   <<<<1, "04">>, Has(s, "pain_points")>>,
   <<<<1, "05">>, Has(s, "scope_boundaries")>>,
   <<<<1, "U1">>, Documents(s)>>}

S2Checks(s) ==
  {<<<<2, "01">>, Captured(s, "actor", "other") + Captured(s, "actor", "decision_maker") >= 2>>,
   <<<<2, "02">>, Captured(s, "actor", "decision_maker") >= 1>>,
   <<<<2, "03">>, Has(s, "external_systems")>>,
   <<<<2, "04">>, Has(s, "success_definition")>>,
   <<<<2, "05">>, s.regulatory_context # "None">>,
   <<<<2, "U1">>, Documents(s)>>}

S3Checks(s) ==
  {<<<<3, "01">>, Captured(s, "requirement", "Functional") >= 5>>,
   <<<<3, "02">>, Captured(s, "requirement", "NonFunctional") >= 1>>,
   <<<<3, "U1">>, Documents(s) \/ <<3, "U1">> \in s.ac_waived>>,
   <<<<3, "U2">>, Documents(s)>>}

S4Checks(s) ==
  {<<<<4, "01">>, Captured(s, "constraint", "Budget") >= 1>>,
   <<<<4, "02">>, Captured(s, "constraint", "Timeline") >= 1>>,
   <<<<4, "03">>, Captured(s, "constraint", "Technology") >= 1>>,
   <<<<4, "04">>, Captured(s, "constraint", "DataResidency") >= 1>>,
   <<<<4, "05">>, s.assumptions # {}>>,
   <<<<4, "U1">>, Documents(s)>>,
   <<<<4, "U2">>, Documents(s)>>}

S5Checks(s) ==
  {<<<<5, "01">>, Has(s, "architecture_approach")>>,
   <<<<5, "02">>, Has(s, "deployment_environment")>>,
   <<<<5, "03">>, Has(s, "external_systems")>>,
   <<<<5, "U2">>, Documents(s)>>}

S6Checks(s) ==
  {<<<<6, "01">>, Has(s, "brd_artifact_id")>>,
   <<<<6, "02">>, Has(s, "hld_artifact_id")>>,
   <<<<6, "03">>, Has(s, "client_signature_confirmed")>>,
   <<<<6, "U1">>, Has(s, "client_signature_confirmed")>>}

FieldMet(s) ==
  {check[1] : check \in {k \in S1Checks(s) \cup S2Checks(s) \cup S3Checks(s) \cup
                                S4Checks(s) \cup S5Checks(s) \cup S6Checks(s) : k[2]}}

Unmet(p, s) ==
  IF IsTerminal(p) THEN {}
  ELSE Criteria(p) \ (s.ac_met \cup FieldMet(s) \cup s.ac_waived)

TransitionReady(p, s) ==
  /\ ~IsTerminal(p)
  /\ \A c \in Unmet(p, s) : c[2] \in Optional

------------------------------------------------------------------------------
(* Upload gates and the transition engine. *)

\* Mutated form: the signature gate is left out.
OpenHardGatesUnsigned(s) ==
  {f \in GateFields \ {"client_signature_confirmed"} : f \notin s.fields} \cup
  {g \in {"regulated_source_doc"} : /\ s.regulatory_context = "Named"
                                    /\ "documents_indexed" \notin s.fields}

\* Mutated form: the artifact gates are evaluated in the review phase only.
OpenHardGatesAtReview(s) ==
  {f \in GateFields : f \notin s.fields /\ s.current_phase = "ReviewAndSignOff"} \cup
  {g \in {"regulated_source_doc"} : /\ s.regulatory_context = "Named"
                                    /\ "documents_indexed" \notin s.fields}

\* The gates are not tied to a phase: every one is evaluated for every session.
OpenHardGates(s) ==
  {f \in GateFields : f \notin s.fields} \cup
  {g \in {"regulated_source_doc"} : /\ s.regulatory_context = "Named"
                                    /\ "documents_indexed" \notin s.fields}

\* Mutated form: the criteria are not consulted once the gates are closed.
AttemptGatesOnly(s, target) ==
  CASE IsTerminal(s.current_phase) -> "SessionTerminated"
    [] /\ ~IsTerminal(s.current_phase)
       /\ target \notin ValidTransitions(s.current_phase) -> "InvalidTransition"
    [] /\ target \in ValidTransitions(s.current_phase)
       /\ OpenHardGates(s) # {} -> "HardGateBlocking"
    [] OTHER -> "Ok"

\* TransitionEngine::attempt: its verdict, the first failing check deciding.
Attempt(s, target) ==
  CASE IsTerminal(s.current_phase) -> "SessionTerminated"
    [] /\ ~IsTerminal(s.current_phase)
       /\ target \notin ValidTransitions(s.current_phase) -> "InvalidTransition"
    [] /\ target \in ValidTransitions(s.current_phase)
       /\ OpenHardGates(s) # {} -> "HardGateBlocking"
    [] /\ target \in ValidTransitions(s.current_phase)
       /\ OpenHardGates(s) = {}
       /\ ~TransitionReady(s.current_phase, s) -> "AcNotMet"
    [] OTHER -> "Ok"

Advance(s, target) == [s EXCEPT !.current_phase = target]

\* Mutated form: the terminal phase may be revisited.
CanRevisitAnything(s, target) == target # s.current_phase

CanRevisit(s, target) == ~IsTerminal(target) /\ target # s.current_phase

\* Mutated form: the record takes its origin from the previous revisit.
RevisitFromTarget(s, target) ==
  [s EXCEPT !.revisit_history = Append(@, [from |-> s.revisit_target, to |-> target]),
            !.revisit_target  = target,
            !.current_phase   = target]

\* Mutated form: the revisit is not recorded.
RevisitUnrecorded(s, target) ==
  [s EXCEPT !.revisit_target = target,
            !.current_phase  = target]

\* Mutated form: re-entering a phase starts its criteria afresh.
RevisitAfresh(s, target) ==
  [s EXCEPT !.revisit_history = Append(@, [from |-> s.current_phase, to |-> target]),
            !.revisit_target  = target,
            !.current_phase   = target,
            !.ac_met          = @ \ Criteria(target)]

Revisit(s, target) ==
  [s EXCEPT !.revisit_history = Append(@, [from |-> s.current_phase, to |-> target]),
            !.revisit_target  = target,
            !.current_phase   = target]
=============================================================================
