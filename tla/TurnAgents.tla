----------------------------- MODULE TurnAgents -----------------------------
(***************************************************************************)
(* What the agent nodes of the AI service make of a session snapshot and a *)
(* message, as far as the kernel and the client get to see it: the         *)
(* entities and criterion updates of the turn, and whether the gap is      *)
(* terminal.  Pure operators; module TurnPipeline runs the nodes and       *)
(* module TurnFlow applies what they return.                               *)
(***************************************************************************)
EXTENDS SessionKernel

\* The criteria the gap analysis knows of: the five numbered ones of the first
\* four phases, none of the last three.  They are what the model is given to
\* answer from and what the deterministic fallback reads.
PhaseAcFallbacks(p) ==
  {Rank[p]} \X {n \in {"01", "02", "03", "04", "05"} : Rank[p] <= 4}

FallbackUnmet(p, s) == PhaseAcFallbacks(p) \ (s.ac_met \cup s.ac_waived)

\* The phases a message can be understood to go back to.
RevisitTargets == {p \in Phases : Rank[p] <= 5}

\* Entities of a type in the snapshot and in this turn, of whatever class.
Mentioned(s, es, type, classes) ==
  Captured(s, type, classes[1]) + Captured(s, type, classes[2]) +
  Cardinality({i \in DOMAIN es : es[i].type = type})

ActorCount(s, es) == Mentioned(s, es, "actor", <<"decision_maker", "other">>)
RequirementCount(s, es) == Mentioned(s, es, "requirement", <<"Functional", "NonFunctional">>)

ReportIf(condition, criterion) ==
  IF condition THEN <<[criterion |-> criterion, met |-> TRUE]>> ELSE <<>>

\* Mutated form: one actor is taken for two.
DeriveAcUpdatesOffByOne(s, es, named) ==
  LET In(p) == es # <<>> /\ s.current_phase = p
  IN  ReportIf(In("StakeholderDiscovery") /\ ActorCount(s, es) >= 1, <<2, "01">>) \o
      ReportIf(In("StakeholderDiscovery") /\ named, <<2, "02">>) \o
      ReportIf(In("RequirementElicitation") /\ RequirementCount(s, es) >= 5, <<3, "01">>)

\* `named': an actor of this turn is called one of the three words for a decision
\* maker the extractor looks for (the kernel looks for two more).
DeriveAcUpdates(s, es, named) ==
  LET In(p) == es # <<>> /\ s.current_phase = p
  IN  ReportIf(In("StakeholderDiscovery") /\ ActorCount(s, es) >= 2, <<2, "01">>) \o
      ReportIf(In("StakeholderDiscovery") /\ named, <<2, "02">>) \o
      ReportIf(In("RequirementElicitation") /\ RequirementCount(s, es) >= 5, <<3, "01">>)

CanName(es) == \E i \in DOMAIN es : es[i] = [type |-> "actor", value |-> "decision_maker"]

------------------------------------------------------------------------------
\* TurnComplete, without the wording of gap and guidance.
Outcome(intent, entities, updates, ready) ==
  [intent |-> intent, entities |-> entities, ac_updates |-> updates,
   transition_ready |-> ready]

\* The turn takes the extraction path: what the extractor finds is all the message
\* mentions, or nothing when it fails.  The gap is the deterministic fallback's: one
\* that the model words itself is checked against nothing and may say anything.
ExtractionOutcomes(s, mentions) ==
  {Outcome("Clarification", es, DeriveAcUpdates(s, es, named),
           FallbackUnmet(s.current_phase, s) = {}) :
     es \in {mentions, <<>>}, named \in {n \in BOOLEAN : n => CanName(mentions)}}

\* The turn takes the revisit path: it captures nothing and, short of an exception
\* in the handler, is not terminal.
RevisitOutcome(target) == Outcome(target, <<>>, <<>>, FALSE)

\* The classifier may miss a request to go back, and its target may stay unclear:
\* then the turn still has the intent to revisit, but no phase.
TurnOutcomes(s, message) ==
  ExtractionOutcomes(s, message.mentions) \cup
  {RevisitOutcome(p) : p \in (RevisitTargets \cup {"REVISIT"}) \cap {message.back_to}}
=============================================================================
