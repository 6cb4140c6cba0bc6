---------------------------- MODULE JourneyProofs ----------------------------
(***************************************************************************)
(* The state engine implements SignOffJourney for every number of          *)
(* sessions, every set of turns and every host, alone and inside the       *)
(* product.  Each step of the service is one step of the journey, or none: *)
(* a reply alone moves no project, and neither do the gateway or the AI    *)
(* service.                                                                *)
(***************************************************************************)
EXTENDS TurnFlowProofs, StateEngineRefinement

------------------------------------------------------------------------------
(* What readiness depends on, and what it takes at least. *)

\* The fields of a session the criteria read.
Evidenced(s, t) ==
  /\ t.fields = s.fields
  /\ t.regulatory_context = s.regulatory_context
  /\ t.captured = s.captured
  /\ t.assumptions = s.assumptions
  /\ t.ac_met = s.ac_met
  /\ t.ac_waived = s.ac_waived

LEMMA SameReadiness ==
  ASSUME NEW s, NEW t, Evidenced(s, t), NEW p
  PROVE  TransitionReady(p, t) <=> TransitionReady(p, s)
<1>1. /\ \A f : Has(t, f) = Has(s, f)
      /\ Documents(t) = Documents(s)
      /\ \A type, v : Captured(t, type, v) = Captured(s, type, v)
  BY DEF Evidenced, Has, Documents, Captured
<1>2. S1Checks(t) = S1Checks(s)
  BY <1>1 DEF S1Checks
<1>3. S2Checks(t) = S2Checks(s)
  BY <1>1 DEF S2Checks, Evidenced
<1>4. S3Checks(t) = S3Checks(s)
  BY <1>1 DEF S3Checks, Evidenced
<1>5. S4Checks(t) = S4Checks(s)
  BY <1>1 DEF S4Checks, Evidenced
<1>6. S5Checks(t) = S5Checks(s)
  BY <1>1 DEF S5Checks
<1>7. S6Checks(t) = S6Checks(s)
  BY <1>1 DEF S6Checks
<1>8. FieldMet(t) = FieldMet(s)
  BY <1>2, <1>3, <1>4, <1>5, <1>6, <1>7 DEF FieldMet
<1>9. Unmet(p, t) = Unmet(p, s)
  BY <1>8 DEF Unmet, Evidenced
<1>10. QED
  BY <1>9 DEF TransitionReady

\* A fresh session meets no criterion, so no phase of it is ready.
LEMMA NothingReadyAtFirst ==
  ASSUME NEW p \in Phases
  PROVE  ~TransitionReady(p, NewSession)
<1> DEFINE n == NewSession
<1>1. /\ \A f : ~Has(n, f)
      /\ ~Documents(n)
      /\ n.regulatory_context = "None" /\ n.assumptions = {}
      /\ n.ac_met = {} /\ n.ac_waived = {}
  BY DEF NewSession, Has, Documents
<1>2. \A e \in ListedEntities : n.captured[e] = 0
  BY DEF NewSession
<1>3. \A k \in S1Checks(n) \cup S5Checks(n) \cup S6Checks(n) : ~k[2]
  BY <1>1 DEF S1Checks, S5Checks, S6Checks
<1>4. \A k \in S2Checks(n) : ~k[2]
  <2>1. Captured(n, "actor", "other") = 0 /\ Captured(n, "actor", "decision_maker") = 0
    BY <1>2 DEF Captured, ListedEntities, ActorEntities
  <2>2. /\ ~(Captured(n, "actor", "other") + Captured(n, "actor", "decision_maker") >= 2)
        /\ ~(Captured(n, "actor", "decision_maker") >= 1)
    BY <2>1
  <2> DEFINE b == Captured(n, "actor", "other") + Captured(n, "actor", "decision_maker") >= 2
             d == Captured(n, "actor", "decision_maker") >= 1
  <2>3. \A k \in S2Checks(n) :
          k[2] \in {b, d, Has(n, "external_systems"), Has(n, "success_definition"),
                   n.regulatory_context # "None", Documents(n)}
    <3> HIDE DEF b, d
    <3>1. \A k \in S2Checks(n) :
            \/ k = <<<<2, "01">>, b>>
            \/ k = <<<<2, "02">>, d>>
            \/ k = <<<<2, "03">>, Has(n, "external_systems")>>
            \/ k = <<<<2, "04">>, Has(n, "success_definition")>>
            \/ k = <<<<2, "05">>, n.regulatory_context # "None">>
            \/ k = <<<<2, "U1">>, Documents(n)>>
      BY Zenon DEF S2Checks, b, d
    <3>2. QED
      BY <3>1
  <2>4. QED
    BY <1>1, <2>2, <2>3
<1>5. \A k \in S3Checks(n) : ~k[2]
  <2>1. /\ ~(Captured(n, "requirement", "Functional") >= 5)
        /\ ~(Captured(n, "requirement", "NonFunctional") >= 1)
    BY <1>2 DEF Captured, ListedEntities, RequirementEntities
  <2> DEFINE b == Captured(n, "requirement", "Functional") >= 5
             d == Captured(n, "requirement", "NonFunctional") >= 1
             w == Documents(n) \/ <<3, "U1">> \in n.ac_waived
  <2>2. \A k \in S3Checks(n) : k[2] \in {b, d, w, Documents(n)}
    <3> HIDE DEF b, d, w
    <3>1. \A k \in S3Checks(n) :
            \/ k = <<<<3, "01">>, b>>
            \/ k = <<<<3, "02">>, d>>
            \/ k = <<<<3, "U1">>, w>>
            \/ k = <<<<3, "U2">>, Documents(n)>>
      BY Zenon DEF S3Checks, b, d, w
    <3>2. QED
      BY <3>1
  <2>3. ~w
    BY <1>1
  <2>4. QED
    BY <1>1, <2>1, <2>2, <2>3
<1>6. \A k \in S4Checks(n) : ~k[2]
  <2>1. \A v \in {"Budget", "Timeline", "Technology", "DataResidency"} :
          ~(Captured(n, "constraint", v) >= 1)
    BY <1>2 DEF Captured, ListedEntities, ConstraintEntities
  <2> DEFINE b(v) == Captured(n, "constraint", v) >= 1
             a == n.assumptions # {}
  <2>2. \A k \in S4Checks(n) :
          k[2] \in {b("Budget"), b("Timeline"), b("Technology"), b("DataResidency"), a,
                   Documents(n)}
    <3> HIDE DEF b, a
    <3>1. \A k \in S4Checks(n) :
            \/ k = <<<<4, "01">>, b("Budget")>>
            \/ k = <<<<4, "02">>, b("Timeline")>>
            \/ k = <<<<4, "03">>, b("Technology")>>
            \/ k = <<<<4, "04">>, b("DataResidency")>>
            \/ k = <<<<4, "05">>, a>>
            \/ k = <<<<4, "U1">>, Documents(n)>>
            \/ k = <<<<4, "U2">>, Documents(n)>>
      BY Zenon DEF S4Checks, b, a
    <3>2. QED
      BY <3>1
  <2>3. QED
    BY <1>1, <2>1, <2>2
<1>7. FieldMet(n) = {}
  BY <1>3, <1>4, <1>5, <1>6 DEF FieldMet
<1>8. CASE p = "SignedOff"
  BY <1>8 DEF TransitionReady, IsTerminal
<1>9. CASE p # "SignedOff"
  <2>1. Unmet(p, n) = Criteria(p)
    BY <1>1, <1>7, <1>9 DEF Unmet, IsTerminal
  <2>2. <<Rank[p], "01">> \in Unmet(p, n) /\ "01" \notin Optional
    BY <2>1 DEF Criteria, Optional
  <2>3. QED
    BY <2>2 DEF TransitionReady
<1>10. QED
  BY <1>8, <1>9

------------------------------------------------------------------------------
(* The mapped state, and the steps of a session in it. *)

Stage    == [id \in live |-> sessions[id].current_phase]
Complete == [id \in live |-> {p \in Phases : TransitionReady(p, sessions[id])}]
OnFile   == [id \in live |-> sessions[id].fields \cap GateFields]

LEMMA StageNames ==
  /\ Journey!Names = Phases
  /\ Journey!Last = "SignedOff"
BY PhaseFacts DEF Journey!Names, Journey!Last

LEMMA CompleteType ==
  ASSUME NEW s
  PROVE  {p \in Phases : TransitionReady(p, s)} \in SUBSET (Journey!Names \ {Journey!Last})
BY StageNames DEF TransitionReady, IsTerminal

LEMMA Opens ==
  ASSUME TypeOK, NEW id \in SessionIds, id \notin live,
         live' = live \cup {id}, sessions' = [sessions EXCEPT ![id] = NewSession]
  PROVE  Journey!Open(id)
<1>1. /\ sessions'[id] = NewSession
      /\ \A q \in live : sessions'[q] = sessions[q]
  BY DEF TypeOK
<1>2. /\ NewSession.current_phase = "ProblemIntake"
      /\ NewSession.fields \cap GateFields = {}
      /\ {p \in Phases : TransitionReady(p, NewSession)} = {}
  BY NothingReadyAtFirst DEF NewSession
<1>3. id \notin Journey!Existing
  BY DEF Journey!Existing
<1>4. Stage' = Journey!Extend(Stage, id, "ProblemIntake")
  BY <1>1, <1>2 DEF Stage, Journey!Extend
<1>5. Complete' = Journey!Extend(Complete, id, {})
  BY <1>1, <1>2 DEF Complete, Journey!Extend
<1>6. OnFile' = Journey!Extend(OnFile, id, {})
  BY <1>1, <1>2 DEF OnFile, Journey!Extend
<1>7. QED
  BY <1>3, <1>4, <1>5, <1>6 DEF Journey!Open, Stage, Complete, OnFile

\* A turn or a host write: the phase stands still and no field is cleared.
LEMMA Works ==
  ASSUME TypeOK, NEW id \in live, NEW t \in Sessions,
         live' = live, sessions' = [sessions EXCEPT ![id] = t],
         t.current_phase = sessions[id].current_phase,
         sessions[id].fields \subseteq t.fields
  PROVE  Journey!Work(id)
<1>1. /\ id \in SessionIds /\ sessions'[id] = t
      /\ \A q \in live \ {id} : sessions'[q] = sessions[q]
  BY DEF TypeOK
<1>2. Journey!Existing = live
  BY DEF Journey!Existing
<1>3. Complete' \in [live -> SUBSET (Journey!Names \ {Journey!Last})]
  BY CompleteType DEF Complete
<1>4. OnFile' \in [live -> SUBSET GateFields]
  BY DEF OnFile
<1>5. \A q \in live \ {id} : Complete'[q] = Complete[q] /\ OnFile'[q] = OnFile[q]
  BY <1>1 DEF Complete, OnFile
<1>6. OnFile[id] \subseteq OnFile'[id]
  BY <1>1 DEF OnFile
<1>7. Stage' = Stage
  BY <1>1 DEF Stage
<1>8. QED
  BY <1>2, <1>3, <1>4, <1>5, <1>6, <1>7 DEF Journey!Work, Stage, Complete, OnFile

\* A transition or a revisit: only the phase and the revisit record change.
LEMMA Moves ==
  ASSUME TypeOK, NEW id \in live, NEW t \in Sessions,
         live' = live, sessions' = [sessions EXCEPT ![id] = t],
         Evidenced(sessions[id], t)
  PROVE  /\ Stage' = [Stage EXCEPT ![id] = t.current_phase]
         /\ Complete' = Complete
         /\ OnFile' = OnFile
<1>1. /\ id \in SessionIds /\ sessions'[id] = t
      /\ \A q \in live \ {id} : sessions'[q] = sessions[q]
  BY DEF TypeOK
<1>2. Stage' = [Stage EXCEPT ![id] = t.current_phase]
  <2>1. Stage' = [q \in live |-> sessions'[q].current_phase]
    BY DEF Stage
  <2>2. \A q \in live : sessions'[q].current_phase =
          IF q = id THEN t.current_phase ELSE Stage[q]
    BY <1>1 DEF Stage
  <2>3. [Stage EXCEPT ![id] = t.current_phase] =
          [q \in live |-> IF q = id THEN t.current_phase ELSE Stage[q]]
    BY DEF Stage
  <2>4. QED
    BY <2>1, <2>2, <2>3
<1>3. OnFile' = OnFile
  BY <1>1 DEF OnFile, Evidenced
<1>4. ASSUME NEW q \in live
      PROVE  {p \in Phases : TransitionReady(p, sessions'[q])} =
             {p \in Phases : TransitionReady(p, sessions[q])}
  BY <1>1, <1>4, SameReadiness
<1>5. Complete' = Complete
  BY <1>4 DEF Complete
<1>6. QED
  BY <1>2, <1>3, <1>5

LEMMA ApprovedIsReady ==
  ASSUME NEW s \in Sessions, NEW target \in Phases, Attempt(s, target) = "Ok"
  PROVE  TransitionReady(s.current_phase, s)
BY DEF Attempt

LEMMA Advances ==
  ASSUME TypeOK, NEW id \in live, NEW target \in Phases,
         Attempt(sessions[id], target) = "Ok",
         live' = live, sessions' = [sessions EXCEPT ![id] = Advance(sessions[id], target)]
  PROVE  Journey!MoveOn(id)
<1> DEFINE s == sessions[id]
           t == Advance(s, target)
<1>1. s \in Sessions /\ s.current_phase \in Phases
  BY DEF TypeOK, Sessions
<1>2. t \in Sessions /\ t.current_phase = target
  BY <1>1, AdvanceFacts
<1>3. Evidenced(s, t)
  BY <1>1 DEF Advance, Evidenced, Sessions
<1>4. /\ Stage' = [Stage EXCEPT ![id] = target]
      /\ Complete' = Complete /\ OnFile' = OnFile
  BY <1>2, <1>3, Moves
<1>5. Rank[target] = Rank[s.current_phase] + 1 /\ GateFields \subseteq s.fields
  BY <1>1, ApprovedFacts
<1>6. Stage[id] \in Complete[id] /\ GateFields \subseteq OnFile[id]
  BY <1>1, <1>5, ApprovedIsReady DEF Stage, Complete, OnFile
<1> DEFINE names == <<"ProblemIntake", "StakeholderDiscovery", "RequirementElicitation",
                      "ConstraintCapture", "ArchitectureAlignment", "ReviewAndSignOff",
                      "SignedOff">>
<1>7. \A p \in Phases : Rank[p] \in 1..7 /\ names[Rank[p]] = p
  BY PhaseFacts DEF Rank
<1>8. Rank[s.current_phase] \in 1..6 /\ names[Rank[s.current_phase]] = Stage[id]
      /\ names[Rank[s.current_phase] + 1] = target
  BY <1>1, <1>5, <1>7 DEF Stage
<1>9. id \in Journey!Existing
  BY DEF Journey!Existing
<1>10. Len(names) = 7
  OBVIOUS
<1>11. \E i \in 1..(Len(names) - 1) :
         names[i] = Stage[id] /\ Stage' = [Stage EXCEPT ![id] = names[i + 1]]
  <2> DEFINE i == Rank[s.current_phase]
  <2>1. i \in 1..(Len(names) - 1)
    BY <1>8, <1>10
  <2>2. names[i] = Stage[id] /\ Stage' = [Stage EXCEPT ![id] = names[i + 1]]
    BY <1>4, <1>8
  <2> HIDE DEF i, names
  <2>3. QED
    BY <2>1, <2>2
<1>12. QED
  BY <1>4, <1>6, <1>9, <1>11 DEF Journey!MoveOn, Stage, Complete, OnFile

LEMMA Revisits ==
  ASSUME TypeOK, NEW id \in live, NEW target \in Phases, CanRevisit(sessions[id], target),
         live' = live, sessions' = [sessions EXCEPT ![id] = Revisit(sessions[id], target)]
  PROVE  Journey!SendTo(id, target)
<1> DEFINE s == sessions[id]
           t == Revisit(s, target)
<1>1. s \in Sessions
  BY DEF TypeOK
<1>2. t \in Sessions /\ t.current_phase = target
  BY <1>1, RevisitFacts
<1>3. Evidenced(s, t)
  BY <1>1 DEF Revisit, Evidenced, Sessions
<1>4. /\ Stage' = [Stage EXCEPT ![id] = target]
      /\ Complete' = Complete /\ OnFile' = OnFile
  BY <1>2, <1>3, Moves
<1>5. target # Stage[id] /\ target # "SignedOff"
  BY DEF CanRevisit, IsTerminal, Stage
<1>6. id \in Journey!Existing
  BY DEF Journey!Existing
<1>7. QED
  BY <1>4, <1>5, <1>6, StageNames DEF Journey!SendTo, Stage, Complete, OnFile

------------------------------------------------------------------------------
(* A step of one session's calls, and the whole next-state relation. *)

LEMMA RefusalsStutter ==
  ASSUME UNCHANGED <<live, sessions>>
  PROVE  UNCHANGED Journey!vars
BY DEF Journey!vars

LEMMA TurnIsWork ==
  ASSUME TypeOK, NEW id \in SessionIds, NEW turn \in TurnResults, ApplyTurnResult(id, turn)
  PROVE  Journey!Work(id) \/ UNCHANGED Journey!vars
<1>1. sessions[id] \in Sessions
  BY DEF TypeOK
<1>2. CASE id \in live /\ live' = live
           /\ sessions' = [sessions EXCEPT ![id] = ApplyTurn(sessions[id], turn)]
  BY <1>1, <1>2, ApplyTurnFacts, Works
<1>3. CASE UNCHANGED <<live, sessions>>
  BY <1>3, RefusalsStutter
<1>4. QED
  BY <1>2, <1>3 DEF ApplyTurnResult

LEMMA TransitionIsMove ==
  ASSUME TypeOK, NEW id \in SessionIds, NEW target \in Targets, RequestTransition(id, target)
  PROVE  Journey!MoveOn(id) \/ UNCHANGED Journey!vars
<1>1. CASE UNCHANGED <<live, sessions>>
  BY <1>1, RefusalsStutter
<1>2. CASE /\ target # "Unparsable" /\ id \in live /\ live' = live
           /\ Attempt(sessions[id], target) = "Ok"
           /\ sessions' = [sessions EXCEPT ![id] = Advance(sessions[id], target)]
  <2>1. target \in Phases
    BY <1>2 DEF Targets
  <2>2. QED
    BY <1>2, <2>1, Advances
<1>3. QED
  BY <1>1, <1>2 DEF RequestTransition, Refused

LEMMA RevisitIsSending ==
  ASSUME TypeOK, NEW id \in SessionIds, NEW target \in Targets, RevisitPhase(id, target)
  PROVE  (\E s \in Journey!Names : Journey!SendTo(id, s)) \/ UNCHANGED Journey!vars
<1>1. CASE UNCHANGED <<live, sessions>>
  BY <1>1, RefusalsStutter
<1>2. CASE /\ target # "Unparsable" /\ id \in live /\ live' = live
           /\ CanRevisit(sessions[id], target)
           /\ sessions' = [sessions EXCEPT ![id] = Revisit(sessions[id], target)]
  <2>1. target \in Phases
    BY <1>2 DEF Targets
  <2>2. QED
    BY <1>2, <2>1, Revisits, StageNames
<1>3. QED
  BY <1>1, <1>2 DEF RevisitPhase, Refused

LEMMA HostWriteIsWork ==
  ASSUME TypeOK, NEW id \in SessionIds, HostWrites(id)
  PROVE  Journey!Work(id)
<1>1. id \in live /\ live' = live /\ sessions[id] \in Sessions
  BY DEF HostWrites, TypeOK
<1>2. PICK t : /\ sessions' = [sessions EXCEPT ![id] = t]
               /\ \/ \E f \in Fields : t = [sessions[id] EXCEPT !.fields = @ \cup {f}]
                  \/ \E r \in RegulatoryContexts :
                       t = [sessions[id] EXCEPT !.regulatory_context = r]
                  \/ \E c \in Criterion : t = [sessions[id] EXCEPT !.ac_waived = @ \cup {c}]
  BY EngineAssumption DEF HostWrites
<1>3. QED
  BY <1>1, <1>2, HostWriteFacts, Works

LEMMA StepIsJourneyStep ==
  ASSUME NEW T \in SUBSET TurnResults, TypeOK, [KernelStep(T)]_vars
  PROVE  [Journey!Next]_(Journey!vars)
<1>1. CASE Restart
  <2>1. Journey!Lose
    BY <1>1 DEF Restart, Journey!Lose
  <2>2. QED
    BY <2>1 DEF Journey!Next
<1>2. ASSUME NEW id \in SessionIds, CreateSession(id)
      PROVE  Journey!Next
  <2>1. id \notin live
    BY <1>2 DEF CreateSession, TypeOK
  <2>2. Journey!Open(id)
    BY <1>2, <2>1, Opens DEF CreateSession
  <2>3. QED
    BY <2>2 DEF Journey!Next
<1>3. ASSUME NEW id \in SessionIds, GetSessionState(id)
      PROVE  UNCHANGED Journey!vars
  BY <1>3, RefusalsStutter DEF GetSessionState
<1>4. ASSUME NEW id \in SessionIds, NEW turn \in T, ApplyTurnResult(id, turn)
      PROVE  [Journey!Next]_(Journey!vars)
  BY <1>4, TurnIsWork DEF Journey!Next
<1>5. ASSUME NEW id \in SessionIds, NEW target \in Targets, RequestTransition(id, target)
      PROVE  [Journey!Next]_(Journey!vars)
  BY <1>5, TransitionIsMove DEF Journey!Next
<1>6. ASSUME NEW id \in SessionIds, NEW target \in Targets, RevisitPhase(id, target)
      PROVE  [Journey!Next]_(Journey!vars)
  BY <1>6, RevisitIsSending DEF Journey!Next
<1>7. ASSUME NEW id \in SessionIds, HostWrites(id)
      PROVE  Journey!Next
  BY <1>7, HostWriteIsWork DEF Journey!Next
<1>8. CASE UNCHANGED vars
  BY <1>8, RefusalsStutter DEF vars
<1>9. QED
  BY <1>1, <1>2, <1>3, <1>4, <1>5, <1>6, <1>7, <1>8 DEF KernelStep

(* The service as a whole: whatever calls, host writes and restarts there    *)
(* are, a project moves on one stage at a time, from a complete stage, with  *)
(* all the evidence on file, and enters the last stage in no other way.      *)
THEOREM EngineImplementsJourney == Spec => ImplementsJourney
<1>1. Init => Journey!Init
  BY DEF Init, Journey!Init
<1>2. TypeOK /\ [Next]_vars => [Journey!Next]_(Journey!vars)
  BY StepIsJourneyStep, NextIsKernelStep
<1>3. QED
  BY <1>1, <1>2, TypeCorrect, PTL DEF Spec, ImplementsJourney, Journey!Spec

(* The product: gateway, AI service and kernel together, with any number of  *)
(* turns in flight, their snapshots stale, their RPCs lost and the kernel    *)
(* restarted between them.  Applying a turn computed long ago is still work  *)
(* on the project and nothing more.                                          *)
THEOREM ProductImplementsJourney == FlowSpec => ImplementsJourney
<1>1. FlowInit => Journey!Init
  BY DEF FlowInit, Init, Journey!Init
<1>2. FlowInv /\ TypeOK /\ [FlowNext]_flowVars => [Journey!Next]_(Journey!vars)
  BY FlowStepIsKernelStep, SpokenAreTurns, StepIsJourneyStep
<1>3. QED
  BY <1>1, <1>2, FlowInvariance, KernelInFlow, PTL DEF FlowSpec, ImplementsJourney, Journey!Spec
=============================================================================
