------------------------- MODULE StateEngineProofs -------------------------
(***************************************************************************)
(* Theorems of the state engine, for every set of session ids, every set   *)
(* of turn results, every host program and all bounds.                     *)
(***************************************************************************)
EXTENDS StateEngine, FiniteSetTheorems, SequenceTheorems, WellFoundedInduction, TLAPS

------------------------------------------------------------------------------
(* Facts about the phases and the session record. *)

(* The phases are numbered 1..7 without gap or repetition. *)
LEMMA PhaseFacts ==
  /\ Phases = {"ProblemIntake", "StakeholderDiscovery", "RequirementElicitation",
               "ConstraintCapture", "ArchitectureAlignment", "ReviewAndSignOff",
               "SignedOff"}
  /\ \A p \in Phases : Rank[p] \in 1..7
  /\ Rank["ProblemIntake"] = 1
  /\ Rank["SignedOff"] = 7
  BY DEF Phases, Rank

(* A fresh session is well formed. *)
LEMMA NewSessionType == NewSession \in Sessions
<1>1. [e \in ListedEntities |-> 0] \in [ListedEntities -> Nat]
  OBVIOUS
<1>2. << >> \in Seq(RevisitRecords)
  OBVIOUS
<1>3. "None" \in RegulatoryContexts /\ "ProblemIntake" \in Phases
  BY PhaseFacts DEF RegulatoryContexts
<1>4. QED
  BY <1>1, <1>2, <1>3 DEF NewSession, Sessions

(* Counting the occurrences of a value in a list gives a natural number. *)
LEMMA CountType ==
  ASSUME NEW S, NEW es \in Seq(S), NEW e
  PROVE  Cardinality({k \in DOMAIN es : es[k] = e}) \in Nat
<1>1. DOMAIN es = 1..Len(es) /\ Len(es) \in Nat
  OBVIOUS
<1>2. IsFiniteSet(1..Len(es))
  BY <1>1, FS_Interval
<1>3. IsFiniteSet({k \in DOMAIN es : es[k] = e})
  BY <1>1, <1>2, FS_Subset
<1>4. QED
  BY <1>3, FS_CardinalityType

(* The texts a turn notes are texts. *)
LEMMA ValuedType ==
  ASSUME NEW es \in Seq(Entities), NEW type \in {"assumption", "gap"}
  PROVE  Valued(es, type) \subseteq Notes
<1>1. \A k \in DOMAIN es : es[k] \in Entities
  OBVIOUS
<1>2. \A e \in Entities : e.type = type => e.value \in Notes
  BY DEF Entities, ListedEntities, ActorEntities, RequirementEntities, ConstraintEntities
<1>3. QED
  BY <1>1, <1>2 DEF Valued

(* Applying the entities of a turn touches only what they are captured in. *)
LEMMA ApplyEntitiesType ==
  ASSUME NEW s \in Sessions, NEW es \in Seq(Entities)
  PROVE  ApplyEntities(s, es) \in Sessions
<1> DEFINE more == [e \in ListedEntities |->
                      s.captured[e] + Cardinality({k \in DOMAIN es : es[k] = e})]
<1>1. more \in [ListedEntities -> Nat]
  <2>1. \A e \in ListedEntities : s.captured[e] \in Nat
    BY DEF Sessions
  <2>2. \A e \in ListedEntities : Cardinality({k \in DOMAIN es : es[k] = e}) \in Nat
    BY CountType
  <2>3. QED
    BY <2>1, <2>2
<1>2. /\ Valued(es, "assumption") \subseteq Notes
      /\ Valued(es, "gap") \subseteq Notes
  BY ValuedType
<1>3. ApplyEntities(s, es) =
        [s EXCEPT !.captured = more,
                  !.assumptions    = s.assumptions \cup Valued(es, "assumption"),
                  !.open_questions = s.open_questions \cup Valued(es, "gap")]
  BY DEF ApplyEntities, Sessions
<1> DEFINE noted == s.assumptions \cup Valued(es, "assumption")
           asked == s.open_questions \cup Valued(es, "gap")
<1>4. noted \subseteq Notes /\ asked \subseteq Notes
  BY <1>2 DEF Sessions
<1>5. ApplyEntities(s, es) =
        [s EXCEPT !.captured = more, !.assumptions = noted, !.open_questions = asked]
  BY <1>3
<1> HIDE DEF more, noted, asked
<1>6. [s EXCEPT !.captured = more] \in Sessions
  BY <1>1 DEF Sessions
<1>7. [[s EXCEPT !.captured = more] EXCEPT !.assumptions = noted] \in Sessions
  BY <1>4, <1>6 DEF Sessions
<1>8. [[[s EXCEPT !.captured = more] EXCEPT !.assumptions = noted]
         EXCEPT !.open_questions = asked] \in Sessions
  BY <1>4, <1>7 DEF Sessions
<1>9. QED
  BY <1>5, <1>8

(* So does applying its criterion updates. *)
LEMMA ApplyAcUpdatesType ==
  ASSUME NEW s \in Sessions, NEW us \in Seq(AcUpdates)
  PROVE  ApplyAcUpdates(s, us) \in Sessions
<1>1. \A k \in DOMAIN us : us[k].criterion \in Criterion
  <2>1. \A k \in DOMAIN us : us[k] \in AcUpdates
    OBVIOUS
  <2>2. QED
    BY <2>1 DEF AcUpdates
<1> DEFINE mentioned  == {us[k].criterion : k \in DOMAIN us}
           everMet    == {us[k].criterion : k \in {l \in DOMAIN us : us[l].met}}
           finallyMet == {us[k].criterion : k \in
                            {l \in DOMAIN us :
                               /\ us[l].met
                               /\ \A n \in DOMAIN us :
                                    n > l => us[n].criterion # us[l].criterion}}
           m == (s.ac_met \ mentioned) \cup finallyMet
           w == s.ac_waived \ everMet
<1>2. finallyMet \subseteq Criterion
  BY <1>1
<1>3. m \subseteq Criterion /\ w \subseteq Criterion
  BY <1>2 DEF Sessions
<1>4. ApplyAcUpdates(s, us) = [s EXCEPT !.ac_met = m, !.ac_waived = w]
  BY DEF ApplyAcUpdates, Sessions
<1> HIDE DEF m, w
<1>5. QED
  BY <1>3, <1>4 DEF Sessions

(* A turn result moves no phase, sets no field and records no revisit. *)
LEMMA ApplyTurnFacts ==
  ASSUME NEW s \in Sessions, NEW turn \in TurnResults
  PROVE  /\ ApplyTurn(s, turn) \in Sessions
         /\ ApplyTurn(s, turn).current_phase = s.current_phase
         /\ ApplyTurn(s, turn).fields = s.fields
         /\ ApplyTurn(s, turn).revisit_target = s.revisit_target
         /\ ApplyTurn(s, turn).revisit_history = s.revisit_history
<1> DEFINE a == ApplyEntities(s, turn.entities)
           b == ApplyAcUpdates(a, turn.ac_updates)
           d == IF turn.turn_count_delta > 0 THEN turn.turn_count_delta ELSE 0
<1>1. /\ turn.entities \in Seq(Entities)
      /\ turn.ac_updates \in Seq(AcUpdates)
      /\ turn.cost \in Nat
      /\ d \in Nat
  BY DEF TurnResults
<1>2. a \in Sessions
  BY <1>1, ApplyEntitiesType
<1>3. /\ a.current_phase = s.current_phase
      /\ a.fields = s.fields
      /\ a.revisit_target = s.revisit_target
      /\ a.revisit_history = s.revisit_history
  BY DEF ApplyEntities, Sessions
<1> HIDE DEF a
<1>4. b \in Sessions
  BY <1>1, <1>2, ApplyAcUpdatesType
<1>5. /\ b.current_phase = a.current_phase
      /\ b.fields = a.fields
      /\ b.revisit_target = a.revisit_target
      /\ b.revisit_history = a.revisit_history
  BY <1>2 DEF ApplyAcUpdates, Sessions
<1>6. ApplyTurn(s, turn) = [b EXCEPT !.total_cost = b.total_cost + turn.cost,
                                     !.turn_count = b.turn_count + d]
  BY <1>4 DEF ApplyTurn, a, Sessions
<1> DEFINE cost == b.total_cost + turn.cost
           count == b.turn_count + d
<1> HIDE DEF b, d
<1>7. cost \in Nat /\ count \in Nat
  BY <1>1, <1>4, SMTT(20) DEF Sessions
<1> HIDE DEF cost, count
<1>8. ApplyTurn(s, turn) = [b EXCEPT !.total_cost = cost, !.turn_count = count]
  BY <1>6 DEF cost, count
<1>9. ApplyTurn(s, turn) \in Sessions
  BY <1>4, <1>7, <1>8 DEF Sessions
<1>10. QED
  BY <1>3, <1>4, <1>5, <1>8, <1>9 DEF Sessions

(* An approved transition only moves the phase. *)
LEMMA AdvanceFacts ==
  ASSUME NEW s \in Sessions, NEW target \in Phases
  PROVE  /\ Advance(s, target) \in Sessions
         /\ Advance(s, target).current_phase = target
         /\ Advance(s, target).fields = s.fields
         /\ Advance(s, target).revisit_target = s.revisit_target
         /\ Advance(s, target).revisit_history = s.revisit_history
  BY DEF Advance, Sessions

(* The engine approves only the next phase, and only with every hard gate    *)
(* closed: no artifact is missing.                                           *)
LEMMA ApprovedFacts ==
  ASSUME NEW s \in Sessions, NEW target \in Phases, Attempt(s, target) = "Ok"
  PROVE  /\ Rank[target] = Rank[s.current_phase] + 1
         /\ GateFields \subseteq s.fields
<1>1. /\ ~IsTerminal(s.current_phase)
      /\ target \in ValidTransitions(s.current_phase)
      /\ OpenHardGates(s) = {}
  BY DEF Attempt
<1>2. QED
  BY <1>1 DEF ValidTransitions, OpenHardGates

(* A revisit moves the phase and appends one record. *)
LEMMA RevisitFacts ==
  ASSUME NEW s \in Sessions, NEW target \in Phases
  PROVE  LET r   == [from |-> s.current_phase, to |-> target]
             new == Revisit(s, target)
         IN  /\ new \in Sessions
             /\ new.current_phase = target
             /\ new.fields = s.fields
             /\ new.revisit_target = target
             /\ new.revisit_history = Append(s.revisit_history, r)
<1> DEFINE r == [from |-> s.current_phase, to |-> target]
<1>1. r \in RevisitRecords
  BY DEF Sessions, RevisitRecords
<1>2. Append(s.revisit_history, r) \in Seq(RevisitRecords)
  BY <1>1 DEF Sessions
<1> HIDE DEF r
<1>3. Revisit(s, target) = [s EXCEPT !.revisit_history = Append(s.revisit_history, r),
                                     !.revisit_target  = target,
                                     !.current_phase   = target]
  BY DEF Revisit, Sessions, r
<1>4. QED
  BY <1>2, <1>3 DEF Sessions, r

------------------------------------------------------------------------------
(* Type correctness. *)

(* Every verdict of the engine is an outcome a reply can carry. *)
LEMMA AttemptType ==
  ASSUME NEW s, NEW target
  PROVE  Attempt(s, target) \in Outcomes
  BY DEF Attempt, Outcomes

(* The number of unmet criteria is a natural number. *)
LEMMA UnmetType ==
  ASSUME NEW p \in Phases, NEW s
  PROVE  Cardinality(Unmet(p, s)) \in Nat
<1> DEFINE labels == {"01", "02", "03", "04", "05", "U1"} \cup
                     IF Rank[p] \in 3..5 THEN {"U2"} ELSE {}
<1>1. IsFiniteSet({"01", "02", "03", "04", "05", "U1", "U2"})
  <2>1. IsFiniteSet({}) /\ \A S, x : IsFiniteSet(S) => IsFiniteSet(S \cup {x})
    BY FS_EmptySet, FS_AddElement
  <2> DEFINE Add(S, x) == S \cup {x}
             all == Add(Add(Add(Add(Add(Add(Add({}, "01"), "02"), "03"), "04"), "05"), "U1"), "U2")
  <2>2. IsFiniteSet(all)
    BY <2>1
  <2>3. all = {"01", "02", "03", "04", "05", "U1", "U2"}
    OBVIOUS
  <2>4. QED
    BY <2>2, <2>3
<1>2. IsFiniteSet(labels)
  BY <1>1, FS_Subset
<1>3. IsFiniteSet({Rank[p]})
  BY FS_Singleton
<1>4. IsFiniteSet(Criteria(p))
  BY <1>2, <1>3, FS_Product DEF Criteria
<1>5. Unmet(p, s) \subseteq Criteria(p) \/ Unmet(p, s) = {}
  BY DEF Unmet
<1>6. IsFiniteSet(Unmet(p, s))
  BY <1>4, <1>5, FS_Subset, FS_EmptySet
<1>7. QED
  BY <1>6, FS_CardinalityType

(* Readiness is a truth value. *)
LEMMA ReadyType ==
  ASSUME NEW p, NEW s
  PROVE  TransitionReady(p, s) \in BOOLEAN
  BY DEF TransitionReady

(* A host write leaves a session well formed, and changes neither its phase  *)
(* nor its revisits.                                                         *)
LEMMA HostWriteFacts ==
  ASSUME NEW s \in Sessions, NEW t,
         \/ \E f \in Fields : t = [s EXCEPT !.fields = @ \cup {f}]
         \/ \E r \in RegulatoryContexts : t = [s EXCEPT !.regulatory_context = r]
         \/ \E c \in Criterion : t = [s EXCEPT !.ac_waived = @ \cup {c}]
  PROVE  /\ t \in Sessions
         /\ t.current_phase = s.current_phase
         /\ s.fields \subseteq t.fields
         /\ t.revisit_target = s.revisit_target
         /\ t.revisit_history = s.revisit_history
<1>1. CASE \E f \in Fields : t = [s EXCEPT !.fields = @ \cup {f}]
  <2>1. PICK f \in Fields : t = [s EXCEPT !.fields = s.fields \cup {f}]
    BY <1>1 DEF Sessions
  <2>2. s.fields \cup {f} \in SUBSET Fields
    BY DEF Sessions
  <2>3. QED
    BY <2>1, <2>2 DEF Sessions
<1>2. CASE \E r \in RegulatoryContexts : t = [s EXCEPT !.regulatory_context = r]
  BY <1>2 DEF Sessions
<1>3. CASE \E c \in Criterion : t = [s EXCEPT !.ac_waived = @ \cup {c}]
  <2>1. PICK c \in Criterion : t = [s EXCEPT !.ac_waived = s.ac_waived \cup {c}]
    BY <1>3 DEF Sessions
  <2>2. s.ac_waived \cup {c} \in SUBSET Criterion
    BY DEF Sessions
  <2>3. QED
    BY <2>1, <2>2 DEF Sessions
<1>4. QED
  BY <1>1, <1>2, <1>3

\* The steps of the service when its callers send turns of T.
KernelStep(T) ==
  \/ Restart
  \/ \E id \in SessionIds :
       \/ CreateSession(id)
       \/ GetSessionState(id)
       \/ \E turn \in T : ApplyTurnResult(id, turn)
       \/ \E target \in Targets : RequestTransition(id, target) \/ RevisitPhase(id, target)
       \/ HostWrites(id)

LEMMA NextIsKernelStep == Turns \in SUBSET TurnResults /\ (Next <=> KernelStep(Turns))
BY EngineAssumption DEF EngineAssumption, Next, KernelStep

\* One step of the service, seen from one session that it does not create or lose.
SessionStep(T, s, t) ==
  \/ t = s
  \/ \E turn \in T : t = ApplyTurn(s, turn)
  \/ \E target \in Phases : Attempt(s, target) = "Ok" /\ t = Advance(s, target)
  \/ \E target \in Phases : CanRevisit(s, target) /\ t = Revisit(s, target)
  \/ \E f \in HostFields : t = [s EXCEPT !.fields = @ \cup {f}]
  \/ \E r \in HostContexts : t = [s EXCEPT !.regulatory_context = r]
  \/ \E c \in HostWaivers : t = [s EXCEPT !.ac_waived = @ \cup {c}]

\* ... and from any session id.
IdStep(T, id) ==
  \/ SessionStep(T, sessions[id], sessions'[id])
  \/ sessions'[id] = NewSession /\ id \notin live \cap live'

(* A step does to every session one of the things a session step may do, or  *)
(* leaves a fresh session at an id that was not or is no longer live.        *)
LEMMA StepOfSession ==
  ASSUME NEW T \in SUBSET TurnResults, TypeOK, [KernelStep(T)]_vars
  PROVE  /\ sessions' \in [SessionIds -> Sessions]
         /\ \A id \in SessionIds : IdStep(T, id)
<1> USE EngineAssumption
<1>0. sessions \in [SessionIds -> Sessions]
  BY DEF TypeOK
<1> DEFINE Goal == /\ DOMAIN sessions' = SessionIds
                   /\ sessions' = [id \in DOMAIN sessions' |-> sessions'[id]]
                   /\ \A id \in SessionIds : IdStep(T, id)
<1>1. SUFFICES Goal
  <2>1. ASSUME NEW s \in Sessions, NEW t, SessionStep(T, s, t)
        PROVE  t \in Sessions
    <3>1. CASE t = s
      BY <3>1
    <3>2. CASE \E turn \in T : t = ApplyTurn(s, turn)
      BY <3>2, ApplyTurnFacts DEF EngineAssumption
    <3>3. CASE \E target \in Phases : Attempt(s, target) = "Ok" /\ t = Advance(s, target)
      BY <3>3, AdvanceFacts
    <3>4. CASE \E target \in Phases : CanRevisit(s, target) /\ t = Revisit(s, target)
      BY <3>4, RevisitFacts
    <3>5. CASE \/ \E f \in HostFields : t = [s EXCEPT !.fields = @ \cup {f}]
               \/ \E r \in HostContexts : t = [s EXCEPT !.regulatory_context = r]
               \/ \E c \in HostWaivers : t = [s EXCEPT !.ac_waived = @ \cup {c}]
      BY <3>5, HostWriteFacts DEF EngineAssumption
    <3>6. QED
      BY <2>1, <3>1, <3>2, <3>3, <3>4, <3>5 DEF SessionStep
  <2>2. QED
    BY <1>0, <2>1, NewSessionType DEF IdStep
<1>2. ASSUME NEW id \in SessionIds, NEW t,
             SessionStep(T, sessions[id], t) \/ (t = NewSession /\ id \notin live),
             sessions' = [sessions EXCEPT ![id] = t]
      PROVE  Goal
  <2>1. \A other \in SessionIds \ {id} : sessions'[other] = sessions[other]
    BY <1>0, <1>2
  <2>2. sessions'[id] = t
    BY <1>0, <1>2
  <2>3. \A other \in SessionIds \ {id} : SessionStep(T, sessions[other], sessions'[other])
    BY <2>1 DEF SessionStep
  <2>4. QED
    BY <1>0, <1>2, <2>2, <2>3 DEF IdStep
<1>3. ASSUME UNCHANGED sessions
      PROVE  Goal
  BY <1>0, <1>3 DEF IdStep, SessionStep
<1>4. CASE UNCHANGED vars
  BY <1>3, <1>4 DEF vars
<1>5. CASE Restart
  BY <1>5 DEF Restart, IdStep
<1>6. ASSUME NEW id \in SessionIds, CreateSession(id)
      PROVE  Goal
  <2>1. id \notin live
    BY <1>6 DEF CreateSession, TypeOK
  <2>2. QED
    BY <1>2, <1>6, <2>1 DEF CreateSession
<1>7. ASSUME NEW id \in SessionIds, GetSessionState(id)
      PROVE  Goal
  BY <1>3, <1>7 DEF GetSessionState
<1>8. ASSUME NEW id \in SessionIds, NEW turn \in T, ApplyTurnResult(id, turn)
      PROVE  Goal
  <2>1. SessionStep(T, sessions[id], ApplyTurn(sessions[id], turn))
    BY DEF SessionStep
  <2>2. QED
    BY <1>2, <1>3, <1>8, <2>1 DEF ApplyTurnResult
<1>9. ASSUME NEW id \in SessionIds, NEW target \in Targets, RequestTransition(id, target)
      PROVE  Goal
  <2>1. CASE UNCHANGED sessions
    BY <1>3, <2>1
  <2>2. CASE /\ target # "Unparsable"
             /\ Attempt(sessions[id], target) = "Ok"
             /\ sessions' = [sessions EXCEPT ![id] = Advance(sessions[id], target)]
    <3>1. SessionStep(T, sessions[id], Advance(sessions[id], target))
      BY <2>2 DEF SessionStep, Targets
    <3>2. QED
      BY <1>2, <2>2, <3>1
  <2>3. QED
    BY <1>9, <2>1, <2>2 DEF RequestTransition, Refused
<1>10. ASSUME NEW id \in SessionIds, NEW target \in Targets, RevisitPhase(id, target)
       PROVE  Goal
  <2>1. CASE UNCHANGED sessions
    BY <1>3, <2>1
  <2>2. CASE /\ target # "Unparsable"
             /\ CanRevisit(sessions[id], target)
             /\ sessions' = [sessions EXCEPT ![id] = Revisit(sessions[id], target)]
    <3>1. SessionStep(T, sessions[id], Revisit(sessions[id], target))
      BY <2>2 DEF SessionStep, Targets
    <3>2. QED
      BY <1>2, <2>2, <3>1
  <2>3. QED
    BY <1>10, <2>1, <2>2 DEF RevisitPhase, Refused
<1>11. ASSUME NEW id \in SessionIds, HostWrites(id)
       PROVE  Goal
  <2>1. PICK t : /\ SessionStep(T, sessions[id], t)
                 /\ sessions' = [sessions EXCEPT ![id] = t]
    BY <1>0, <1>11 DEF HostWrites, SessionStep
  <2>2. QED
    BY <1>2, <2>1
<1>12. QED
  BY <1>4, <1>5, <1>6, <1>7, <1>8, <1>9, <1>10, <1>11 DEF KernelStep

(* The answer to a turn, whatever turn it is. *)
LEMMA TurnReply ==
  ASSUME TypeOK, NEW id \in SessionIds, NEW turn \in TurnResults, ApplyTurnResult(id, turn)
  PROVE  reply' \in Replies
<1> USE DEF Replies, Answer
<1>0. /\ sessions[id] \in Sessions
      /\ \A t \in Sessions : t.current_phase \in Phases
      /\ {"Ok", "NotFound", "InvalidArgument", "InvalidTransition"} \subseteq Outcomes
  BY DEF TypeOK, Sessions, Outcomes
<1> DEFINE s == ApplyTurn(sessions[id], turn)
           p == s.current_phase
           ready == TransitionReady(p, s)
           unmet == Cardinality(Unmet(p, s))
<1>1. p \in Phases
  BY <1>0, ApplyTurnFacts
<1>2. ready \in BOOLEAN /\ unmet \in Nat
  BY <1>1, ReadyType, UnmetType
<1>3. \/ reply' = TurnAnswer(id, "Ok", p, ready, unmet)
      \/ reply' = TurnAnswer(id, "NotFound", "None", FALSE, 0)
  BY Zenon DEF ApplyTurnResult
<1> HIDE DEF p, s, ready, unmet
<1>4. \A o \in Outcomes, q \in Phases \cup {"None"}, r \in BOOLEAN, u \in Nat :
        TurnAnswer(id, o, q, r, u) \in Replies
  BY DEF TurnAnswer
<1>5. /\ "Ok" \in Outcomes /\ "NotFound" \in Outcomes
      /\ p \in Phases \cup {"None"} /\ "None" \in Phases \cup {"None"}
      /\ FALSE \in BOOLEAN /\ 0 \in Nat
  BY <1>0, <1>1
<1> HIDE DEF Replies, Answer
<1>6. QED
  BY <1>2, <1>3, <1>4, <1>5, Zenon

(* Every call answers with a message of its kind. *)
LEMMA StepReply ==
  ASSUME NEW T \in SUBSET TurnResults, TypeOK, [KernelStep(T)]_vars
  PROVE  reply' \in Replies
<1> USE DEF Replies, Answer
<1>0. /\ sessions \in [SessionIds -> Sessions]
      /\ reply \in Replies
      /\ \A id \in SessionIds : sessions[id].current_phase \in Phases
      /\ {"Ok", "NotFound", "InvalidArgument", "InvalidTransition"} \subseteq Outcomes
      /\ "ProblemIntake" \in Phases
  BY PhaseFacts DEF TypeOK, Sessions, Outcomes
<1>1. CASE UNCHANGED vars
  BY <1>0, <1>1 DEF vars
<1>2. CASE Restart
  BY <1>2 DEF Restart
<1>3. ASSUME NEW id \in SessionIds, CreateSession(id)
      PROVE  reply' \in Replies
  BY <1>0, <1>3 DEF CreateSession, NewSession
<1>4. ASSUME NEW id \in SessionIds, GetSessionState(id)
      PROVE  reply' \in Replies
  BY <1>0, <1>4 DEF GetSessionState
<1>5. ASSUME NEW id \in SessionIds, NEW turn \in T, ApplyTurnResult(id, turn)
      PROVE  reply' \in Replies
  BY <1>5, TurnReply
<1>6. ASSUME NEW id \in SessionIds, NEW target \in Targets,
             RequestTransition(id, target) \/ RevisitPhase(id, target)
      PROVE  reply' \in Replies
  <2>1. PICK rpc \in {"RequestTransition", "RevisitPhase"},
             o \in Outcomes, q \in Phases \cup {"None"} :
               reply' = Answer(rpc, id, o, q)
    BY <1>0, <1>6, AttemptType DEF RequestTransition, RevisitPhase, Refused, Targets
  <2>2. QED
    BY <2>1
<1>7. ASSUME NEW id \in SessionIds, HostWrites(id)
      PROVE  reply' \in Replies
  BY <1>0, <1>7 DEF HostWrites
<1>8. QED
  BY <1>1, <1>2, <1>3, <1>4, <1>5, <1>6, <1>7 DEF KernelStep

LEMMA TypeStep ==
  ASSUME NEW T \in SUBSET TurnResults, TypeOK, [KernelStep(T)]_vars
  PROVE  TypeOK'
<1>1. live' \subseteq issued' /\ issued' \subseteq SessionIds
  <2>1. \/ UNCHANGED <<live, issued>>
        \/ live' = {} /\ UNCHANGED issued
        \/ \E id \in SessionIds : live' = live \cup {id} /\ issued' = issued \cup {id}
    <3>1. CASE UNCHANGED vars
      BY <3>1 DEF vars
    <3>2. CASE Restart
      BY <3>2 DEF Restart
    <3>3. ASSUME NEW id \in SessionIds, CreateSession(id)
          PROVE  live' = live \cup {id} /\ issued' = issued \cup {id}
      BY <3>3 DEF CreateSession
    <3>4. ASSUME NEW id \in SessionIds,
                 \/ GetSessionState(id) \/ HostWrites(id)
                 \/ \E turn \in T : ApplyTurnResult(id, turn)
                 \/ \E target \in Targets : RequestTransition(id, target)
                 \/ \E target \in Targets : RevisitPhase(id, target)
          PROVE  UNCHANGED <<live, issued>>
      BY <3>4 DEF GetSessionState, HostWrites, ApplyTurnResult, RequestTransition,
                  RevisitPhase, Refused
    <3>5. QED
      BY <3>1, <3>2, <3>3, <3>4 DEF KernelStep
  <2>2. QED
    BY <2>1 DEF TypeOK
<1>2. QED
  BY <1>1, StepOfSession, StepReply DEF TypeOK

(* The map holds well-formed sessions under ids that were handed out, and    *)
(* answers are well formed, in every reachable state of the service.         *)
THEOREM TypeCorrect == Spec => []TypeOK
<1>1. Init => TypeOK
  BY NewSessionType DEF Init, TypeOK, Replies
<1>2. TypeOK /\ [Next]_vars => TypeOK'
  BY TypeStep, NextIsKernelStep
<1>3. QED
  BY <1>1, <1>2, PTL DEF Spec

------------------------------------------------------------------------------
(* Safety.  Earned alone is not inductive: an approved transition keeps the  *)
(* base of a session, but a revisit makes a new one, and that the new base   *)
(* is not the last phase is what Audited knows.  The fields a host program   *)
(* does not write bound what Earned can ever find on file.                   *)

SessionInv(s) == Earned(s) /\ Audited(s) /\ s.fields \subseteq HostFields

Inv == \A id \in SessionIds : SessionInv(sessions[id])

(* A fresh session satisfies the invariant. *)
LEMMA NewSessionInv == SessionInv(NewSession)
<1>1. /\ NewSession.revisit_history = << >>
      /\ NewSession.current_phase = "ProblemIntake"
      /\ NewSession.revisit_target = "None"
      /\ NewSession.fields = {}
  BY DEF NewSession
<1>2. Base(NewSession) = "ProblemIntake"
  BY <1>1 DEF Base
<1>3. QED
  BY <1>1, <1>2, PhaseFacts DEF SessionInv, Earned, Audited

(* The base of a session is a phase.                                         *)
LEMMA BaseType ==
  ASSUME NEW s \in Sessions
  PROVE  Base(s) \in Phases
<1> DEFINE h == s.revisit_history
<1>1. h \in Seq(RevisitRecords)
  BY DEF Sessions
<1> HIDE DEF h
<1>2. CASE h = << >>
  BY <1>2, PhaseFacts DEF Base, h
<1>3. CASE h # << >>
  <2>1. Len(h) \in DOMAIN h
    BY <1>1, <1>3
  <2>2. h[Len(h)] \in RevisitRecords
    BY <1>1, <2>1
  <2>3. QED
    BY <1>3, <2>2 DEF Base, RevisitRecords, h
<1>4. QED
  BY <1>2, <1>3

(* Where a session stands does not matter to its trail as long as it moves   *)
(* forward: the step of a turn, an approved transition and a host write.     *)
LEMMA ForwardKeepsInv ==
  ASSUME NEW s \in Sessions, NEW t \in Sessions, SessionInv(s),
         t.revisit_history = s.revisit_history,
         t.revisit_target = s.revisit_target,
         Rank[t.current_phase] >= Rank[s.current_phase],
         s.fields \subseteq t.fields, t.fields \subseteq HostFields,
         t.current_phase # s.current_phase => GateFields \subseteq s.fields
  PROVE  SessionInv(t)
<1>1. Base(t) = Base(s)
  BY DEF Base
<1>2. Earned(t)
  BY <1>1 DEF SessionInv, Earned
<1>3. /\ Rank[t.current_phase] \in Int
      /\ Rank[s.current_phase] \in Int
      /\ Rank[Base(s)] \in Int
  <2>1. Base(s) \in Phases
    BY BaseType
  <2>2. s.current_phase \in Phases /\ t.current_phase \in Phases
    BY DEF Sessions
  <2>3. QED
    BY <2>1, <2>2, PhaseFacts
<1>4. Audited(t)
  BY <1>1, <1>3 DEF SessionInv, Audited
<1>5. QED
  BY <1>2, <1>4 DEF SessionInv

(* A revisit starts a new base where it puts the session.                    *)
LEMMA RevisitKeepsInv ==
  ASSUME NEW s \in Sessions, NEW target \in Phases, SessionInv(s), CanRevisit(s, target)
  PROVE  SessionInv(Revisit(s, target))
<1> DEFINE r == [from |-> s.current_phase, to |-> target]
           t == Revisit(s, target)
           h == s.revisit_history
           g == t.revisit_history
<1>1. /\ t.current_phase = target
      /\ t.fields = s.fields
      /\ t.revisit_target = target
      /\ g = Append(h, r)
  BY RevisitFacts
<1>2. /\ h \in Seq(RevisitRecords)
      /\ Len(h) \in Nat
      /\ s.current_phase \in Phases
  BY DEF Sessions
<1> HIDE DEF t, h
<1>3. /\ Len(g) = Len(h) + 1
      /\ g # << >>
      /\ g[Len(g)] = r
      /\ \A i \in 1..Len(h) : g[i] = h[i]
      /\ DOMAIN g = 1..(Len(h) + 1)
      /\ DOMAIN h = 1..Len(h)
  BY <1>1, <1>2
<1>4. Base(t) = target
  BY <1>1, <1>3 DEF Base
<1>5. Earned(t)
  BY <1>1, <1>4 DEF Earned
<1>6. Rank[t.current_phase] >= Rank[Base(t)]
  BY <1>1, <1>4, PhaseFacts
<1>7. ASSUME NEW i \in 1..(Len(g) - 1)
      PROVE  Rank[g[i+1].from] >= Rank[g[i].to]
  <2>1. CASE i < Len(h)
    <3>1. i \in 1..(Len(h) - 1) /\ i \in 1..Len(h) /\ i + 1 \in 1..Len(h)
      BY <1>2, <1>3, <2>1
    <3>2. QED
      BY <1>3, <3>1 DEF SessionInv, Audited, h
  <2>2. CASE i = Len(h)
    <3>1. g[i+1].from = s.current_phase /\ g[i] = h[Len(h)] /\ h # << >>
      BY <1>2, <1>3, <2>2
    <3>2. Base(s) = h[Len(h)].to
      BY <3>1 DEF Base, h
    <3>3. QED
      BY <3>1, <3>2 DEF SessionInv, Audited
  <2>3. i \in 1..Len(h)
    BY <1>2, <1>3
  <2>4. QED
    BY <1>2, <2>1, <2>2, <2>3
<1>8. ASSUME NEW i \in DOMAIN g
      PROVE  g[i].from # g[i].to /\ g[i].to # "SignedOff"
  <2>1. CASE i \in DOMAIN h
    BY <1>3, <2>1 DEF SessionInv, Audited, h
  <2>2. CASE i = Len(g)
    BY <1>3, <2>2 DEF CanRevisit, IsTerminal
  <2>3. QED
    BY <1>2, <1>3, <2>1, <2>2
<1>9. Audited(t)
  BY <1>1, <1>3, <1>4, <1>6, <1>7, <1>8 DEF Audited
<1>10. QED
  BY <1>1, <1>5, <1>9 DEF SessionInv, t

(* Every step of a session keeps the invariant.                              *)
LEMMA SessionStepKeepsInv ==
  ASSUME NEW T \in SUBSET TurnResults, NEW s \in Sessions, NEW t \in Sessions,
         SessionInv(s), SessionStep(T, s, t)
  PROVE  SessionInv(t)
<1>0. Rank[s.current_phase] \in Int /\ s.fields \subseteq HostFields
  BY PhaseFacts DEF Sessions, SessionInv
<1>1. CASE t = s
  BY <1>1
<1>2. CASE \E turn \in T : t = ApplyTurn(s, turn)
  <2>1. /\ t.revisit_history = s.revisit_history
        /\ t.revisit_target = s.revisit_target
        /\ t.current_phase = s.current_phase
        /\ t.fields = s.fields
    BY <1>2, ApplyTurnFacts
  <2>2. QED
    BY <1>0, <2>1, ForwardKeepsInv
<1>3. CASE \E target \in Phases : Attempt(s, target) = "Ok" /\ t = Advance(s, target)
  <2>1. PICK target \in Phases : Attempt(s, target) = "Ok" /\ t = Advance(s, target)
    BY <1>3
  <2>2. /\ Rank[target] = Rank[s.current_phase] + 1
        /\ GateFields \subseteq s.fields
    BY <2>1, ApprovedFacts
  <2>3. /\ t.current_phase = target
        /\ t.fields = s.fields
        /\ t.revisit_target = s.revisit_target
        /\ t.revisit_history = s.revisit_history
    BY <2>1, AdvanceFacts
  <2>4. Rank[t.current_phase] >= Rank[s.current_phase]
    BY <1>0, <2>2, <2>3
  <2>5. QED
    BY <1>0, <2>2, <2>3, <2>4, ForwardKeepsInv
<1>4. CASE \E target \in Phases : CanRevisit(s, target) /\ t = Revisit(s, target)
  BY <1>4, RevisitKeepsInv
<1>5. CASE \/ \E f \in HostFields : t = [s EXCEPT !.fields = @ \cup {f}]
           \/ \E r \in HostContexts : t = [s EXCEPT !.regulatory_context = r]
           \/ \E c \in HostWaivers : t = [s EXCEPT !.ac_waived = @ \cup {c}]
  <2>1. /\ t.revisit_history = s.revisit_history
        /\ t.revisit_target = s.revisit_target
        /\ t.current_phase = s.current_phase
        /\ s.fields \subseteq t.fields
    BY <1>5, HostWriteFacts, EngineAssumption DEF EngineAssumption
  <2>2. t.fields \subseteq HostFields
    BY <1>0, <1>5 DEF Sessions
  <2>3. QED
    BY <1>0, <2>1, <2>2, ForwardKeepsInv
<1>6. QED
  BY <1>1, <1>2, <1>3, <1>4, <1>5 DEF SessionStep

LEMMA InvStep ==
  ASSUME NEW T \in SUBSET TurnResults, TypeOK, Inv, [KernelStep(T)]_vars
  PROVE  Inv'
<1> SUFFICES ASSUME NEW id \in SessionIds
             PROVE  SessionInv(sessions[id])'
  BY DEF Inv
<1>1. /\ IdStep(T, id)
      /\ sessions[id] \in Sessions
      /\ sessions'[id] \in Sessions
      /\ SessionInv(sessions[id])
  BY StepOfSession DEF TypeOK, Inv
<1>2. SessionInv(sessions'[id])
  BY <1>1, NewSessionInv, SessionStepKeepsInv DEF IdStep
<1>3. QED
  BY <1>2

LEMMA InvInit == Init => TypeOK /\ Inv
<1>1. Init => TypeOK
  BY NewSessionType DEF Init, TypeOK, Replies
<1>2. Init => Inv
  BY NewSessionInv DEF Init, Inv
<1>3. QED
  BY <1>1, <1>2

(* The invariant holds in every reachable state.                             *)
LEMMA InvCorrect == Spec => [](TypeOK /\ Inv)
<1>1. TypeOK /\ Inv /\ [Next]_vars => Inv'
  BY InvStep, NextIsKernelStep
<1>2. QED
  BY <1>1, InvInit, TypeCorrect, PTL DEF Spec

(* No session leaves the phase where it was created or last revisited unless *)
(* the BRD, the HLD and the client signature are on file.                    *)
THEOREM ArtifactsBeforeAdvance == Spec => []AdvanceNeedsArtifacts
<1>1. Inv => AdvanceNeedsArtifacts
  BY DEF Inv, SessionInv, AdvanceNeedsArtifacts
<1>2. QED
  BY <1>1, InvCorrect, PTL

LEMMA SignedOffIsEarned == TypeOK /\ Inv => SignedOffHasArtifacts
<1> SUFFICES ASSUME TypeOK, Inv, NEW id \in SessionIds, sessions[id].current_phase = "SignedOff"
             PROVE  GateFields \subseteq sessions[id].fields
  BY DEF SignedOffHasArtifacts
<1> DEFINE s == sessions[id]
           h == s.revisit_history
<1>1. SessionInv(s) /\ h \in Seq(RevisitRecords)
  BY DEF Inv, TypeOK, Sessions
<1>2. \A i \in DOMAIN h : h[i].to # "SignedOff"
  BY <1>1 DEF SessionInv, Audited
<1>3. h # << >> => Len(h) \in DOMAIN h
  BY <1>1
<1>4. Base(s) # "SignedOff"
  BY <1>2, <1>3 DEF Base
<1>5. QED
  BY <1>1, <1>4 DEF SessionInv, Earned

(* A signed-off session has its BRD, its HLD and the client signature.       *)
THEOREM ArtifactsBeforeSignOff == Spec => []SignedOffHasArtifacts
BY SignedOffIsEarned, InvCorrect, PTL

(* revisit_history explains where every session stands.                      *)
THEOREM HistoryIsAudit == Spec => []AuditTrail
<1>1. Inv => AuditTrail
  BY DEF Inv, SessionInv, AuditTrail
<1>2. QED
  BY <1>1, InvCorrect, PTL

(* The deployed service, whose host writes no artifact, approves nothing.    *)
THEOREM DeployedNeverAdvances == Spec => []NoAdvanceWithoutHost
<1>1. Inv => NoAdvanceWithoutHost
  BY DEF Inv, SessionInv, Earned, NoAdvanceWithoutHost
<1>2. QED
  BY <1>1, InvCorrect, PTL

------------------------------------------------------------------------------
(* Nothing captured is lost. *)

\* What both loops leave alone or only add to.
LEMMA ApplyTurnKeeps ==
  ASSUME NEW s \in Sessions, NEW turn \in TurnResults
  PROVE  Keeps(s, ApplyTurn(s, turn))
<1> DEFINE es == turn.entities
           a == ApplyEntities(s, es)
           b == ApplyAcUpdates(a, turn.ac_updates)
           d == IF turn.turn_count_delta > 0 THEN turn.turn_count_delta ELSE 0
           t == ApplyTurn(s, turn)
<1>1. /\ es \in Seq(Entities)
      /\ turn.ac_updates \in Seq(AcUpdates)
      /\ turn.cost \in Nat
      /\ d \in Nat
  BY DEF TurnResults
<1>2. a \in Sessions
  BY <1>1, ApplyEntitiesType
<1>3. /\ \A e \in ListedEntities :
           a.captured[e] = s.captured[e] + Cardinality({k \in DOMAIN es : es[k] = e})
      /\ s.assumptions \subseteq a.assumptions
      /\ s.open_questions \subseteq a.open_questions
      /\ a.turn_count = s.turn_count
      /\ a.total_cost = s.total_cost
  BY DEF ApplyEntities, Sessions
<1>4. \A e \in ListedEntities : s.captured[e] <= a.captured[e]
  <2>1. ASSUME NEW e \in ListedEntities
        PROVE  s.captured[e] <= a.captured[e]
    <3>1. s.captured[e] \in Nat
      BY DEF Sessions
    <3>2. Cardinality({k \in DOMAIN es : es[k] = e}) \in Nat
      BY <1>1, CountType
    <3>3. QED
      BY <1>3, <3>1, <3>2
  <2>2. QED
    BY <2>1
<1> HIDE DEF a
<1>5. b \in Sessions
  BY <1>1, <1>2, ApplyAcUpdatesType
<1>6. /\ b.captured = a.captured
      /\ b.assumptions = a.assumptions
      /\ b.open_questions = a.open_questions
      /\ b.turn_count = a.turn_count
      /\ b.total_cost = a.total_cost
  BY <1>2 DEF ApplyAcUpdates, Sessions
<1>7. t = [b EXCEPT !.total_cost = b.total_cost + turn.cost,
                    !.turn_count = b.turn_count + d]
  BY <1>5 DEF ApplyTurn, a, Sessions
<1> HIDE DEF b, d
<1>8. /\ t.captured = b.captured
      /\ t.assumptions = b.assumptions
      /\ t.open_questions = b.open_questions
      /\ t.total_cost = b.total_cost + turn.cost
      /\ t.turn_count = b.turn_count + d
  BY <1>5, <1>7 DEF Sessions
<1>9. t.fields = s.fields /\ t.revisit_history = s.revisit_history
  BY ApplyTurnFacts
<1>10. s.turn_count \in Nat /\ s.total_cost \in Nat /\ s.revisit_history \in Seq(RevisitRecords)
  BY DEF Sessions
<1> HIDE DEF t
<1>11. s.turn_count <= t.turn_count /\ s.total_cost <= t.total_cost
  BY <1>1, <1>3, <1>6, <1>8, <1>10
<1>12. Len(s.revisit_history) <= Len(t.revisit_history)
  BY <1>9, <1>10
<1>13. \A e \in ListedEntities : s.captured[e] <= t.captured[e]
  BY <1>4, <1>6, <1>8
<1>14. s.assumptions \subseteq t.assumptions /\ s.open_questions \subseteq t.open_questions
  BY <1>3, <1>6, <1>8
<1>15. QED
  BY <1>9, <1>11, <1>12, <1>13, <1>14 DEF Keeps, t

\* A step that touches none of the captured data keeps it.
LEMMA SameDataKeeps ==
  ASSUME NEW s \in Sessions, NEW t \in Sessions,
         s.fields \subseteq t.fields,
         t.captured = s.captured, t.assumptions = s.assumptions,
         t.open_questions = s.open_questions,
         t.turn_count = s.turn_count, t.total_cost = s.total_cost,
         \/ t.revisit_history = s.revisit_history
         \/ \E r \in RevisitRecords : t.revisit_history = Append(s.revisit_history, r)
  PROVE  Keeps(s, t)
<1> DEFINE h == s.revisit_history
           g == t.revisit_history
<1>1. /\ h \in Seq(RevisitRecords)
      /\ s.turn_count \in Nat
      /\ s.total_cost \in Nat
      /\ \A e \in ListedEntities : s.captured[e] \in Nat
  BY DEF Sessions
<1>2. g = h \/ \E r \in RevisitRecords : g = Append(h, r)
  OBVIOUS
<1> HIDE DEF h, g
<1>3. Len(h) <= Len(g) /\ \A i \in DOMAIN h : h[i] = g[i]
  BY <1>1, <1>2
<1>4. QED
  BY <1>1, <1>3 DEF Keeps, h, g

(* Every step of a session keeps what it captured.                           *)
LEMMA SessionStepKeeps ==
  ASSUME NEW T \in SUBSET TurnResults, NEW s \in Sessions, NEW t \in Sessions,
         SessionStep(T, s, t)
  PROVE  Keeps(s, t)
<1>1. CASE t = s
  BY <1>1, SameDataKeeps
<1>2. CASE \E turn \in T : t = ApplyTurn(s, turn)
  BY <1>2, ApplyTurnKeeps
<1>3. CASE \E target \in Phases : Attempt(s, target) = "Ok" /\ t = Advance(s, target)
  <2>1. PICK target \in Phases : t = [s EXCEPT !.current_phase = target]
    BY <1>3 DEF Advance
  <2>2. QED
    BY <2>1, SameDataKeeps DEF Sessions
<1>4. CASE \E target \in Phases : CanRevisit(s, target) /\ t = Revisit(s, target)
  <2>1. PICK target \in Phases : t = Revisit(s, target)
    BY <1>4
  <2> DEFINE r == [from |-> s.current_phase, to |-> target]
  <2>2. r \in RevisitRecords /\ t.revisit_history = Append(s.revisit_history, r)
    BY <2>1, RevisitFacts DEF Sessions, RevisitRecords
  <2>3. /\ t.captured = s.captured /\ t.assumptions = s.assumptions
        /\ t.open_questions = s.open_questions /\ t.fields = s.fields
        /\ t.turn_count = s.turn_count /\ t.total_cost = s.total_cost
    BY <2>1 DEF Revisit, Sessions
  <2> HIDE DEF r
  <2>4. QED
    BY <2>2, <2>3, SameDataKeeps
<1>5. CASE \E f \in HostFields : t = [s EXCEPT !.fields = @ \cup {f}]
  <2>1. PICK f \in HostFields : t = [s EXCEPT !.fields = @ \cup {f}]
    BY <1>5
  <2>2. QED
    BY <2>1, SameDataKeeps DEF Sessions
<1>6. CASE \/ \E r \in HostContexts : t = [s EXCEPT !.regulatory_context = r]
           \/ \E c \in HostWaivers : t = [s EXCEPT !.ac_waived = @ \cup {c}]
  BY <1>6, SameDataKeeps DEF Sessions
<1>7. QED
  BY <1>1, <1>2, <1>3, <1>4, <1>5, <1>6 DEF SessionStep

LEMMA StepKeepsAll ==
  ASSUME NEW T \in SUBSET TurnResults, TypeOK, [KernelStep(T)]_vars
  PROVE  \A id \in live \cap live' : Keeps(sessions[id], sessions'[id])
<1> SUFFICES ASSUME NEW id \in live \cap live'
             PROVE  Keeps(sessions[id], sessions'[id])
  OBVIOUS
<1>1. id \in SessionIds
  BY DEF TypeOK
<1>2. SessionStep(T, sessions[id], sessions'[id])
  BY <1>1, StepOfSession DEF IdStep
<1>3. sessions[id] \in Sessions /\ sessions'[id] \in Sessions
  BY <1>1, StepOfSession DEF TypeOK
<1>4. QED
  BY <1>2, <1>3, SessionStepKeeps

(* No call loses anything a session captured.                                *)
THEOREM NothingIsForgotten == Spec => NothingForgotten
<1>1. TypeOK /\ [Next]_vars =>
        [\A id \in live \cap live' : Keeps(sessions[id], sessions'[id])]_vars
  BY StepKeepsAll, NextIsKernelStep
<1>2. QED
  BY <1>1, TypeCorrect, PTL DEF Spec, NothingForgotten

------------------------------------------------------------------------------
(* Readiness. *)

\* What a step leaves of the data the criteria read.
Grows(s, t) ==
  /\ s.fields \subseteq t.fields
  /\ \A e \in ListedEntities : s.captured[e] <= t.captured[e]
  /\ s.assumptions \subseteq t.assumptions
  /\ s.regulatory_context # "None" => t.regulatory_context # "None"

\* The field checks of all phases.
Checks(s) == S1Checks(s) \cup S2Checks(s) \cup S3Checks(s) \cup
             S4Checks(s) \cup S5Checks(s) \cup S6Checks(s)

(* The field of a criterion, once met, stays met, but for the optional ones, *)
(* one of which a waiver meets.                                              *)
LEMMA FieldMetGrows ==
  ASSUME NEW s \in Sessions, NEW t \in Sessions, Grows(s, t),
         NEW c \in FieldMet(s), c[2] \notin Optional
  PROVE  c \in FieldMet(t)
<1> DEFINE Passed(C, d) == \E k \in C : k[1] = d /\ k[2]
<1>1. \A f : Has(s, f) => Has(t, f)
  BY DEF Grows, Has
<1>2. \A type, v : [type |-> type, value |-> v] \in ListedEntities =>
        /\ Captured(s, type, v) \in Nat /\ Captured(t, type, v) \in Nat
        /\ Captured(s, type, v) <= Captured(t, type, v)
  BY DEF Grows, Captured, Sessions
<1>3. /\ \A v \in {"decision_maker", "other"} : [type |-> "actor", value |-> v] \in ListedEntities
      /\ \A v \in {"Functional", "NonFunctional"} :
           [type |-> "requirement", value |-> v] \in ListedEntities
      /\ \A v \in {"Budget", "Timeline", "Technology", "DataResidency"} :
           [type |-> "constraint", value |-> v] \in ListedEntities
  BY DEF ListedEntities, ActorEntities, RequirementEntities, ConstraintEntities
<1>4. \A x : c \in FieldMet(x) <=> Passed(Checks(x), c)
  BY DEF FieldMet, Checks
<1>5. Passed(S1Checks(s), c) => Passed(S1Checks(t), c)
  BY <1>1 DEF S1Checks, Documents
<1>6. Passed(S2Checks(s), c) => Passed(S2Checks(t), c)
  <2> DEFINE Two(x) == Captured(x, "actor", "other") + Captured(x, "actor", "decision_maker") >= 2
             One(x) == Captured(x, "actor", "decision_maker") >= 1
             Known(x) == x.regulatory_context # "None"
  <2>1. (Two(s) => Two(t)) /\ (One(s) => One(t)) /\ (Known(s) => Known(t))
    BY <1>2, <1>3 DEF Grows
  <2> DEFINE List(x) ==
          {<<<<2, "01">>, Two(x)>>, <<<<2, "02">>, One(x)>>,
           <<<<2, "03">>, Has(x, "external_systems")>>,
           <<<<2, "04">>, Has(x, "success_definition")>>,
           <<<<2, "05">>, Known(x)>>, <<<<2, "U1">>, Documents(x)>>}
  <2>2. S2Checks(s) = List(s) /\ S2Checks(t) = List(t)
    BY Zenon DEF S2Checks
  <2>3. Documents(s) => Documents(t)
    BY <1>1 DEF Documents
  <2> HIDE DEF Two, One, Known
  <2>4. Passed(List(s), c) => Passed(List(t), c)
    BY <1>1, <2>1, <2>3
  <2> HIDE DEF List
  <2>5. QED
    BY <2>2, <2>4
<1>7. Passed(S3Checks(s), c) => Passed(S3Checks(t), c)
  <2> DEFINE Five(x) == Captured(x, "requirement", "Functional") >= 5
             One(x) == Captured(x, "requirement", "NonFunctional") >= 1
             Waived(x) == Documents(x) \/ <<3, "U1">> \in x.ac_waived
  <2>1. (Five(s) => Five(t)) /\ (One(s) => One(t))
    BY <1>2, <1>3
  <2> DEFINE List(x) ==
          {<<<<3, "01">>, Five(x)>>, <<<<3, "02">>, One(x)>>,
           <<<<3, "U1">>, Waived(x)>>, <<<<3, "U2">>, Documents(x)>>}
  <2>2. S3Checks(s) = List(s) /\ S3Checks(t) = List(t)
    BY Zenon DEF S3Checks
  <2>3. c # <<3, "U1">>
    BY DEF Optional
  <2>4. Documents(s) => Documents(t)
    BY <1>1 DEF Documents
  <2> HIDE DEF Five, One, Waived
  <2>5. Passed(List(s), c) => Passed(List(t), c)
    BY <1>1, <2>1, <2>3, <2>4
  <2> HIDE DEF List
  <2>6. QED
    BY <2>2, <2>5
<1>8. Passed(S4Checks(s), c) => Passed(S4Checks(t), c)
  <2> DEFINE One(x, v) == Captured(x, "constraint", v) >= 1
             Assumed(x) == x.assumptions # {}
  <2>1. \A v \in {"Budget", "Timeline", "Technology", "DataResidency"} : One(s, v) => One(t, v)
    BY <1>2, <1>3
  <2>2. Assumed(s) => Assumed(t)
    BY DEF Grows
  <2> DEFINE List(x) ==
          {<<<<4, "01">>, One(x, "Budget")>>, <<<<4, "02">>, One(x, "Timeline")>>,
           <<<<4, "03">>, One(x, "Technology")>>, <<<<4, "04">>, One(x, "DataResidency")>>,
           <<<<4, "05">>, Assumed(x)>>,
           <<<<4, "U1">>, Documents(x)>>, <<<<4, "U2">>, Documents(x)>>}
  <2>3. S4Checks(s) = List(s) /\ S4Checks(t) = List(t)
    BY Zenon DEF S4Checks
  <2>4. Documents(s) => Documents(t)
    BY <1>1 DEF Documents
  <2> HIDE DEF One, Assumed
  <2>5. Passed(List(s), c) => Passed(List(t), c)
    BY <1>1, <2>1, <2>2, <2>4
  <2> HIDE DEF List
  <2>6. QED
    BY <2>3, <2>5
<1>9. Passed(S5Checks(s), c) => Passed(S5Checks(t), c)
  BY <1>1 DEF S5Checks, Documents
<1>10. Passed(S6Checks(s), c) => Passed(S6Checks(t), c)
  BY <1>1 DEF S6Checks
<1>11. QED
  BY <1>4, <1>5, <1>6, <1>7, <1>8, <1>9, <1>10 DEF Checks

(* If every update of a criterion meets it, the last one does.               *)
LEMMA LastMention ==
  ASSUME NEW us \in Seq(AcUpdates), NEW i \in DOMAIN us,
         \A k \in DOMAIN us : us[k].criterion = us[i].criterion => us[k].met
  PROVE  \E l \in DOMAIN us : /\ us[l].criterion = us[i].criterion
                              /\ us[l].met
                              /\ \A k \in DOMAIN us :
                                   k > l => us[k].criterion # us[l].criterion
<1> DEFINE n == Len(us)
           back == {m \in 0..n : n - m \in DOMAIN us /\ us[n - m].criterion = us[i].criterion}
<1>1. n \in Nat /\ DOMAIN us = 1..n
  OBVIOUS
<1>2. n - i \in back
  BY <1>1
<1>3. back \subseteq Nat
  BY <1>1
<1>4. PICK m \in back : \A k \in back : ~(<<k, m>> \in OpToRel(<, Nat))
  <2> HIDE DEF back
  <2> QED
    BY <1>2, <1>3, NatLessThanWellFounded, WFMin
<1>5. \A k \in back : ~(k < m)
  BY <1>3, <1>4 DEF OpToRel
<1>6. \A k \in DOMAIN us : k > n - m => us[k].criterion # us[i].criterion
  <2>1. ASSUME NEW k \in DOMAIN us, k > n - m, us[k].criterion = us[i].criterion
        PROVE  FALSE
    <3>1. n - k \in back
      BY <1>1, <2>1
    <3>2. n - k < m
      BY <1>1, <2>1
    <3> QED
      BY <1>5, <3>1, <3>2
  <2> QED
    BY <2>1
<1>7. QED
  BY <1>6

(* A turn without an update of a criterion to unmet keeps it met or waived.  *)
LEMMA TurnKeepsMet ==
  ASSUME NEW s \in Sessions, NEW turn \in TurnResults,
         NEW c \in s.ac_met \cup s.ac_waived,
         \A i \in DOMAIN turn.ac_updates :
           turn.ac_updates[i].criterion = c => turn.ac_updates[i].met
  PROVE  c \in ApplyTurn(s, turn).ac_met \cup ApplyTurn(s, turn).ac_waived
<1> DEFINE us == turn.ac_updates
           mentioned  == {us[k].criterion : k \in DOMAIN us}
           everMet    == {us[k].criterion : k \in {l \in DOMAIN us : us[l].met}}
           finallyMet == {us[k].criterion : k \in
                            {l \in DOMAIN us :
                               /\ us[l].met
                               /\ \A n \in DOMAIN us :
                                    n > l => us[n].criterion # us[l].criterion}}
           a == ApplyEntities(s, turn.entities)
           met == (a.ac_met \ mentioned) \cup finallyMet
           waived == a.ac_waived \ everMet
           b == [a EXCEPT !.ac_met = met, !.ac_waived = waived]
<1>1. a.ac_met = s.ac_met /\ a.ac_waived = s.ac_waived /\ a \in Sessions
  <2>1. turn.entities \in Seq(Entities)
    BY DEF TurnResults
  <2> QED
    BY <2>1, ApplyEntitiesType DEF ApplyEntities, Sessions
<1>2. ApplyAcUpdates(a, us) = b
  BY DEF ApplyAcUpdates
<1>3. b.ac_met = met /\ b.ac_waived = waived /\ b \in Sessions
  <2>1. us \in Seq(AcUpdates)
    BY DEF TurnResults
  <2>2. b \in Sessions
    BY <1>1, <1>2, <2>1, ApplyAcUpdatesType
  <2> HIDE DEF met, waived, a
  <2> QED
    BY <1>1, <2>2 DEF Sessions
<1>4. ApplyTurn(s, turn).ac_met = met /\ ApplyTurn(s, turn).ac_waived = waived
  <2> HIDE DEF b, met, waived, a, us
  <2>1. ApplyTurn(s, turn) =
          [b EXCEPT !.total_cost = @ + turn.cost,
                    !.turn_count = @ + (IF turn.turn_count_delta > 0
                                        THEN turn.turn_count_delta ELSE 0)]
    BY <1>2 DEF ApplyTurn, a, us
  <2> QED
    BY <1>3, <2>1 DEF Sessions
<1>5. CASE c \in mentioned
  <2>1. us \in Seq(AcUpdates)
    BY DEF TurnResults
  <2>2. PICK i \in DOMAIN us : us[i].criterion = c
    BY <1>5
  <2>3. c \in finallyMet
    <3>1. \A k \in DOMAIN us : us[k].criterion = us[i].criterion => us[k].met
      BY <2>2
    <3> HIDE DEF us
    <3>2. PICK l \in DOMAIN us : /\ us[l].criterion = us[i].criterion
                                 /\ us[l].met
                                 /\ \A k \in DOMAIN us :
                                      k > l => us[k].criterion # us[l].criterion
      BY <2>1, <3>1, LastMention
    <3> QED
      BY <2>2, <3>2
  <2> QED
    BY <1>4, <2>3
<1>6. CASE c \notin mentioned
  <2>1. c \notin everMet
    BY <1>6
  <2> QED
    BY <1>1, <1>4, <1>6, <2>1
<1>7. QED
  BY <1>5, <1>6

(* Readiness is lost only where a criterion that was met is met no more.     *)
LEMMA ReadinessLost ==
  ASSUME NEW s \in Sessions, NEW t \in Sessions, Grows(s, t), NEW p \in Phases,
         TransitionReady(p, s), ~TransitionReady(p, t)
  PROVE  \E c \in Criteria(p) : /\ c \in s.ac_met \cup s.ac_waived
                                /\ c \notin t.ac_met \cup t.ac_waived
<1>1. PICK c \in Unmet(p, t) : c[2] \notin Optional
  BY DEF TransitionReady
<1>2. /\ c \in Criteria(p)
      /\ c \notin t.ac_met \cup FieldMet(t) \cup t.ac_waived
      /\ ~IsTerminal(p)
  BY <1>1 DEF Unmet
<1>3. c \in s.ac_met \cup FieldMet(s) \cup s.ac_waived
  BY <1>1, <1>2 DEF TransitionReady, Unmet
<1>4. c \notin FieldMet(s)
  BY <1>1, <1>2, FieldMetGrows
<1>5. QED
  BY <1>2, <1>3, <1>4

(* Every step of a session leaves a ready phase ready, or un-meets one of    *)
(* its criteria.                                                             *)
LEMMA SessionStepReady ==
  ASSUME NEW T \in SUBSET TurnResults, NEW s \in Sessions, NEW t \in Sessions,
         SessionStep(T, s, t), NEW p \in Phases,
         TransitionReady(p, s), ~TransitionReady(p, t)
  PROVE  \E turn \in T : \E i \in DOMAIN turn.ac_updates :
           /\ ~turn.ac_updates[i].met
           /\ turn.ac_updates[i].criterion \in Criteria(p)
           /\ t = ApplyTurn(s, turn)
<1>1. s.regulatory_context # "None" => t.regulatory_context # "None"
  <2>1. CASE \E turn \in T : t = ApplyTurn(s, turn)
    <3>1. PICK turn \in T : t = ApplyTurn(s, turn)
      BY <2>1
    <3>2. t.regulatory_context = s.regulatory_context
      BY <3>1 DEF ApplyTurn, ApplyAcUpdates, ApplyEntities, Sessions
    <3> QED
      BY <3>2
  <2>2. CASE \E r \in HostContexts : t = [s EXCEPT !.regulatory_context = r]
    BY <2>2, EngineAssumption DEF EngineAssumption, Sessions
  <2>3. CASE \/ t = s
             \/ \E target \in Phases : Attempt(s, target) = "Ok" /\ t = Advance(s, target)
             \/ \E target \in Phases : CanRevisit(s, target) /\ t = Revisit(s, target)
             \/ \E f \in HostFields : t = [s EXCEPT !.fields = @ \cup {f}]
             \/ \E c \in HostWaivers : t = [s EXCEPT !.ac_waived = @ \cup {c}]
    BY <2>3 DEF Advance, Revisit, Sessions
  <2>4. QED
    BY <2>1, <2>2, <2>3 DEF SessionStep
<1>2. Grows(s, t)
  BY <1>1, SessionStepKeeps DEF Keeps, Grows
<1>3. PICK c \in Criteria(p) : c \in s.ac_met \cup s.ac_waived /\ c \notin t.ac_met \cup t.ac_waived
  BY <1>2, ReadinessLost
<1>4. CASE \E turn \in T : t = ApplyTurn(s, turn)
  <2>1. PICK turn \in T : t = ApplyTurn(s, turn)
    BY <1>4
  <2>2. turn \in TurnResults
    BY <2>1
  <2>3. PICK i \in DOMAIN turn.ac_updates :
          turn.ac_updates[i].criterion = c /\ ~turn.ac_updates[i].met
    BY <1>3, <2>1, <2>2, TurnKeepsMet
  <2> QED
    BY <1>3, <2>1, <2>3
<1>5. CASE ~\E turn \in T : t = ApplyTurn(s, turn)
  <2>1. \/ t = s
        \/ \E target \in Phases : Attempt(s, target) = "Ok" /\ t = Advance(s, target)
        \/ \E target \in Phases : CanRevisit(s, target) /\ t = Revisit(s, target)
        \/ \E f \in HostFields : t = [s EXCEPT !.fields = @ \cup {f}]
        \/ \E r \in HostContexts : t = [s EXCEPT !.regulatory_context = r]
        \/ \E w \in HostWaivers : t = [s EXCEPT !.ac_waived = s.ac_waived \cup {w}]
    BY <1>5 DEF SessionStep
  <2>2. t.ac_met = s.ac_met /\ s.ac_waived \subseteq t.ac_waived
    BY <2>1 DEF Advance, Revisit, Sessions
  <2> QED
    BY <1>3, <2>2
<1>6. QED
  BY <1>4, <1>5

(* A phase that was ready stays ready until an update un-meets one of its    *)
(* criteria, whatever entities, revisits, transitions and host writes come.  *)
THEOREM ReadinessStays == Spec => ReadinessIsSticky
<1> DEFINE Step ==
      \A id \in live \cap live', p \in Phases :
        TransitionReady(p, sessions[id]) /\ ~TransitionReady(p, sessions'[id]) =>
          \E turn \in Turns : \E i \in DOMAIN turn.ac_updates :
            /\ ~turn.ac_updates[i].met
            /\ turn.ac_updates[i].criterion \in Criteria(p)
            /\ sessions'[id] = ApplyTurn(sessions[id], turn)
<1>1. ASSUME TypeOK, [Next]_vars
      PROVE  Step
  <2> SUFFICES ASSUME NEW id \in live \cap live', NEW p \in Phases,
                      TransitionReady(p, sessions[id]), ~TransitionReady(p, sessions'[id])
               PROVE  \E turn \in Turns : \E i \in DOMAIN turn.ac_updates :
                        /\ ~turn.ac_updates[i].met
                        /\ turn.ac_updates[i].criterion \in Criteria(p)
                        /\ sessions'[id] = ApplyTurn(sessions[id], turn)
    OBVIOUS
  <2>1. id \in SessionIds
    BY <1>1 DEF TypeOK
  <2>2. SessionStep(Turns, sessions[id], sessions'[id])
    BY <1>1, <2>1, StepOfSession, NextIsKernelStep DEF IdStep
  <2>3. sessions[id] \in Sessions /\ sessions'[id] \in Sessions
    BY <1>1, <2>1, StepOfSession, NextIsKernelStep DEF TypeOK
  <2>4. QED
    BY <2>2, <2>3, SessionStepReady, NextIsKernelStep
<1>2. TypeOK /\ [Next]_vars => [Step]_vars
  BY <1>1
<1>3. QED
  BY <1>2, TypeCorrect, PTL DEF Spec, ReadinessIsSticky
=============================================================================
