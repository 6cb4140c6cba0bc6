--------------------------- MODULE TurnFlowProofs ---------------------------
(***************************************************************************)
(* What holds of turns through the three services for every number of      *)
(* requests and sessions, every set of messages and every schedule.  A     *)
(* request only ever holds a snapshot that its session has grown from      *)
(* since; that is why what the agents conclude from it is still true when  *)
(* the kernel takes it in.                                                 *)
(***************************************************************************)
EXTENDS TurnFlow, StateEngineProofs, FunctionTheorems

------------------------------------------------------------------------------
(* Counting the entities of a turn. *)

Occurs(es, e) == Cardinality({i \in DOMAIN es : es[i] = e})

LEMMA OccursType ==
  ASSUME NEW es \in Seq(Entities), NEW e
  PROVE  /\ IsFiniteSet({i \in DOMAIN es : es[i] = e})
         /\ Occurs(es, e) \in Nat
<1>1. IsFiniteSet(1..Len(es))
  BY FS_Interval
<1>2. IsFiniteSet({i \in DOMAIN es : es[i] = e})
  BY <1>1, FS_Subset
<1>3. QED
  BY <1>2, FS_CardinalityType DEF Occurs

\* Of a type with two classes, the entities of the type are those of either class.
LEMMA CountByClass ==
  ASSUME NEW es \in Seq(Entities), NEW type, NEW v, NEW w, v # w,
         \A e \in Entities : e.type = type =>
           e = [type |-> type, value |-> v] \/ e = [type |-> type, value |-> w]
  PROVE  Cardinality({i \in DOMAIN es : es[i].type = type}) =
           Occurs(es, [type |-> type, value |-> v]) + Occurs(es, [type |-> type, value |-> w])
<1> DEFINE V == {i \in DOMAIN es : es[i] = [type |-> type, value |-> v]}
           W == {i \in DOMAIN es : es[i] = [type |-> type, value |-> w]}
<1>1. \A i \in DOMAIN es : es[i] \in Entities
  OBVIOUS
<1>2. {i \in DOMAIN es : es[i].type = type} = V \cup W
  BY <1>1
<1>3. V \cap W = {}
  <2>1. [type |-> type, value |-> v] # [type |-> type, value |-> w]
    OBVIOUS
  <2>2. QED
    BY <2>1
<1>4. IsFiniteSet(V) /\ IsFiniteSet(W)
  BY OccursType
<1>5. Cardinality(V \cup W) = Cardinality(V) + Cardinality(W) - Cardinality(V \cap W)
  BY <1>4, FS_Union
<1>6. Cardinality(V \cap W) = 0
  BY <1>3, FS_EmptySet
<1>7. Cardinality(V) = Occurs(es, [type |-> type, value |-> v])
      /\ Cardinality(W) = Occurs(es, [type |-> type, value |-> w])
  BY DEF Occurs
<1> HIDE DEF V, W
<1>8. Cardinality(V) \in Nat /\ Cardinality(W) \in Nat
  BY <1>4, FS_CardinalityType
<1>9. Cardinality(V \cup W) = Cardinality(V) + Cardinality(W)
  BY <1>5, <1>6, <1>8
<1>10. QED
  BY <1>2, <1>7, <1>9

LEMMA NoOccurrence ==
  ASSUME NEW type
  PROVE  Cardinality({i \in DOMAIN <<>> : <<>>[i].type = type}) = 0
<1>1. {i \in DOMAIN <<>> : <<>>[i].type = type} = {}
  OBVIOUS
<1>2. QED
  BY <1>1, FS_EmptySet

\* What the session will hold of one class when the turn is applied to it.
Total(s, es, type, v) == Captured(s, type, v) + Occurs(es, [type |-> type, value |-> v])

LEMMA ClassesOfTypes ==
  \A e \in Entities : e.type = "actor" =>
    \/ e = [type |-> "actor", value |-> "decision_maker"]
    \/ e = [type |-> "actor", value |-> "other"]
BY DEF Entities, ListedEntities, ActorEntities, RequirementEntities, ConstraintEntities

LEMMA CapturedType ==
  ASSUME NEW s \in Sessions
  PROVE  /\ Captured(s, "actor", "decision_maker") \in Nat
         /\ Captured(s, "actor", "other") \in Nat
BY DEF Captured, Sessions, ListedEntities, ActorEntities

LEMMA CountsAreTotals ==
  ASSUME NEW s \in Sessions, NEW es \in Seq(Entities)
  PROVE  /\ ActorCount(s, es) = Total(s, es, "actor", "decision_maker")
                                + Total(s, es, "actor", "other")
<1>1. Cardinality({i \in DOMAIN es : es[i].type = "actor"}) =
        Occurs(es, [type |-> "actor", value |-> "decision_maker"])
        + Occurs(es, [type |-> "actor", value |-> "other"])
  <2>1. "decision_maker" # "other"
    OBVIOUS
  <2>2. QED
    BY <2>1, ClassesOfTypes, CountByClass
<1>2. \A e : Occurs(es, e) \in Nat
  BY OccursType
<1>3. ActorCount(s, es) = Captured(s, "actor", "decision_maker") + Captured(s, "actor", "other")
                          + Cardinality({i \in DOMAIN es : es[i].type = "actor"})
  BY DEF ActorCount, Mentioned
<1>4. QED
  BY <1>1, <1>2, <1>3, CapturedType DEF Total

------------------------------------------------------------------------------
(* What applying a turn does to the counts and to the criteria. *)

LEMMA ApplyTurnEffects ==
  ASSUME NEW s \in Sessions, NEW es \in Seq(Entities), NEW us \in Seq(AcUpdates), NEW turn,
         turn = [entities |-> es, ac_updates |-> us, cost |-> 0, turn_count_delta |-> 1]
  PROVE  LET t == ApplyTurn(s, turn)
         IN  /\ t \in Sessions
             /\ \A e \in ListedEntities : t.captured[e] = s.captured[e] + Occurs(es, e)
             /\ t.turn_count = s.turn_count + 1
             /\ \A c \in t.ac_met \ s.ac_met : \E i \in DOMAIN us : us[i].criterion = c
<1> DEFINE a == ApplyEntities(s, es)
           b == ApplyAcUpdates(a, us)
           t == ApplyTurn(s, turn)
<1>1. turn \in TurnResults
  BY DEF TurnResults
<1>2. t \in Sessions
  BY <1>1, ApplyTurnFacts
<1>3. a \in Sessions
  BY ApplyEntitiesType
<1>4. /\ \A e \in ListedEntities : a.captured[e] = s.captured[e] + Occurs(es, e)
      /\ a.turn_count = s.turn_count /\ a.ac_met = s.ac_met
  BY DEF ApplyEntities, Sessions, Occurs
<1> HIDE DEF a
<1>5. b \in Sessions
  BY <1>3, ApplyAcUpdatesType
<1>6. b.captured = a.captured /\ b.turn_count = a.turn_count
  BY <1>3 DEF ApplyAcUpdates, Sessions
<1>7. \A c \in b.ac_met \ a.ac_met : \E i \in DOMAIN us : us[i].criterion = c
  BY <1>3 DEF ApplyAcUpdates, Sessions
<1> HIDE DEF b
<1>8. ApplyTurn(s, turn) = [b EXCEPT !.total_cost = b.total_cost + 0,
                                     !.turn_count = b.turn_count + 1]
  BY <1>5 DEF ApplyTurn, b, a, Sessions
<1>9. t.captured = b.captured /\ t.turn_count = b.turn_count + 1 /\ t.ac_met = b.ac_met
  BY <1>5, <1>8 DEF Sessions
<1>10. QED
  BY <1>2, <1>4, <1>6, <1>7, <1>9

\* Of the criteria an agent may report those of StakeholderDiscovery are borne out by
\* the snapshot and the turn, and all are reported as met.
Supports(s, es, us) ==
  \A i \in DOMAIN us :
    /\ us[i].met
    /\ \/ /\ us[i].criterion = <<2, "01">>
          /\ Total(s, es, "actor", "decision_maker") + Total(s, es, "actor", "other") >= 2
       \/ us[i].criterion = <<2, "02">> /\ Total(s, es, "actor", "decision_maker") >= 1
       \/ us[i].criterion = <<3, "01">>

Evident(s) ==
  /\ <<2, "01">> \in s.ac_met => ActorCount(s, <<>>) >= 2
  /\ <<2, "02">> \in s.ac_met => Captured(s, "actor", "decision_maker") >= 1

LEMMA EmptyCounts ==
  ASSUME NEW s \in Sessions
  PROVE  /\ ActorCount(s, <<>>) =
              Captured(s, "actor", "decision_maker") + Captured(s, "actor", "other")
<1>1. Cardinality({i \in DOMAIN <<>> : <<>>[i].type = "actor"}) = 0
  BY NoOccurrence
<1>2. QED
  BY <1>1, CapturedType DEF ActorCount, Mentioned

Grown(s, t) == \A e \in ListedEntities : s.captured[e] <= t.captured[e]

LEMMA EvidenceGrows ==
  ASSUME NEW snap \in Sessions, NEW s \in Sessions, Grown(snap, s), Evident(s),
         NEW es \in Seq(Entities), NEW us \in Seq(AcUpdates), Supports(snap, es, us),
         NEW t \in Sessions,
         \A e \in ListedEntities : t.captured[e] = s.captured[e] + Occurs(es, e),
         \A c \in t.ac_met \ s.ac_met : \E i \in DOMAIN us : us[i].criterion = c
  PROVE  Evident(t)
<1> DEFINE dm == [type |-> "actor", value |-> "decision_maker"]
           ot == [type |-> "actor", value |-> "other"]
<1>1. {dm, ot} \subseteq ListedEntities
  BY DEF ListedEntities, ActorEntities
<1>2. \A e \in {dm, ot} :
        /\ snap.captured[e] \in Nat /\ s.captured[e] \in Nat /\ t.captured[e] \in Nat
        /\ Occurs(es, e) \in Nat
        /\ snap.captured[e] <= s.captured[e]
        /\ t.captured[e] = s.captured[e] + Occurs(es, e)
  BY <1>1, OccursType DEF Sessions, Grown
<1>3. /\ ActorCount(s, <<>>) = s.captured[dm] + s.captured[ot]
      /\ ActorCount(t, <<>>) = t.captured[dm] + t.captured[ot]
      /\ Captured(s, "actor", "decision_maker") = s.captured[dm]
      /\ Captured(t, "actor", "decision_maker") = t.captured[dm]
  BY EmptyCounts DEF Captured
<1>4. /\ Total(snap, es, "actor", "decision_maker") = snap.captured[dm] + Occurs(es, dm)
      /\ Total(snap, es, "actor", "other") = snap.captured[ot] + Occurs(es, ot)
  BY DEF Total, Captured
\* The numbers for each class: in the session before and after, and the snapshot's
\* with what the turn adds.
<1> DEFINE S(e) == s.captured[e]
           T(e) == t.captured[e]
           P(e) == snap.captured[e]
           O(e) == Occurs(es, e)
<1>5. \A e \in {dm, ot} :
        /\ P(e) \in Nat /\ S(e) \in Nat /\ O(e) \in Nat
        /\ P(e) <= S(e)
        /\ T(e) = S(e) + O(e)
  BY <1>2
<1>6. /\ ActorCount(s, <<>>) = S(dm) + S(ot) /\ ActorCount(t, <<>>) = T(dm) + T(ot)
      /\ Captured(s, "actor", "decision_maker") = S(dm)
      /\ Captured(t, "actor", "decision_maker") = T(dm)
      /\ Total(snap, es, "actor", "decision_maker") = P(dm) + O(dm)
      /\ Total(snap, es, "actor", "other") = P(ot) + O(ot)
  BY <1>3, <1>4
<1> HIDE DEF dm, ot, S, T, P, O
<1>7. ASSUME <<2, "01">> \in t.ac_met PROVE ActorCount(t, <<>>) >= 2
  <2>1. S(dm) + S(ot) >= 2 \/ (P(dm) + O(dm)) + (P(ot) + O(ot)) >= 2
    <3>1. CASE <<2, "01">> \in s.ac_met
      BY <1>6, <3>1 DEF Evident
    <3>2. CASE <<2, "01">> \notin s.ac_met
      <4>1. PICK i \in DOMAIN us : us[i].criterion = <<2, "01">>
        BY <1>7, <3>2
      <4>2. us[i].criterion # <<2, "02">> /\ us[i].criterion # <<3, "01">>
        BY <4>1
      <4>3. QED
        BY <1>6, <4>1, <4>2 DEF Supports
    <3>3. QED
      BY <3>1, <3>2
  <2>2. T(dm) + T(ot) >= 2
    <3>1. /\ P(dm) \in Nat /\ S(dm) \in Nat /\ O(dm) \in Nat
          /\ P(dm) <= S(dm) /\ T(dm) = S(dm) + O(dm)
      BY <1>5
    <3>2. /\ P(ot) \in Nat /\ S(ot) \in Nat /\ O(ot) \in Nat
          /\ P(ot) <= S(ot) /\ T(ot) = S(ot) + O(ot)
      BY <1>5
    <3>3. QED
      BY <2>1, <3>1, <3>2
  <2>3. QED
    BY <1>6, <2>2
<1>8. ASSUME <<2, "02">> \in t.ac_met PROVE Captured(t, "actor", "decision_maker") >= 1
  <2>1. S(dm) >= 1 \/ P(dm) + O(dm) >= 1
    <3>1. CASE <<2, "02">> \in s.ac_met
      BY <1>6, <3>1 DEF Evident
    <3>2. CASE <<2, "02">> \notin s.ac_met
      <4>1. PICK i \in DOMAIN us : us[i].criterion = <<2, "02">>
        BY <1>8, <3>2
      <4>2. us[i].criterion # <<2, "01">> /\ us[i].criterion # <<3, "01">>
        BY <4>1
      <4>3. QED
        BY <1>6, <4>1, <4>2 DEF Supports
    <3>3. QED
      BY <3>1, <3>2
  <2>2. T(dm) >= 1
    <3>1. /\ P(dm) \in Nat /\ S(dm) \in Nat /\ O(dm) \in Nat
          /\ P(dm) <= S(dm) /\ T(dm) = S(dm) + O(dm)
      BY <1>5
    <3>2. QED
      BY <2>1, <3>1
  <2>3. QED
    BY <1>6, <2>2
<1>9. QED
  BY <1>7, <1>8 DEF Evident

------------------------------------------------------------------------------
(* What the agents answer. *)

Answers == [intent : Phases \cup {"None", "Clarification", "REVISIT"},
            entities : Seq(Entities), ac_updates : Seq(AcUpdates),
            transition_ready : BOOLEAN]

LEMMA ReportIfFacts ==
  ASSUME NEW s, NEW es, NEW condition, NEW criterion \in Criterion,
         condition => Supports(s, es, <<[criterion |-> criterion, met |-> TRUE]>>)
  PROVE  /\ ReportIf(condition, criterion) \in Seq(AcUpdates)
         /\ Supports(s, es, ReportIf(condition, criterion))
<1>1. <<[criterion |-> criterion, met |-> TRUE]>> \in Seq(AcUpdates)
  BY DEF AcUpdates
<1>2. Supports(s, es, <<>>)
  BY DEF Supports
<1>3. QED
  BY <1>1, <1>2 DEF ReportIf

LEMMA SupportsConcat ==
  ASSUME NEW s, NEW es, NEW u \in Seq(AcUpdates), NEW v \in Seq(AcUpdates),
         Supports(s, es, u), Supports(s, es, v)
  PROVE  u \o v \in Seq(AcUpdates) /\ Supports(s, es, u \o v)
<1>1. u \o v \in Seq(AcUpdates) /\ Len(u \o v) = Len(u) + Len(v)
  BY ConcatProperties
<1>2. ASSUME NEW i \in DOMAIN (u \o v)
      PROVE  \/ \E j \in DOMAIN u : (u \o v)[i] = u[j]
             \/ \E j \in DOMAIN v : (u \o v)[i] = v[j]
  <2>1. i \in 1..(Len(u) + Len(v)) /\ Len(u) \in Nat /\ Len(v) \in Nat
    BY <1>1
  <2>2. (u \o v)[i] = IF i <= Len(u) THEN u[i] ELSE v[i - Len(u)]
    BY <2>1, ConcatProperties
  <2>3. CASE i <= Len(u)
    <3>1. i \in DOMAIN u /\ (u \o v)[i] = u[i]
      BY <2>1, <2>2, <2>3
    <3>2. QED
      BY <3>1
  <2>4. CASE ~(i <= Len(u))
    <3>1. i - Len(u) \in DOMAIN v /\ (u \o v)[i] = v[i - Len(u)]
      BY <2>1, <2>2, <2>4
    <3>2. QED
      BY <3>1
  <2>5. QED
    BY <2>3, <2>4
<1>3. QED
  BY <1>1, <1>2 DEF Supports

\* The extractor reports what the snapshot and its own entities bear out.
LEMMA DerivedSupported ==
  ASSUME NEW s \in Sessions, NEW es \in Seq(Entities), NEW named \in BOOLEAN,
         named /\ es # <<>> => CanName(es)
  PROVE  /\ DeriveAcUpdates(s, es, named) \in Seq(AcUpdates)
         /\ Supports(s, es, DeriveAcUpdates(s, es, named))
<1> DEFINE In(p) == es # <<>> /\ s.current_phase = p
           c1 == In("StakeholderDiscovery") /\ ActorCount(s, es) >= 2
           c2 == In("StakeholderDiscovery") /\ named
           c3 == In("RequirementElicitation") /\ RequirementCount(s, es) >= 5
           u1 == ReportIf(c1, <<2, "01">>)
           u2 == ReportIf(c2, <<2, "02">>)
           u3 == ReportIf(c3, <<3, "01">>)
<1>1. <<2, "01">> \in Criterion /\ <<2, "02">> \in Criterion /\ <<3, "01">> \in Criterion
  BY DEF Criterion
<1>2. c1 => Supports(s, es, <<[criterion |-> <<2, "01">>, met |-> TRUE]>>)
  BY CountsAreTotals DEF Supports
<1>3. Supports(s, es, <<[criterion |-> <<3, "01">>, met |-> TRUE]>>)
  BY DEF Supports
<1>4. c2 => Supports(s, es, <<[criterion |-> <<2, "02">>, met |-> TRUE]>>)
  <2> SUFFICES ASSUME c2
               PROVE  Total(s, es, "actor", "decision_maker") >= 1
    BY DEF Supports
  <2> DEFINE dm == [type |-> "actor", value |-> "decision_maker"]
             D == {i \in DOMAIN es : es[i] = dm}
  <2>1. D # {}
    BY DEF CanName
  <2>2. IsFiniteSet(D) /\ Cardinality(D) = Occurs(es, dm) /\ Occurs(es, dm) \in Nat
    BY OccursType DEF Occurs
  <2>3. Occurs(es, dm) # 0
    <3> HIDE DEF D
    <3>1. QED
      BY <2>1, <2>2, FS_EmptySet
  <2>4. Total(s, es, "actor", "decision_maker") =
          Captured(s, "actor", "decision_maker") + Occurs(es, dm)
    BY DEF Total
  <2> HIDE DEF dm
  <2>5. QED
    BY <2>2, <2>3, <2>4, CapturedType
<1>5. /\ u1 \in Seq(AcUpdates) /\ Supports(s, es, u1)
      /\ u2 \in Seq(AcUpdates) /\ Supports(s, es, u2)
      /\ u3 \in Seq(AcUpdates) /\ Supports(s, es, u3)
  BY <1>1, <1>2, <1>3, <1>4, ReportIfFacts
<1>6. DeriveAcUpdates(s, es, named) = (u1 \o u2) \o u3
  BY DEF DeriveAcUpdates
<1> HIDE DEF u1, u2, u3
<1>7. u1 \o u2 \in Seq(AcUpdates) /\ Supports(s, es, u1 \o u2)
  BY <1>5, SupportsConcat
<1> DEFINE w == u1 \o u2
<1> HIDE DEF w
<1>8. w \o u3 \in Seq(AcUpdates) /\ Supports(s, es, w \o u3)
  BY <1>5, <1>7, SupportsConcat DEF w
<1>9. QED
  BY <1>6, <1>8 DEF w

LEMMA OutcomesSupported ==
  ASSUME NEW s \in Sessions, NEW m \in MessageSet,
         NEW o \in TurnOutcomes(s, m) \cup {NoComplete}
  PROVE  o \in Answers /\ Supports(s, o.entities, o.ac_updates)
<1>1. m.mentions \in Seq(Entities)
  BY FlowAssumption
<1>2. Supports(s, <<>>, <<>>)
  BY DEF Supports
<1>3. CASE o \in ExtractionOutcomes(s, m.mentions)
  <2>1. PICK es \in {m.mentions, <<>>}, named \in {n \in BOOLEAN : n => CanName(m.mentions)} :
          o = Outcome("Clarification", es, DeriveAcUpdates(s, es, named),
                      FallbackUnmet(s.current_phase, s) = {})
    BY <1>3 DEF ExtractionOutcomes
  <2>2. es \in Seq(Entities) /\ (named /\ es # <<>> => CanName(es))
    <3>1. CASE es = m.mentions
      BY <1>1, <2>1, <3>1
    <3>2. CASE es = <<>>
      BY <3>2
    <3>3. QED
      BY <2>1, <3>1, <3>2
  <2>3. QED
    BY <2>1, <2>2, DerivedSupported DEF Outcome, Answers
<1>4. CASE o = NoComplete
  BY <1>2, <1>4 DEF NoComplete, Outcome, Answers
<1>5. CASE \E p \in RevisitTargets \cup {"REVISIT"} : o = RevisitOutcome(p)
  BY <1>2, <1>5 DEF RevisitOutcome, Outcome, Answers, RevisitTargets
<1>6. QED
  BY <1>3, <1>4, <1>5 DEF TurnOutcomes

------------------------------------------------------------------------------
(* The invariant.  PostOK is about one request alone; Holds ties what it     *)
(* holds to the kernel: its session was handed out and, if it still is in    *)
(* the map, has only grown since the snapshot was taken.                     *)

Posts == [pc : {"Idle", "Piping", "Applying", "Done"},
          session : SessionIds \cup {"None"},
          message : MessageSet,
          snapshot : Sessions,
          result : Answers,
          told : Phases \cup {"Nothing", "None", "NotFound", "Error"},
          applied : BOOLEAN]

PostOK(p) ==
  /\ p.pc # "Done" => ~p.applied /\ p.told = "Nothing"
  /\ p.told \in {"NotFound", "Error"} => ~p.applied
  /\ p.told \in Phases => p.applied
  /\ p.pc = "Applying" => Supports(p.snapshot, p.result.entities, p.result.ac_updates)

Holds(p, given, present, map) ==
  /\ p.pc \in {"Piping", "Applying"} \/ p.applied => p.session \in given
  /\ p.pc \in {"Piping", "Applying"} /\ p.session \in present =>
       Grown(p.snapshot, map[p.session])

Counted(id) ==
  /\ IsFiniteSet(AppliedTo(id))
  /\ sessions[id].turn_count = Cardinality(AppliedTo(id))
  /\ \A e \in ListedEntities :
       /\ IsFiniteSet(CapturedBy(id, e))
       /\ sessions[id].captured[e] = Cardinality(CapturedBy(id, e))

FlowInv ==
  /\ TypeOK
  /\ post \in [Requests -> Posts]
  /\ \A r \in Requests : PostOK(post[r]) /\ Holds(post[r], issued, live, sessions)
  /\ \A id \in live : Counted(id) /\ Evident(sessions[id])

LEMMA Initially == FlowInit => FlowInv
<1> SUFFICES ASSUME FlowInit PROVE FlowInv
  OBVIOUS
<1>1. TypeOK
  BY NewSessionType DEF FlowInit, Init, TypeOK, Replies
<1>2. \A m \in MessageSet : NewPost(m) \in Posts
  BY NewSessionType DEF NewPost, Posts, NoComplete, Outcome, Answers
<1>3. post \in [Requests -> Posts]
  BY <1>2 DEF FlowInit
<1>4. \A m \in MessageSet : PostOK(NewPost(m)) /\ Holds(NewPost(m), issued, live, sessions)
  BY PhaseFacts DEF NewPost, PostOK, Holds
<1>5. \A r \in Requests : PostOK(post[r]) /\ Holds(post[r], issued, live, sessions)
  BY <1>4 DEF FlowInit
<1>6. live = {}
  BY DEF FlowInit, Init
<1>7. QED
  BY <1>1, <1>3, <1>5, <1>6 DEF FlowInv

------------------------------------------------------------------------------
(* Steps that apply no turn. *)

\* A session in the map afterwards is as it was, up to its phase, or fresh.
Quiet(id) ==
  \/ /\ id \in live
     /\ sessions'[id].captured = sessions[id].captured
     /\ sessions'[id].turn_count = sessions[id].turn_count
     /\ sessions'[id].ac_met = sessions[id].ac_met
  \/ id \notin issued /\ sessions'[id] = NewSession

SameApplied(r) ==
  /\ post'[r].applied = post[r].applied
  /\ post[r].applied => /\ post'[r].session = post[r].session
                        /\ post'[r].result = post[r].result

LEMMA SameCounts ==
  ASSUME \A r \in Requests : SameApplied(r), NEW id
  PROVE  /\ AppliedTo(id)' = AppliedTo(id)
         /\ \A e : CapturedBy(id, e)' = CapturedBy(id, e)
<1>1. AppliedTo(id)' = AppliedTo(id)
  BY DEF AppliedTo, SameApplied
<1>2. \A r \in AppliedTo(id) : post'[r].result = post[r].result
  BY DEF AppliedTo, SameApplied
<1>3. ASSUME NEW e PROVE CapturedBy(id, e)' = CapturedBy(id, e)
  BY <1>1, <1>2 DEF CapturedBy
<1>4. QED
  BY <1>1, <1>3

LEMMA SameEvidence ==
  ASSUME NEW s, NEW t, Evident(s), t.captured = s.captured, t.ac_met = s.ac_met
  PROVE  Evident(t)
BY DEF Evident, ActorCount, Mentioned, Captured

LEMMA QuietStep ==
  ASSUME FlowInv, TypeOK', issued \subseteq issued', \A id \in live' : Quiet(id),
         post' \in [Requests -> Posts],
         \A r \in Requests : /\ PostOK(post'[r])
                             /\ Holds(post'[r], issued, live, sessions)
                             /\ SameApplied(r)
  PROVE  FlowInv'
<1>1. ASSUME NEW r \in Requests
      PROVE  Holds(post'[r], issued', live', sessions')
  <2> DEFINE p == post'[r]
  <2>1. Holds(p, issued, live, sessions)
    OBVIOUS
  <2> HIDE DEF p
  <2>2. ASSUME p.pc \in {"Piping", "Applying"}, p.session \in live'
        PROVE  Grown(p.snapshot, sessions'[p.session])
    <3>1. p.session \in issued
      BY <2>1, <2>2 DEF Holds
    <3>2. /\ p.session \in live
          /\ sessions'[p.session].captured = sessions[p.session].captured
      BY <2>2, <3>1 DEF Quiet
    <3>3. QED
      BY <2>1, <2>2, <3>2 DEF Holds, Grown
  <2>3. QED
    BY <2>1, <2>2 DEF Holds, p
<1>2. ASSUME NEW id \in live'
      PROVE  Counted(id)' /\ Evident(sessions'[id])
  <2>1. /\ AppliedTo(id)' = AppliedTo(id)
        /\ \A e : CapturedBy(id, e)' = CapturedBy(id, e)
    BY SameCounts
  <2>2. CASE /\ id \in live
             /\ sessions'[id].captured = sessions[id].captured
             /\ sessions'[id].turn_count = sessions[id].turn_count
             /\ sessions'[id].ac_met = sessions[id].ac_met
    <3>1. Counted(id) /\ Evident(sessions[id])
      BY <2>2 DEF FlowInv
    <3>2. Counted(id)'
      BY <2>1, <2>2, <3>1 DEF Counted
    <3>3. QED
      BY <2>2, <3>1, <3>2, SameEvidence
  <2>3. CASE id \notin issued /\ sessions'[id] = NewSession
    <3>1. AppliedTo(id) = {}
      BY <2>3 DEF AppliedTo, FlowInv, Holds
    <3>2. \A e : CapturedBy(id, e) = {}
      BY <3>1 DEF CapturedBy
    <3>3. /\ NewSession.turn_count = 0 /\ NewSession.ac_met = {}
          /\ \A e \in ListedEntities : NewSession.captured[e] = 0
      BY DEF NewSession
    <3>4. Counted(id)'
      BY <2>1, <2>3, <3>1, <3>2, <3>3, FS_EmptySet DEF Counted
    <3>5. QED
      BY <2>3, <3>3, <3>4 DEF Evident
  <2>4. QED
    BY <2>2, <2>3 DEF Quiet
<1>3. QED
  BY <1>1, <1>2 DEF FlowInv

LEMMA AttemptsAreQuiet ==
  ASSUME NEW s \in Sessions, NEW target \in Phases,
         NEW t \in {Advance(s, target), Revisit(s, target)}
  PROVE  t.captured = s.captured /\ t.turn_count = s.turn_count /\ t.ac_met = s.ac_met
BY DEF Advance, Revisit, Sessions

LEMMA OtherCallsKeep ==
  ASSUME FlowInv, OtherCalls
  PROVE  FlowInv'
<1>0. TypeOK /\ post' = post
  BY DEF FlowInv, OtherCalls
<1>1. Next
  BY DEF OtherCalls, Next
<1>2. TypeOK'
  BY <1>0, <1>1, TypeStep, NextIsKernelStep
<1>3. CASE Restart
  <2>1. issued' = issued /\ live' = {}
    BY <1>3 DEF Restart
  <2>2. QED
    BY <1>0, <1>2, <2>1, QuietStep DEF SameApplied, FlowInv
<1>4. ASSUME NEW id \in SessionIds, CreateSession(id)
      PROVE  FlowInv'
  <2>1. /\ issued \subseteq issued'
        /\ \A q \in live' : Quiet(q)
    BY <1>0, <1>4 DEF CreateSession, Quiet, TypeOK
  <2>2. QED
    BY <1>0, <1>2, <2>1, QuietStep DEF SameApplied, FlowInv
<1>5. ASSUME NEW id \in SessionIds, NEW target \in Targets,
             RequestTransition(id, target) \/ RevisitPhase(id, target)
      PROVE  FlowInv'
  <2>1. issued' = issued /\ live' = live
    BY <1>5 DEF RequestTransition, RevisitPhase, Refused
  <2>2. CASE UNCHANGED sessions
    <3>1. \A q \in live' : Quiet(q)
      BY <2>1, <2>2 DEF Quiet
    <3>2. QED
      BY <1>0, <1>2, <2>1, <3>1, QuietStep DEF SameApplied, FlowInv
  <2>3. CASE /\ target # "Unparsable"
             /\ \E t \in {Advance(sessions[id], target), Revisit(sessions[id], target)} :
                  sessions' = [sessions EXCEPT ![id] = t]
    <3>1. PICK t \in {Advance(sessions[id], target), Revisit(sessions[id], target)} :
            sessions' = [sessions EXCEPT ![id] = t]
      BY <2>3
    <3>2. target \in Phases /\ sessions[id] \in Sessions
      BY <1>0, <2>3 DEF Targets, TypeOK
    <3>3. /\ t.captured = sessions[id].captured
          /\ t.turn_count = sessions[id].turn_count
          /\ t.ac_met = sessions[id].ac_met
      BY <3>2, AttemptsAreQuiet
    <3>4. \A q \in live' : Quiet(q)
      BY <1>0, <2>1, <3>1, <3>3 DEF Quiet, TypeOK
    <3>5. QED
      BY <1>0, <1>2, <2>1, <3>4, QuietStep DEF SameApplied, FlowInv
  <2>4. QED
    BY <1>5, <2>2, <2>3 DEF RequestTransition, RevisitPhase, Refused
<1>6. QED
  BY <1>3, <1>4, <1>5 DEF OtherCalls

\* A step of one request that leaves the sessions alone and applies nothing.
LEMMA RequestStepKeeps ==
  ASSUME FlowInv, TypeOK', UNCHANGED <<live, sessions, issued>>,
         NEW r \in Requests, NEW p \in Posts, post' = [post EXCEPT ![r] = p],
         ~post[r].applied, ~p.applied,
         PostOK(p), Holds(p, issued, live, sessions)
  PROVE  FlowInv'
<1>1. post \in [Requests -> Posts]
  BY DEF FlowInv
<1>2. post' \in [Requests -> Posts] /\ post'[r] = p
      /\ \A q \in Requests \ {r} : post'[q] = post[q]
  BY <1>1
<1>3. \A q \in Requests : /\ PostOK(post'[q])
                          /\ Holds(post'[q], issued, live, sessions)
                          /\ SameApplied(q)
  BY <1>1, <1>2 DEF FlowInv, SameApplied, Posts
<1>4. issued \subseteq issued' /\ \A id \in live' : Quiet(id)
  BY DEF Quiet
<1>5. QED
  BY <1>2, <1>3, <1>4, QuietStep

LEMMA OfPost ==
  ASSUME FlowInv, NEW r \in Requests
  PROVE  /\ post[r] \in Posts /\ PostOK(post[r]) /\ Holds(post[r], issued, live, sessions)
         /\ post[r].pc # "Done" => ~post[r].applied /\ post[r].told = "Nothing"
BY DEF FlowInv, PostOK

LEMMA PostTurnKeeps ==
  ASSUME FlowInv, NEW r \in Requests, NEW id \in SessionIds, PostTurn(r, id)
  PROVE  FlowInv'
<1>0. post \in [Requests -> Posts] /\ TypeOK /\ sessions[id] \in Sessions
  BY DEF FlowInv, TypeOK
<1>1. UNCHANGED <<live, sessions, issued>>
  BY DEF PostTurn, GetSessionState, kernel
<1>2. TypeOK'
  <2>1. [Next]_vars
    BY DEF PostTurn, Next, kernel, vars
  <2>2. QED
    BY <1>0, <2>1, TypeStep, NextIsKernelStep
<1>3. post[r] \in Posts /\ ~post[r].applied /\ post[r].told = "Nothing"
  BY OfPost DEF PostTurn
<1>4. CASE post' = Missing(r, id)
  <2> DEFINE p == [post[r] EXCEPT !.pc = "Done", !.session = id, !.told = "NotFound"]
  <2>1. p \in Posts /\ ~p.applied /\ p.pc = "Done" /\ p.told = "NotFound"
    BY <1>3 DEF Posts
  <2>2. post' = [post EXCEPT ![r] = p]
    BY <1>0, <1>4 DEF Missing
  <2>3. PostOK(p) /\ Holds(p, issued, live, sessions)
    BY <2>1, PhaseFacts DEF PostOK, Holds
  <2> HIDE DEF p
  <2>4. QED
    BY <1>1, <1>2, <1>3, <2>1, <2>2, <2>3, RequestStepKeeps
<1>5. CASE /\ id \in live
           /\ post' = [post EXCEPT ![r].pc = "Piping", ![r].session = id,
                                   ![r].snapshot = sessions[id]]
  <2> DEFINE p == [post[r] EXCEPT !.pc = "Piping", !.session = id, !.snapshot = sessions[id]]
  <2>1. /\ p \in Posts /\ ~p.applied /\ p.pc = "Piping" /\ p.told = "Nothing"
        /\ p.session = id /\ p.snapshot = sessions[id]
    BY <1>0, <1>3 DEF Posts
  <2>2. post' = [post EXCEPT ![r] = p]
    BY <1>0, <1>5
  <2>3. Grown(sessions[id], sessions[id])
    BY <1>0 DEF Grown, Sessions
  <2>4. PostOK(p)
    BY <2>1, PhaseFacts DEF PostOK
  <2>5. Holds(p, issued, live, sessions)
    BY <1>0, <1>5, <2>1, <2>3 DEF Holds, TypeOK
  <2> HIDE DEF p
  <2>6. QED
    BY <1>1, <1>2, <1>3, <2>1, <2>2, <2>4, <2>5, RequestStepKeeps
<1>6. QED
  BY <1>4, <1>5 DEF PostTurn

LEMMA PipelineKeeps ==
  ASSUME FlowInv, NEW r \in Requests, PipelineDone(r) \/ PipelineFails(r)
  PROVE  FlowInv'
<1>0. /\ post \in [Requests -> Posts] /\ TypeOK /\ UNCHANGED <<live, sessions, issued, reply>>
      /\ post[r].pc = "Piping"
  BY DEF FlowInv, PipelineDone, PipelineFails, kernel
<1>1. TypeOK'
  BY <1>0 DEF TypeOK
<1>2. /\ post[r] \in Posts /\ ~post[r].applied /\ post[r].told = "Nothing"
      /\ Holds(post[r], issued, live, sessions)
  BY <1>0, OfPost
<1>3. CASE PipelineDone(r)
  <2>1. PICK outcome \in TurnOutcomes(post[r].snapshot, post[r].message) \cup {NoComplete} :
          post' = [post EXCEPT ![r].pc = "Applying", ![r].result = outcome]
    BY <1>3 DEF PipelineDone
  <2>2. post[r].snapshot \in Sessions /\ post[r].message \in MessageSet
    BY <1>2 DEF Posts
  <2>3. /\ outcome \in Answers
        /\ Supports(post[r].snapshot, outcome.entities, outcome.ac_updates)
    BY <2>1, <2>2, OutcomesSupported
  <2> DEFINE p == [post[r] EXCEPT !.pc = "Applying", !.result = outcome]
  <2>4. /\ p \in Posts /\ ~p.applied /\ p.pc = "Applying" /\ p.told = "Nothing"
        /\ p.snapshot = post[r].snapshot /\ p.session = post[r].session /\ p.result = outcome
    BY <1>2, <2>3 DEF Posts
  <2>5. post' = [post EXCEPT ![r] = p]
    BY <1>0, <2>1
  <2>6. PostOK(p)
    BY <2>3, <2>4, PhaseFacts DEF PostOK
  <2>7. Holds(p, issued, live, sessions)
    BY <1>0, <1>2, <2>4 DEF Holds
  <2> HIDE DEF p
  <2>8. QED
    BY <1>0, <1>1, <1>2, <2>4, <2>5, <2>6, <2>7, RequestStepKeeps
<1>4. CASE PipelineFails(r)
  <2> DEFINE p == [post[r] EXCEPT !.pc = "Done", !.told = "Error"]
  <2>1. p \in Posts /\ ~p.applied /\ p.pc = "Done" /\ p.told = "Error"
    BY <1>2 DEF Posts
  <2>2. post' = [post EXCEPT ![r] = p]
    BY <1>0, <1>4 DEF PipelineFails
  <2>3. PostOK(p) /\ Holds(p, issued, live, sessions)
    BY <2>1, PhaseFacts DEF PostOK, Holds
  <2> HIDE DEF p
  <2>4. QED
    BY <1>0, <1>1, <1>2, <2>1, <2>2, <2>3, RequestStepKeeps
<1>5. QED
  BY <1>3, <1>4

------------------------------------------------------------------------------
(* The step that applies a turn. *)

\* One more turn in the set of applied ones, and its places of an entity.
LEMMA OneMoreApplied ==
  ASSUME NEW r \in Requests, NEW id,
         ~post[r].applied, post'[r].applied, post'[r].session = id,
         post'[r].result.entities \in Seq(Entities),
         \A q \in Requests \ {r} : post'[q] = post[q],
         IsFiniteSet(AppliedTo(id)), \A e \in ListedEntities : IsFiniteSet(CapturedBy(id, e))
  PROVE  /\ IsFiniteSet(AppliedTo(id)')
         /\ Cardinality(AppliedTo(id)') = Cardinality(AppliedTo(id)) + 1
         /\ \A e \in ListedEntities :
              /\ IsFiniteSet(CapturedBy(id, e)')
              /\ Cardinality(CapturedBy(id, e)') =
                   Cardinality(CapturedBy(id, e)) + Occurs(post'[r].result.entities, e)
<1>1. AppliedTo(id)' = AppliedTo(id) \cup {r} /\ r \notin AppliedTo(id)
  BY DEF AppliedTo
<1>2. /\ IsFiniteSet(AppliedTo(id)')
      /\ Cardinality(AppliedTo(id)') = Cardinality(AppliedTo(id)) + 1
  BY <1>1, FS_AddElement
<1>3. ASSUME NEW e \in ListedEntities
      PROVE  /\ IsFiniteSet(CapturedBy(id, e)')
             /\ Cardinality(CapturedBy(id, e)') =
                  Cardinality(CapturedBy(id, e)) + Occurs(post'[r].result.entities, e)
  <2> DEFINE es == post'[r].result.entities
             I == {i \in DOMAIN es : es[i] = e}
             B == {<<r, i>> : i \in I}
             A == CapturedBy(id, e)
  <2>1. \A q \in AppliedTo(id) : post'[q] = post[q] /\ q # r
    BY DEF AppliedTo
  <2>2. CapturedBy(id, e)' = A \cup B
    BY <1>1, <2>1 DEF CapturedBy
  <2>3. A \cap B = {}
    BY <1>1 DEF CapturedBy
  <2>4. IsFiniteSet(I) /\ Cardinality(I) = Occurs(es, e)
    BY OccursType DEF Occurs
  <2>5. IsFiniteSet(B) /\ Cardinality(B) = Cardinality(I)
    <3> DEFINE f == [i \in I |-> <<r, i>>]
    <3> HIDE DEF I
    <3>1. f \in [I -> B] /\ \A i, j \in I : f[i] = f[j] => i = j
      OBVIOUS
    <3>2. \A b \in B : \E i \in I : f[i] = b
      OBVIOUS
    <3>3. f \in Bijection(I, B)
      BY <3>1, <3>2, Fun_IsBij
    <3>4. ExistsBijection(I, B)
      BY <3>3 DEF ExistsBijection
    <3>5. QED
      BY <2>4, <3>4, FS_Bijection
  <2>6. IsFiniteSet(A)
    OBVIOUS
  <2> HIDE DEF A, B, I, es
  <2>7. /\ IsFiniteSet(A \cup B)
        /\ Cardinality(A \cup B) = Cardinality(A) + Cardinality(B) - Cardinality(A \cap B)
    BY <2>5, <2>6, FS_Union
  <2>8. Cardinality(A) \in Nat /\ Cardinality(B) \in Nat /\ Cardinality(A \cap B) = 0
    BY <2>3, <2>5, <2>6, FS_CardinalityType, FS_EmptySet
  <2>9. Cardinality(A \cup B) = Cardinality(A) + Cardinality(B)
    BY <2>7, <2>8
  <2>10. QED
    BY <2>2, <2>4, <2>5, <2>7, <2>9 DEF A, es
<1>4. QED
  BY <1>2, <1>3

LEMMA TurnApplied ==
  ASSUME FlowInv, TypeOK', NEW r \in Requests, post[r].pc = "Applying",
         NEW id, id = post[r].session, id \in live, UNCHANGED <<live, issued>>,
         sessions' = [sessions EXCEPT ![id] = ApplyTurn(sessions[id], AsTurn(post[r].result))],
         NEW p \in Posts, post' = [post EXCEPT ![r] = p],
         p.applied, p.pc = "Done", p.session = id, p.result = post[r].result, PostOK(p)
  PROVE  FlowInv'
<1> DEFINE s == sessions[id]
           turn == AsTurn(post[r].result)
           t == ApplyTurn(s, turn)
           es == post[r].result.entities
           us == post[r].result.ac_updates
<1>0. /\ post \in [Requests -> Posts] /\ TypeOK /\ id \in SessionIds /\ id \in issued
      /\ s \in Sessions
  BY DEF FlowInv, TypeOK
<1>1. /\ post[r] \in Posts /\ PostOK(post[r]) /\ Holds(post[r], issued, live, sessions)
      /\ ~post[r].applied
  BY OfPost
<1>2. es \in Seq(Entities) /\ us \in Seq(AcUpdates) /\ post[r].snapshot \in Sessions
  BY <1>1 DEF Posts, Answers
<1>3. /\ t \in Sessions
      /\ \A e \in ListedEntities : t.captured[e] = s.captured[e] + Occurs(es, e)
      /\ t.turn_count = s.turn_count + 1
      /\ \A c \in t.ac_met \ s.ac_met : \E i \in DOMAIN us : us[i].criterion = c
  BY <1>0, <1>2, ApplyTurnEffects, SMTT(20) DEF AsTurn
<1>4. Counted(id) /\ Evident(s)
  BY DEF FlowInv
<1>5. Supports(post[r].snapshot, es, us) /\ Grown(post[r].snapshot, s)
  BY <1>1 DEF PostOK, Holds
<1> HIDE DEF t
<1>6. /\ sessions'[id] = t
      /\ \A q \in live \ {id} : sessions'[q] = sessions[q]
  BY <1>0 DEF t, TypeOK
<1>7. /\ post' \in [Requests -> Posts] /\ post'[r] = p
      /\ \A q \in Requests \ {r} : post'[q] = post[q]
  BY <1>0
<1>8. Evident(t)
  <2> DEFINE snap == post[r].snapshot
  <2>1. /\ snap \in Sessions /\ s \in Sessions /\ t \in Sessions
        /\ es \in Seq(Entities) /\ us \in Seq(AcUpdates)
    BY <1>0, <1>2, <1>3
  <2>2. Grown(snap, s) /\ Evident(s) /\ Supports(snap, es, us)
    BY <1>4, <1>5
  <2>3. /\ \A e \in ListedEntities : t.captured[e] = s.captured[e] + Occurs(es, e)
        /\ \A c \in t.ac_met \ s.ac_met : \E i \in DOMAIN us : us[i].criterion = c
    BY <1>3
  <2> HIDE DEF snap, s, es, us
  <2>4. QED
    BY <2>1, <2>2, <2>3, EvidenceGrows
<1>9. Counted(id)'
  <2>1. /\ IsFiniteSet(AppliedTo(id)')
        /\ Cardinality(AppliedTo(id)') = Cardinality(AppliedTo(id)) + 1
        /\ \A e \in ListedEntities :
             /\ IsFiniteSet(CapturedBy(id, e)')
             /\ Cardinality(CapturedBy(id, e)') =
                  Cardinality(CapturedBy(id, e)) + Occurs(es, e)
    <3>1. /\ ~post[r].applied /\ post'[r].applied /\ post'[r].session = id
          /\ post'[r].result.entities = es /\ es \in Seq(Entities)
          /\ \A q \in Requests \ {r} : post'[q] = post[q]
      BY <1>1, <1>2, <1>7
    <3>2. IsFiniteSet(AppliedTo(id)) /\ \A e \in ListedEntities : IsFiniteSet(CapturedBy(id, e))
      BY <1>4 DEF Counted
    <3>3. post'[r].result.entities \in Seq(Entities)
      BY <3>1
    <3> HIDE DEF es
    <3>4. /\ IsFiniteSet(AppliedTo(id)')
          /\ Cardinality(AppliedTo(id)') = Cardinality(AppliedTo(id)) + 1
          /\ \A e \in ListedEntities :
               /\ IsFiniteSet(CapturedBy(id, e)')
               /\ Cardinality(CapturedBy(id, e)') =
                    Cardinality(CapturedBy(id, e)) + Occurs(post'[r].result.entities, e)
      BY <3>1, <3>2, <3>3, OneMoreApplied, SMTT(20)
    <3>5. QED
      BY <3>1, <3>4
  <2>2. QED
    BY <1>3, <1>4, <1>6, <2>1, SMTT(20) DEF Counted
<1>10. ASSUME NEW q \in live, q # id
       PROVE  Counted(q)' /\ Evident(sessions'[q])
  <2>1. Counted(q) /\ Evident(sessions[q]) /\ sessions'[q] = sessions[q]
    BY <1>6, <1>10 DEF FlowInv
  <2>2. AppliedTo(q)' = AppliedTo(q)
    BY <1>1, <1>7, <1>10 DEF AppliedTo
  <2>3. \A x \in AppliedTo(q) : post'[x] = post[x]
    BY <1>1, <1>7 DEF AppliedTo
  <2>4. \A e : CapturedBy(q, e)' = CapturedBy(q, e)
    BY <2>2, <2>3 DEF CapturedBy
  <2>5. QED
    BY <2>1, <2>2, <2>4 DEF Counted
<1>11. Grown(s, t)
  <2>1. ASSUME NEW e \in ListedEntities PROVE s.captured[e] <= t.captured[e]
    <3> DEFINE n == s.captured[e]
               o == Occurs(es, e)
    <3>1. n \in Nat /\ o \in Nat /\ t.captured[e] = n + o
      BY <1>0, <1>2, <1>3, OccursType DEF Sessions
    <3> HIDE DEF n, o
    <3>2. n <= t.captured[e]
      BY <3>1
    <3>3. QED
      BY <3>2 DEF n
  <2>2. QED
    BY <2>1 DEF Grown
<1>12. ASSUME NEW q \in Requests
       PROVE  PostOK(post'[q]) /\ Holds(post'[q], issued', live', sessions')
  <2>1. CASE q = r
    BY <1>0, <1>7, <2>1 DEF Holds
  <2>2. CASE q # r
    <3>1. /\ post'[q] = post[q] /\ PostOK(post[q])
          /\ Holds(post[q], issued, live, sessions) /\ post[q].snapshot \in Sessions
      BY <1>7, <2>2, OfPost DEF Posts
    <3>2. ASSUME post[q].pc \in {"Piping", "Applying"}, post[q].session \in live
          PROVE  Grown(post[q].snapshot, sessions'[post[q].session])
      <4>1. Grown(post[q].snapshot, sessions[post[q].session])
        BY <3>1, <3>2 DEF Holds
      <4>2. CASE post[q].session = id
        <5> DEFINE snap == post[q].snapshot
        <5>1. Grown(snap, s) /\ Grown(s, t) /\ sessions'[post[q].session] = t
          BY <1>6, <1>11, <4>1, <4>2
        <5>2. \A e \in ListedEntities :
                /\ snap.captured[e] \in Nat /\ s.captured[e] \in Nat /\ t.captured[e] \in Nat
          BY <1>0, <1>3, <3>1 DEF Sessions
        <5> HIDE DEF snap, s
        <5>3. Grown(snap, t)
          BY <5>1, <5>2 DEF Grown
        <5>4. QED
          BY <5>1, <5>3 DEF snap
      <4>3. CASE post[q].session # id
        BY <1>6, <3>2, <4>1, <4>3
      <4>4. QED
        BY <4>2, <4>3
    <3>3. QED
      BY <3>1, <3>2 DEF Holds
  <2>3. QED
    BY <2>1, <2>2
<1>13. QED
  BY <1>6, <1>7, <1>8, <1>9, <1>10, <1>12 DEF FlowInv

LEMMA ApplyKeeps ==
  ASSUME FlowInv, NEW r \in Requests, ApplyAnswered(r) \/ ApplyUnanswered(r)
  PROVE  FlowInv'
<1> DEFINE id == post[r].session
           turn == AsTurn(post[r].result)
           t == ApplyTurn(sessions[id], turn)
<1>0. /\ post \in [Requests -> Posts] /\ TypeOK
      /\ post[r].pc = "Applying"
  BY DEF FlowInv, ApplyAnswered, ApplyUnanswered
<1>1. /\ post[r] \in Posts /\ PostOK(post[r]) /\ Holds(post[r], issued, live, sessions)
      /\ ~post[r].applied /\ post[r].told = "Nothing"
  BY <1>0, OfPost
<1>2. id \in issued /\ id \in SessionIds
  BY <1>0, <1>1 DEF Holds, TypeOK
<1>3. turn \in TurnResults
  BY <1>1 DEF AsTurn, TurnResults, Posts, Answers
<1>4. sessions[id] \in Sessions /\ t \in Sessions /\ t.current_phase \in Phases
  BY <1>0, <1>2, <1>3, ApplyTurnFacts DEF TypeOK, Sessions
<1>5. ASSUME NEW told \in Phases \cup {"None"}, id \in live,
             sessions' = [sessions EXCEPT ![id] = t], UNCHANGED <<live, issued>>,
             reply' \in Replies,
             post' = [post EXCEPT ![r].pc = "Done", ![r].told = told, ![r].applied = TRUE]
      PROVE  FlowInv'
  <2> DEFINE p == [post[r] EXCEPT !.pc = "Done", !.told = told, !.applied = TRUE]
  <2>1. /\ p \in Posts /\ p.applied /\ p.pc = "Done" /\ p.told = told
        /\ p.session = id /\ p.result = post[r].result
    BY <1>1 DEF Posts
  <2>2. post' = [post EXCEPT ![r] = p]
    BY <1>0, <1>5
  <2>3. PostOK(p)
    BY <2>1, PhaseFacts DEF PostOK
  <2>4. TypeOK'
    BY <1>0, <1>4, <1>5 DEF TypeOK
  <2> HIDE DEF p
  <2>5. QED
    BY <1>0, <1>5, <2>1, <2>2, <2>3, <2>4, TurnApplied
<1>6. ASSUME UNCHANGED <<live, issued, sessions>>, reply' \in Replies, id \notin live,
             post' = [post EXCEPT ![r].pc = "Done", ![r].told = "None",
                                  ![r].applied = id \in live]
      PROVE  FlowInv'
  <2> DEFINE p == [post[r] EXCEPT !.pc = "Done", !.told = "None", !.applied = id \in live]
  <2>1. p \in Posts /\ ~p.applied /\ p.pc = "Done" /\ p.told = "None"
    <3> DEFINE known == id \in live
    <3>1. known \in BOOLEAN /\ ~known
      BY <1>6
    <3> HIDE DEF known
    <3>2. p = [post[r] EXCEPT !.pc = "Done", !.told = "None", !.applied = known]
      BY Zenon DEF known
    <3>3. QED
      BY <1>1, <3>1, <3>2 DEF Posts
  <2>2. post' = [post EXCEPT ![r] = p]
    BY <1>0, <1>6
  <2>3. PostOK(p) /\ Holds(p, issued, live, sessions)
    BY <2>1, PhaseFacts DEF PostOK, Holds
  <2>4. TypeOK'
    BY <1>0, <1>6 DEF TypeOK
  <2> HIDE DEF p
  <2>5. QED
    BY <1>1, <1>6, <2>1, <2>2, <2>3, <2>4, RequestStepKeeps
<1>7. ASSUME ApplyTurnResult(id, turn)
      PROVE  /\ reply' \in Replies /\ UNCHANGED <<live, issued>>
             /\ \/ /\ id \in live /\ sessions' = [sessions EXCEPT ![id] = t]
                   /\ reply'.phase = t.current_phase
                \/ /\ id \notin live /\ UNCHANGED sessions /\ reply'.phase = "None"
  <2>1. reply' \in Replies
    BY <1>0, <1>2, <1>3, <1>7, TurnReply
  <2>2. QED
    BY <1>7, <2>1 DEF ApplyTurnResult, TurnAnswer
<1>8. CASE ApplyAnswered(r)
  <2>1. /\ ApplyTurnResult(id, turn)
        /\ post' = [post EXCEPT ![r].pc = "Done", ![r].told = reply'.phase,
                                ![r].applied = id \in live]
    BY <1>1, <1>8 DEF ApplyAnswered, Told
  <2>2. CASE id \in live
    BY <1>4, <1>5, <1>7, <2>1, <2>2
  <2>3. CASE id \notin live
    BY <1>6, <1>7, <2>1, <2>3
  <2>4. QED
    BY <2>2, <2>3
<1>9. CASE /\ ApplyTurnResult(id, turn)
           /\ post' = [post EXCEPT ![r].pc = "Done", ![r].told = "None",
                                   ![r].applied = id \in live]
  <2>1. CASE id \in live
    BY <1>5, <1>7, <1>9, <2>1
  <2>2. CASE id \notin live
    BY <1>6, <1>7, <1>9, <2>2
  <2>3. QED
    BY <2>1, <2>2
<1>10. CASE /\ UNCHANGED kernel
            /\ post' = [post EXCEPT ![r].pc = "Done", ![r].told = "None"]
  <2> DEFINE p == [post[r] EXCEPT !.pc = "Done", !.told = "None"]
  <2>1. p \in Posts /\ ~p.applied /\ p.pc = "Done" /\ p.told = "None"
    BY <1>1 DEF Posts
  <2>2. post' = [post EXCEPT ![r] = p]
    BY <1>0, <1>10
  <2>3. PostOK(p) /\ Holds(p, issued, live, sessions)
    BY <2>1, PhaseFacts DEF PostOK, Holds
  <2>4. UNCHANGED <<live, sessions, issued>> /\ TypeOK'
    BY <1>0, <1>10 DEF TypeOK, kernel
  <2> HIDE DEF p
  <2>5. QED
    BY <1>1, <2>1, <2>2, <2>3, <2>4, RequestStepKeeps
<1>11. CASE ApplyUnanswered(r)
  BY <1>1, <1>9, <1>10, <1>11 DEF ApplyUnanswered, Told
<1>12. QED
  BY <1>8, <1>11

LEMMA FlowInductive == FlowInv /\ [FlowNext]_flowVars => FlowInv'
<1> SUFFICES ASSUME FlowInv, [FlowNext]_flowVars PROVE FlowInv'
  OBVIOUS
<1>1. CASE UNCHANGED flowVars
  <2>1. /\ TypeOK' /\ issued' = issued /\ live' = live /\ sessions' = sessions
        /\ post' = post
    BY <1>1 DEF FlowInv, TypeOK, flowVars, kernel
  <2>2. QED
    BY <2>1, QuietStep DEF FlowInv, SameApplied, Quiet
<1>2. CASE FlowNext
  BY <1>2, PostTurnKeeps, PipelineKeeps, ApplyKeeps, OtherCallsKeep DEF FlowNext
<1>3. QED
  BY <1>1, <1>2

LEMMA FlowInvariance == FlowSpec => []FlowInv
BY Initially, FlowInductive, PTL DEF FlowSpec

------------------------------------------------------------------------------
(* ProcessTurn against ApplyTurnResult: for any number of turns in flight,   *)
(* and any calls and restarts between, a session of the map holds exactly    *)
(* what the turns applied to it captured, each of them once.                 *)
THEOREM TurnsAreAppliedOnce == FlowSpec => []EveryAppliedTurnOnce
<1>1. FlowInv => EveryAppliedTurnOnce
  BY DEF FlowInv, Counted, EveryAppliedTurnOnce
<1>2. QED
  BY FlowInvariance, <1>1, PTL

\* The counts of the invariant are those of the kernel's field checks.
LEMMA EvidenceMeets ==
  ASSUME NEW s \in Sessions, Evident(s)
  PROVE  s.ac_met \cap {<<2, "01">>, <<2, "02">>} \subseteq FieldMet(s)
<1> DEFINE one == Captured(s, "actor", "other") + Captured(s, "actor", "decision_maker") >= 2
           two == Captured(s, "actor", "decision_maker") >= 1
<1>1. <<<<2, "01">>, one>> \in S2Checks(s) /\ <<<<2, "02">>, two>> \in S2Checks(s)
  BY Zenon DEF S2Checks
<1>2. /\ <<2, "01">> \in s.ac_met => one
      /\ <<2, "02">> \in s.ac_met => two
  BY EmptyCounts, CapturedType DEF Evident
<1> HIDE DEF one, two
<1>3. /\ one => <<2, "01">> \in FieldMet(s)
      /\ two => <<2, "02">> \in FieldMet(s)
  BY <1>1 DEF FieldMet
<1>4. QED
  BY <1>2, <1>3

(* _derive_ac_updates against s2.rs: what the extractor reports of           *)
(* StakeholderDiscovery from an old snapshot, the kernel's own count bears   *)
(* out when it is applied and ever after.                                    *)
THEOREM ReportsAreEvidenced == FlowSpec => []MetIsEvidenced
<1>1. FlowInv => MetIsEvidenced
  <2> SUFFICES ASSUME FlowInv, NEW id \in live
               PROVE  sessions[id].ac_met \cap {<<2, "01">>, <<2, "02">>}
                        \subseteq FieldMet(sessions[id])
    BY DEF MetIsEvidenced
  <2>1. sessions[id] \in Sessions /\ Evident(sessions[id])
    BY DEF FlowInv, TypeOK
  <2>2. QED
    BY <2>1, EvidenceMeets
<1>2. QED
  BY FlowInvariance, <1>1, PTL

(* The answers of ProcessTurn: no error for a turn that was applied, no      *)
(* phase for one that was not.                                               *)
THEOREM AnswersCanBeTrusted == FlowSpec => []AnswersAreHonest
<1>1. FlowInv => AnswersAreHonest
  BY DEF FlowInv, PostOK, AnswersAreHonest
<1>2. QED
  BY FlowInvariance, <1>1, PTL

------------------------------------------------------------------------------
(* The kernel inside the product.  Whatever the three services do, the       *)
(* kernel takes a step of its own, with a turn result the AI service made up *)
(* from some old snapshot; so what is true of the kernel for every turn is   *)
(* true of the product.                                                      *)

\* The criteria the extractor reports, and the turns it can make of them.
Reportable == {<<2, "01">>, <<2, "02">>, <<3, "01">>}

SpokenTurns ==
  {turn \in TurnResults : \A i \in DOMAIN turn.ac_updates :
                            turn.ac_updates[i].met /\ turn.ac_updates[i].criterion \in Reportable}

LEMMA TurnsAreSpoken ==
  ASSUME FlowInv, NEW r \in Requests, post[r].pc = "Applying"
  PROVE  AsTurn(post[r].result) \in SpokenTurns
<1>1. post[r].result \in Answers
  BY DEF FlowInv, Posts
<1>2. Supports(post[r].snapshot, post[r].result.entities, post[r].result.ac_updates)
  BY DEF FlowInv, PostOK
<1>3. AsTurn(post[r].result) \in TurnResults
  BY <1>1 DEF AsTurn, TurnResults, Answers
<1>4. AsTurn(post[r].result).ac_updates = post[r].result.ac_updates
  BY DEF AsTurn
<1>5. \A i \in DOMAIN post[r].result.ac_updates :
        /\ post[r].result.ac_updates[i].met
        /\ post[r].result.ac_updates[i].criterion \in Reportable
  BY <1>2 DEF Supports, Reportable
<1>6. QED
  BY <1>3, <1>4, <1>5 DEF SpokenTurns

LEMMA SpokenAreTurns == SpokenTurns \in SUBSET TurnResults
BY DEF SpokenTurns

LEMMA FlowStepIsKernelStep ==
  ASSUME FlowInv, [FlowNext]_flowVars
  PROVE  [KernelStep(SpokenTurns)]_vars
<1>1. CASE UNCHANGED kernel
  BY <1>1 DEF kernel, vars
<1>2. CASE UNCHANGED flowVars
  BY <1>1, <1>2 DEF flowVars
<1>3. ASSUME NEW r \in Requests, NEW id \in SessionIds, PostTurn(r, id)
      PROVE  GetSessionState(id) \/ UNCHANGED kernel
  BY <1>3 DEF PostTurn
<1>4. ASSUME NEW r \in Requests, PipelineDone(r) \/ PipelineFails(r)
      PROVE  UNCHANGED kernel
  BY <1>4 DEF PipelineDone, PipelineFails
<1>5. ASSUME NEW r \in Requests, ApplyAnswered(r) \/ ApplyUnanswered(r)
      PROVE  \/ UNCHANGED kernel
             \/ \E id \in SessionIds, turn \in SpokenTurns : ApplyTurnResult(id, turn)
  <2>1. /\ \/ UNCHANGED kernel
           \/ ApplyTurnResult(post[r].session, AsTurn(post[r].result))
        /\ post[r].pc = "Applying"
    BY <1>5 DEF ApplyAnswered, ApplyUnanswered
  <2>2. post[r].session \in SessionIds
    BY <2>1 DEF FlowInv, Holds, TypeOK
  <2>3. QED
    BY <2>1, <2>2, TurnsAreSpoken
<1>6. CASE OtherCalls
  BY <1>6 DEF OtherCalls, KernelStep
<1>7. CASE FlowNext
  BY <1>1, <1>3, <1>4, <1>5, <1>6, <1>7 DEF FlowNext, KernelStep
<1>8. QED
  BY <1>2, <1>7

LEMMA KernelInFlow == FlowSpec => [](TypeOK /\ Inv)
<1>1. FlowInit => TypeOK /\ Inv
  BY InvInit DEF FlowInit
<1>2. FlowInv /\ TypeOK /\ Inv /\ [FlowNext]_flowVars => (TypeOK /\ Inv)'
  <2> SUFFICES ASSUME FlowInv, TypeOK, Inv, [FlowNext]_flowVars
               PROVE  (TypeOK /\ Inv)'
    OBVIOUS
  <2>1. [KernelStep(SpokenTurns)]_vars
    BY FlowStepIsKernelStep
  <2>2. QED
    BY <2>1, SpokenAreTurns, TypeStep, InvStep
<1>3. QED
  BY <1>1, <1>2, FlowInvariance, PTL DEF FlowSpec

(* Through all three services, with turns computed from old snapshots in     *)
(* flight, the revisit trail still explains where every session stands.      *)
THEOREM ProductHistoryIsAudit == FlowSpec => []AuditTrail
<1>1. Inv => AuditTrail
  BY DEF Inv, SessionInv, AuditTrail
<1>2. QED
  BY <1>1, KernelInFlow, PTL

(* As deployed, with no RPC that writes an artifact, the product approves no *)
(* transition: a turn never earns its project a phase, whatever it reports.  *)
THEOREM ProductNeverAdvances == FlowSpec => []NoAdvanceWithoutHost
<1>1. Inv => NoAdvanceWithoutHost
  BY DEF Inv, SessionInv, Earned, NoAdvanceWithoutHost
<1>2. QED
  BY <1>1, KernelInFlow, PTL

(* No turn that was computed from an old snapshot takes away what another    *)
(* turn put into the session meanwhile.                                      *)
THEOREM ProductForgetsNothing == FlowSpec => NothingForgotten
<1>1. FlowInv /\ [FlowNext]_flowVars =>
        [\A id \in live \cap live' : Keeps(sessions[id], sessions'[id])]_vars
  <2> SUFFICES ASSUME FlowInv, [FlowNext]_flowVars
               PROVE  \A id \in live \cap live' : Keeps(sessions[id], sessions'[id])
    OBVIOUS
  <2>1. TypeOK /\ [KernelStep(SpokenTurns)]_vars
    BY FlowStepIsKernelStep DEF FlowInv
  <2>2. QED
    BY <2>1, SpokenAreTurns, StepKeepsAll
<1>2. QED
  BY <1>1, FlowInvariance, PTL DEF FlowSpec, NothingForgotten

(* A turn of this AI service un-meets nothing, and nothing else of the       *)
(* product does: what is ready stays ready.                                  *)
THEOREM ProductReadinessStays == FlowSpec => CompleteStaysComplete
<1> DEFINE Step == \A id \in live \cap live', p \in Phases :
                     TransitionReady(p, sessions[id]) => TransitionReady(p, sessions'[id])
<1>1. ASSUME FlowInv, [FlowNext]_flowVars
      PROVE  Step
  <2> SUFFICES ASSUME NEW id \in live \cap live', NEW p \in Phases,
                      TransitionReady(p, sessions[id]), ~TransitionReady(p, sessions'[id])
               PROVE  FALSE
    OBVIOUS
  <2>1. TypeOK /\ id \in SessionIds
    BY <1>1 DEF FlowInv, TypeOK
  <2>2. [KernelStep(SpokenTurns)]_vars
    BY <1>1, FlowStepIsKernelStep
  <2>3. SessionStep(SpokenTurns, sessions[id], sessions'[id])
    BY <2>1, <2>2, SpokenAreTurns, StepOfSession DEF IdStep
  <2>4. sessions[id] \in Sessions /\ sessions'[id] \in Sessions
    BY <2>1, <2>2, SpokenAreTurns, StepOfSession DEF TypeOK
  <2>5. \E turn \in SpokenTurns : \E i \in DOMAIN turn.ac_updates : ~turn.ac_updates[i].met
    BY <2>3, <2>4, SpokenAreTurns, SessionStepReady
  <2>6. QED
    BY <2>5 DEF SpokenTurns
<1>2. FlowInv /\ [FlowNext]_flowVars => [Step]_flowVars
  BY <1>1
<1>3. QED
  BY <1>2, FlowInvariance, PTL DEF FlowSpec, CompleteStaysComplete

------------------------------------------------------------------------------
(* What talk completes.  Talked is what conversation leaves of a session:    *)
(* nobody set a field or waived a criterion, and what is met by report is    *)
(* reportable.  It is inductive, and with it every phase but one keeps a     *)
(* criterion that is not optional and that nothing meets.                    *)

Talked(s) ==
  /\ s.fields = {}
  /\ s.ac_waived = {}
  /\ s.ac_met \subseteq Reportable

\* Of each phase the checks are those of its own criteria.
LEMMA ChecksOfTheirPhase ==
  ASSUME NEW s
  PROVE  /\ \A k \in S1Checks(s) : k[1][1] = 1
         /\ \A k \in S2Checks(s) : k[1][1] = 2
         /\ \A k \in S3Checks(s) : k[1][1] = 3 /\ k[1][2] # "03"
         /\ \A k \in S4Checks(s) : k[1][1] = 4
         /\ \A k \in S5Checks(s) : k[1][1] = 5
         /\ \A k \in S6Checks(s) : k[1][1] = 6
<1>1. /\ \A k \in S1Checks(s) : k[1][1] = 1
      /\ \A k \in S5Checks(s) : k[1][1] = 5
      /\ \A k \in S6Checks(s) : k[1][1] = 6
  BY DEF S1Checks, S5Checks, S6Checks
<1>2. \A k \in S2Checks(s) : k[1][1] = 2
  <2>1. \A k \in S2Checks(s) :
          k[1] \in {<<2, "01">>, <<2, "02">>, <<2, "03">>, <<2, "04">>, <<2, "05">>, <<2, "U1">>}
    <3> DEFINE b == Captured(s, "actor", "other") + Captured(s, "actor", "decision_maker") >= 2
               d == Captured(s, "actor", "decision_maker") >= 1
    <3>1. S2Checks(s) =
            {<<<<2, "01">>, b>>, <<<<2, "02">>, d>>,
             <<<<2, "03">>, Has(s, "external_systems")>>,
             <<<<2, "04">>, Has(s, "success_definition")>>,
             <<<<2, "05">>, s.regulatory_context # "None">>, <<<<2, "U1">>, Documents(s)>>}
      BY Zenon DEF S2Checks
    <3> HIDE DEF b, d
    <3>2. QED
      BY <3>1
  <2>2. QED
    BY <2>1
<1>3. \A k \in S3Checks(s) : k[1][1] = 3 /\ k[1][2] # "03"
  <2> DEFINE b == Captured(s, "requirement", "Functional") >= 5
             d == Captured(s, "requirement", "NonFunctional") >= 1
             w == Documents(s) \/ <<3, "U1">> \in s.ac_waived
  <2>1. S3Checks(s) = {<<<<3, "01">>, b>>, <<<<3, "02">>, d>>, <<<<3, "U1">>, w>>,
                       <<<<3, "U2">>, Documents(s)>>}
    BY Zenon DEF S3Checks
  <2> HIDE DEF b, d, w
  <2>2. QED
    BY <2>1
<1>4. \A k \in S4Checks(s) : k[1][1] = 4
  <2> DEFINE b(v) == Captured(s, "constraint", v) >= 1
             a == s.assumptions # {}
  <2>1. S4Checks(s) =
          {<<<<4, "01">>, b("Budget")>>, <<<<4, "02">>, b("Timeline")>>,
           <<<<4, "03">>, b("Technology")>>, <<<<4, "04">>, b("DataResidency")>>,
           <<<<4, "05">>, a>>, <<<<4, "U1">>, Documents(s)>>, <<<<4, "U2">>, Documents(s)>>}
    BY Zenon DEF S4Checks
  <2> HIDE DEF b, a
  <2>2. QED
    BY <2>1
<1>5. QED
  BY <1>1, <1>2, <1>3, <1>4

\* Without a field of the session these criteria of the five phases are not met.
LEMMA UnmetWithoutFields ==
  ASSUME NEW s, s.fields = {}
  PROVE  FieldMet(s) \cap {<<1, "01">>, <<2, "03">>, <<3, "03">>, <<5, "01">>, <<6, "01">>} = {}
<1> SUFFICES ASSUME NEW c \in {<<1, "01">>, <<2, "03">>, <<3, "03">>, <<5, "01">>, <<6, "01">>},
                    c \in FieldMet(s)
             PROVE  FALSE
  OBVIOUS
<1>1. \A f : ~Has(s, f)
  BY DEF Has
<1>2. PICK k \in S1Checks(s) \cup S2Checks(s) \cup S3Checks(s) \cup
                 S4Checks(s) \cup S5Checks(s) \cup S6Checks(s) : k[1] = c /\ k[2]
  BY DEF FieldMet
<1>3. CASE k \in S1Checks(s) \cup S5Checks(s) \cup S6Checks(s)
  BY <1>1, <1>2, <1>3 DEF S1Checks, S5Checks, S6Checks, Documents
<1>4. CASE k \in S2Checks(s)
  <2> DEFINE b == Captured(s, "actor", "other") + Captured(s, "actor", "decision_maker") >= 2
             d == Captured(s, "actor", "decision_maker") >= 1
             g == s.regulatory_context # "None"
  <2>1. S2Checks(s) =
          {<<<<2, "01">>, b>>, <<<<2, "02">>, d>>,
           <<<<2, "03">>, Has(s, "external_systems")>>,
           <<<<2, "04">>, Has(s, "success_definition")>>,
           <<<<2, "05">>, g>>, <<<<2, "U1">>, Documents(s)>>}
    BY Zenon DEF S2Checks
  <2> HIDE DEF b, d, g
  <2>2. QED
    BY <1>1, <1>2, <1>4, <2>1
<1>5. CASE k \in S3Checks(s) \cup S4Checks(s)
  BY <1>2, <1>5, ChecksOfTheirPhase
<1>6. QED
  BY <1>2, <1>3, <1>4, <1>5

\* What the field checks of ConstraintCapture ask for.
LEMMA ConstraintChecks ==
  ASSUME NEW s
  PROVE  /\ <<4, "01">> \in FieldMet(s) => Captured(s, "constraint", "Budget") >= 1
         /\ <<4, "02">> \in FieldMet(s) => Captured(s, "constraint", "Timeline") >= 1
         /\ <<4, "03">> \in FieldMet(s) => Captured(s, "constraint", "Technology") >= 1
         /\ <<4, "04">> \in FieldMet(s) => Captured(s, "constraint", "DataResidency") >= 1
         /\ <<4, "05">> \in FieldMet(s) => s.assumptions # {}
<1> DEFINE b(v) == Captured(s, "constraint", v) >= 1
           a == s.assumptions # {}
           D == Documents(s)
<1>1. S4Checks(s) =
        {<<<<4, "01">>, b("Budget")>>, <<<<4, "02">>, b("Timeline")>>,
         <<<<4, "03">>, b("Technology")>>, <<<<4, "04">>, b("DataResidency")>>,
         <<<<4, "05">>, a>>, <<<<4, "U1">>, D>>, <<<<4, "U2">>, D>>}
  BY Zenon DEF S4Checks
<1>2. \A c \in FieldMet(s) : c[1] = 4 => \E k \in S4Checks(s) : k[1] = c /\ k[2]
  BY ChecksOfTheirPhase DEF FieldMet
<1> HIDE DEF b, a, D
<1>3. /\ <<4, "01">> \in FieldMet(s) => b("Budget")
      /\ <<4, "02">> \in FieldMet(s) => b("Timeline")
      /\ <<4, "03">> \in FieldMet(s) => b("Technology")
      /\ <<4, "04">> \in FieldMet(s) => b("DataResidency")
      /\ <<4, "05">> \in FieldMet(s) => a
  BY <1>1, <1>2
<1>4. QED
  BY <1>3 DEF b, a

LEMMA TalkCompletes ==
  ASSUME NEW s, Talked(s), NEW p \in Phases, TransitionReady(p, s)
  PROVE  /\ p = "ConstraintCapture"
         /\ \A v \in {"Budget", "Timeline", "Technology", "DataResidency"} :
              Captured(s, "constraint", v) >= 1
         /\ s.assumptions # {}
<1>1. p # "SignedOff" /\ p \in Phases
  BY DEF TransitionReady, IsTerminal
<1>2. \A c \in Criteria(p) : c[2] \notin Optional /\ c \notin Reportable => c \in FieldMet(s)
  BY <1>1 DEF TransitionReady, Unmet, IsTerminal, Talked
<1>3. \A n \in {"01", "02", "03", "04", "05"} : <<Rank[p], n>> \in Criteria(p) /\ n \notin Optional
  BY DEF Criteria, Optional
<1>4. \A n \in {"01", "02", "03", "04", "05"} :
        <<Rank[p], n>> \in FieldMet(s) \/ <<Rank[p], n>> \in Reportable
  BY <1>2, <1>3
<1>5. Rank[p] = 4
  <2>1. Rank[p] \in {1, 2, 3, 4, 5, 6}
    BY <1>1 DEF Rank, Phases
  <2>2. Rank[p] \notin {1, 2, 3, 5, 6}
    BY <1>4, UnmetWithoutFields DEF Talked, Reportable
  <2>3. QED
    BY <2>1, <2>2
<1>6. p = "ConstraintCapture"
  BY <1>1, <1>5 DEF Rank, Phases
<1>7. \A n \in {"01", "02", "03", "04", "05"} : <<4, n>> \in FieldMet(s)
  BY <1>4, <1>5 DEF Reportable
<1>8. QED
  BY <1>6, <1>7, ConstraintChecks

LEMMA TurnIsTalk ==
  ASSUME NEW s \in Sessions, Talked(s), NEW turn \in SpokenTurns
  PROVE  Talked(ApplyTurn(s, turn))
<1> DEFINE a == ApplyEntities(s, turn.entities)
           b == ApplyAcUpdates(a, turn.ac_updates)
<1>1. turn.entities \in Seq(Entities) /\ turn.ac_updates \in Seq(AcUpdates)
  BY DEF SpokenTurns, TurnResults
<1>2. a \in Sessions /\ a.fields = s.fields /\ a.ac_waived = s.ac_waived /\ a.ac_met = s.ac_met
  BY <1>1, ApplyEntitiesType DEF ApplyEntities, Sessions
<1> HIDE DEF a
<1>3. b \in Sessions
  BY <1>1, <1>2, ApplyAcUpdatesType
<1>4. /\ b.fields = a.fields /\ b.ac_waived \subseteq a.ac_waived
      /\ \A c \in b.ac_met \ a.ac_met :
           \E i \in DOMAIN turn.ac_updates : turn.ac_updates[i].criterion = c
  BY <1>2 DEF ApplyAcUpdates, Sessions
<1>5. b.ac_met \subseteq Reportable
  BY <1>2, <1>4 DEF Talked, SpokenTurns
<1> HIDE DEF b
<1>6. /\ ApplyTurn(s, turn).fields = b.fields
      /\ ApplyTurn(s, turn).ac_waived = b.ac_waived
      /\ ApplyTurn(s, turn).ac_met = b.ac_met
  BY <1>3 DEF ApplyTurn, a, b, Sessions
<1>7. QED
  BY <1>2, <1>4, <1>5, <1>6 DEF Talked

Talk == \A id \in SessionIds : Talked(sessions[id])

LEMMA TalkKept ==
  ASSUME FlowInv, Talk, [FlowNext]_flowVars
  PROVE  Talk'
<1>0. sessions \in [SessionIds -> Sessions]
  BY DEF FlowInv, TypeOK
<1>1. CASE UNCHANGED sessions
  BY <1>1 DEF Talk
<1>2. ASSUME NEW id \in SessionIds, NEW t, Talked(t), sessions' = [sessions EXCEPT ![id] = t]
      PROVE  Talk'
  BY <1>0, <1>2 DEF Talk
<1>3. Talked(NewSession)
  BY DEF Talked, NewSession
<1>4. CASE Restart
  BY <1>3, <1>4 DEF Restart, Talk
<1>5. ASSUME NEW id \in SessionIds, CreateSession(id)
      PROVE  Talk'
  BY <1>2, <1>3, <1>5 DEF CreateSession
<1>6. ASSUME NEW id \in SessionIds, NEW turn \in SpokenTurns, ApplyTurnResult(id, turn)
      PROVE  Talk'
  <2>1. Talked(ApplyTurn(sessions[id], turn))
    BY <1>0, TurnIsTalk DEF Talk
  <2>2. QED
    BY <1>1, <1>2, <1>6, <2>1 DEF ApplyTurnResult
<1>7. ASSUME NEW id \in SessionIds, NEW target \in Targets,
             RequestTransition(id, target) \/ RevisitPhase(id, target)
      PROVE  Talk'
  <2>1. /\ Talked(Advance(sessions[id], target))
        /\ Talked(Revisit(sessions[id], target))
    BY <1>0 DEF Talk, Talked, Advance, Revisit, Sessions
  <2>2. \/ UNCHANGED sessions
        \/ sessions' = [sessions EXCEPT ![id] = Advance(sessions[id], target)]
        \/ sessions' = [sessions EXCEPT ![id] = Revisit(sessions[id], target)]
    BY <1>7 DEF RequestTransition, RevisitPhase, Refused
  <2>3. QED
    BY <1>1, <1>2, <2>1, <2>2
<1>8. CASE OtherCalls
  BY <1>4, <1>5, <1>7, <1>8 DEF OtherCalls
<1>9. ASSUME NEW r \in Requests, NEW id \in SessionIds, PostTurn(r, id)
      PROVE  UNCHANGED sessions
  BY <1>9 DEF PostTurn, GetSessionState, kernel
<1>10. ASSUME NEW r \in Requests, PipelineDone(r) \/ PipelineFails(r)
       PROVE  UNCHANGED sessions
  BY <1>10 DEF PipelineDone, PipelineFails, kernel
<1>11. ASSUME NEW r \in Requests, ApplyAnswered(r) \/ ApplyUnanswered(r)
       PROVE  Talk'
  <2>1. \/ UNCHANGED sessions
        \/ ApplyTurnResult(post[r].session, AsTurn(post[r].result))
    BY <1>11 DEF ApplyAnswered, ApplyUnanswered, kernel
  <2>2. AsTurn(post[r].result) \in SpokenTurns
    BY <1>11, TurnsAreSpoken DEF ApplyAnswered, ApplyUnanswered
  <2>3. post[r].session \in SessionIds
    BY <1>11 DEF ApplyAnswered, ApplyUnanswered, FlowInv, Holds, TypeOK
  <2>4. QED
    BY <1>1, <1>6, <2>1, <2>2, <2>3
<1>12. CASE UNCHANGED flowVars
  BY <1>1, <1>12 DEF flowVars, kernel
<1>13. QED
  BY <1>1, <1>8, <1>9, <1>10, <1>11, <1>12 DEF FlowNext

(* Whatever the parties say, in any number of turns, only ConstraintCapture  *)
(* ever becomes ready: of the other phases the extractor reports too little  *)
(* and no RPC writes the rest.                                               *)
THEOREM TalkCompletesConstraintsOnly == FlowSpec => []OnlyConstraintsComplete
<1>1. FlowInit => Talk
  BY DEF FlowInit, Init, Talk, Talked, NewSession
<1>2. FlowInv /\ Talk /\ [FlowNext]_flowVars => Talk'
  BY TalkKept
<1>3. FlowInv /\ Talk => OnlyConstraintsComplete
  BY TalkCompletes DEF OnlyConstraintsComplete, Talk, FlowInv, TypeOK
<1>4. QED
  BY <1>1, <1>2, <1>3, FlowInvariance, PTL DEF FlowSpec
=============================================================================
