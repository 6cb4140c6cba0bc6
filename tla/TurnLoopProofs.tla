--------------------------- MODULE TurnLoopProofs ---------------------------
(***************************************************************************)
(* The loops of ApplyTurnResult compute SessionKernel!ApplyTurn, for every *)
(* session and for lists of entities and updates of every length.          *)
(*                                                                         *)
(* The invariant is the property itself, with the types of the loop        *)
(* variables.  What carries it over an iteration is what one more element  *)
(* of a list does to the closed form: OneMoreEntity and OneMoreUpdate.     *)
(***************************************************************************)
EXTENDS TurnLoop, FiniteSetTheorems, TLAPS

\* The first n + 1 elements of a list are the first n and one more.
LEMMA OneMore ==
  ASSUME NEW S, NEW l \in Seq(S), NEW n \in Nat, n < Len(l)
  PROVE  /\ l[n + 1] \in S
         /\ SubSeq(l, 1, n) \in Seq(S) /\ SubSeq(l, 1, n + 1) \in Seq(S)
         /\ DOMAIN SubSeq(l, 1, n) = 1..n
         /\ DOMAIN SubSeq(l, 1, n + 1) = 1..(n + 1)
         /\ \A k \in 1..n : SubSeq(l, 1, n)[k] = l[k]
         /\ \A k \in 1..(n + 1) : SubSeq(l, 1, n + 1)[k] = l[k]
  OBVIOUS

\* An entity more is counted once more.
LEMMA OneMoreCounted ==
  ASSUME NEW es \in Seq(Entities), NEW n \in Nat, n < Len(es), NEW e
  PROVE  LET Places(l) == {k \in DOMAIN l : l[k] = e}
         IN  /\ Cardinality(Places(SubSeq(es, 1, n))) \in Nat
             /\ Cardinality(Places(SubSeq(es, 1, n + 1))) =
                  Cardinality(Places(SubSeq(es, 1, n))) + (IF es[n + 1] = e THEN 1 ELSE 0)
  <1> DEFINE p == SubSeq(es, 1, n)
             q == SubSeq(es, 1, n + 1)
             P == {k \in DOMAIN p : p[k] = e}
             Q == {k \in DOMAIN q : q[k] = e}
  <1>1. /\ DOMAIN p = 1..n /\ DOMAIN q = 1..(n + 1)
        /\ \A k \in 1..n : p[k] = es[k]
        /\ \A k \in 1..(n + 1) : q[k] = es[k]
    BY OneMore
  <1> HIDE DEF p, q
  <1>2. /\ P \subseteq 1..n
        /\ n + 1 \notin P
        /\ P \subseteq Q
        /\ \A k \in Q : k \in P \/ k = n + 1
        /\ n + 1 \in Q <=> es[n + 1] = e
    BY <1>1
  <1>3. IsFiniteSet(P)
    <2> HIDE DEF P
    <2>1. IsFiniteSet(1..n)  BY FS_Interval
    <2>2. P \subseteq 1..n   BY <1>2
    <2> QED  BY <2>1, <2>2, FS_Subset
  <1> HIDE DEF P, Q
  <1>4. Cardinality(P) \in Nat  BY <1>3, FS_CardinalityType
  <1>5. Cardinality(Q) = Cardinality(P) + (IF es[n + 1] = e THEN 1 ELSE 0)
    <2>1. CASE es[n + 1] = e
      <3>1. Q = P \cup {n + 1}  BY <1>2, <2>1
      <3> QED  BY <1>2, <1>3, <2>1, <3>1, FS_AddElement
    <2>2. CASE es[n + 1] # e
      <3>1. Q = P  BY <1>2, <2>2
      <3> QED  BY <1>4, <2>2, <3>1
    <2> QED  BY <2>1, <2>2
  <1> QED  BY <1>4, <1>5 DEF p, q, P, Q

\* An entity more of a noted type adds its text.
LEMMA OneMoreValued ==
  ASSUME NEW es \in Seq(Entities), NEW n \in Nat, n < Len(es), NEW type
  PROVE  Valued(SubSeq(es, 1, n + 1), type) =
           Valued(SubSeq(es, 1, n), type) \cup
             (IF es[n + 1].type = type THEN {es[n + 1].value} ELSE {})
  <1> DEFINE p == SubSeq(es, 1, n)
             q == SubSeq(es, 1, n + 1)
  <1>1. /\ DOMAIN p = 1..n /\ DOMAIN q = 1..(n + 1)
        /\ \A k \in 1..n : p[k] = es[k]
        /\ \A k \in 1..(n + 1) : q[k] = es[k]
    BY OneMore
  <1> HIDE DEF p, q
  <1>2. Valued(q, type) = Valued(p, type) \cup
          (IF es[n + 1].type = type THEN {es[n + 1].value} ELSE {})
    <2>1. Valued(q, type) = {es[k].value : k \in {k \in 1..(n + 1) : es[k].type = type}}
      BY <1>1 DEF Valued
    <2>2. Valued(p, type) = {es[k].value : k \in {k \in 1..n : es[k].type = type}}
      BY <1>1 DEF Valued
    <2> QED  BY <2>1, <2>2
  <1> QED  BY <1>2 DEF p, q

------------------------------------------------------------------------------
\* A session with the fields a turn writes replaced.
Made(s, captured, assumptions, questions, met, waived, cost, count) ==
  [s EXCEPT !.captured = captured, !.assumptions = assumptions,
            !.open_questions = questions, !.ac_met = met, !.ac_waived = waived,
            !.total_cost = cost, !.turn_count = count]

Counts(s, es) ==
  [e \in ListedEntities |-> s.captured[e] + Cardinality({k \in DOMAIN es : es[k] = e})]

MentionedBy(us) == {us[k].criterion : k \in DOMAIN us}

EverMet(us) == {us[k].criterion : k \in {m \in DOMAIN us : us[m].met}}

FinallyMet(us) ==
  {us[k].criterion : k \in {m \in DOMAIN us :
                              /\ us[m].met
                              /\ \A o \in DOMAIN us : o > m => us[o].criterion # us[m].criterion}}

Turned(delta) == IF delta > 0 THEN delta ELSE 0

TurnOf(es, us, c, d) ==
  [entities |-> es, ac_updates |-> us, cost |-> c, turn_count_delta |-> d]

\* The effect of a turn, field by field.
LEMMA TurnFields ==
  ASSUME NEW s \in Sessions, NEW t
  PROVE  ApplyTurn(s, t) =
           Made(s, Counts(s, t.entities),
                s.assumptions \cup Valued(t.entities, "assumption"),
                s.open_questions \cup Valued(t.entities, "gap"),
                (s.ac_met \ MentionedBy(t.ac_updates)) \cup FinallyMet(t.ac_updates),
                s.ac_waived \ EverMet(t.ac_updates),
                s.total_cost + t.cost,
                s.turn_count + Turned(t.turn_count_delta))
  <1> DEFINE captured == Counts(s, t.entities)
             assumptions == s.assumptions \cup Valued(t.entities, "assumption")
             questions == s.open_questions \cup Valued(t.entities, "gap")
             met == (s.ac_met \ MentionedBy(t.ac_updates)) \cup FinallyMet(t.ac_updates)
             waived == s.ac_waived \ EverMet(t.ac_updates)
             cost == s.total_cost + t.cost
             count == s.turn_count + Turned(t.turn_count_delta)
             r == [s EXCEPT !.captured = captured, !.assumptions = assumptions,
                            !.open_questions = questions]
             u == [r EXCEPT !.ac_met = met, !.ac_waived = waived]
  <1>1. ApplyEntities(s, t.entities) = r
    BY DEF ApplyEntities, Counts
  <1>2. r.ac_met = s.ac_met /\ r.ac_waived = s.ac_waived
    BY DEF Sessions
  <1>3. ApplyAcUpdates(r, t.ac_updates) = u
    <2> HIDE DEF r
    <2> QED  BY <1>2 DEF ApplyAcUpdates, MentionedBy, EverMet, FinallyMet
  <1>4. u.total_cost = s.total_cost /\ u.turn_count = s.turn_count
    BY DEF Sessions
  <1>5. ApplyTurn(s, t) = [u EXCEPT !.total_cost = cost, !.turn_count = count]
    <2> HIDE DEF r, u
    <2> QED  BY <1>1, <1>3, <1>4 DEF ApplyTurn, Turned
  <1>6. [u EXCEPT !.total_cost = cost, !.turn_count = count] =
          Made(s, captured, assumptions, questions, met, waived, cost, count)
    <2> HIDE DEF captured, assumptions, questions, met, waived, cost, count
    <2> QED  BY DEF Made, Sessions
  <1> QED  BY <1>5, <1>6

------------------------------------------------------------------------------
\* What one more entity does to the counters.
LEMMA OneMoreInCounts ==
  ASSUME NEW s \in Sessions, NEW es \in Seq(Entities), NEW n \in Nat, n < Len(es)
  PROVE  LET p == Counts(s, SubSeq(es, 1, n))
             q == Counts(s, SubSeq(es, 1, n + 1))
             e == es[n + 1]
         IN  /\ e \in ListedEntities => q = [p EXCEPT ![e] = @ + 1]
             /\ e \notin ListedEntities => q = p
  <1> DEFINE Places(l, e) == {k \in DOMAIN l : l[k] = e}
             Before(e) == Cardinality(Places(SubSeq(es, 1, n), e))
             After(e) == Cardinality(Places(SubSeq(es, 1, n + 1), e))
  <1>1. \A e : Before(e) \in Nat /\ After(e) = Before(e) + (IF es[n + 1] = e THEN 1 ELSE 0)
    BY OneMoreCounted
  <1>2. Counts(s, SubSeq(es, 1, n)) = [e \in ListedEntities |-> s.captured[e] + Before(e)]
    BY DEF Counts
  <1>3. Counts(s, SubSeq(es, 1, n + 1)) = [e \in ListedEntities |-> s.captured[e] + After(e)]
    BY DEF Counts
  <1>4. \A e \in ListedEntities : s.captured[e] \in Nat
    BY DEF Sessions
  <1> HIDE DEF Before, After
  <1>5. \A e \in ListedEntities :
          /\ e = es[n + 1] => s.captured[e] + After(e) = (s.captured[e] + Before(e)) + 1
          /\ e # es[n + 1] => s.captured[e] + After(e) = s.captured[e] + Before(e)
    BY <1>1, <1>4
  <1> QED  BY <1>2, <1>3, <1>5

\* A field is written over.
LEMMA MadeOver ==
  ASSUME NEW s \in Sessions, NEW a, NEW b, NEW c, NEW d, NEW e, NEW f, NEW g, NEW x
  PROVE  LET m == Made(s, a, b, c, d, e, f, g)
         IN  /\ m.captured = a /\ m.assumptions = b /\ m.open_questions = c
             /\ m.ac_met = d /\ m.ac_waived = e /\ m.total_cost = f /\ m.turn_count = g
             /\ [m EXCEPT !.captured = x] = Made(s, x, b, c, d, e, f, g)
             /\ [m EXCEPT !.assumptions = x] = Made(s, a, x, c, d, e, f, g)
             /\ [m EXCEPT !.open_questions = x] = Made(s, a, b, x, d, e, f, g)
             /\ [m EXCEPT !.ac_met = x] = Made(s, a, b, c, x, e, f, g)
             /\ [m EXCEPT !.ac_waived = x] = Made(s, a, b, c, d, x, f, g)
             /\ [m EXCEPT !.total_cost = x] = Made(s, a, b, c, d, e, x, g)
             /\ [m EXCEPT !.turn_count = x] = Made(s, a, b, c, d, e, f, x)
  <1> DEFINE m == Made(s, a, b, c, d, e, f, g)
  <1>1. /\ m.captured = a /\ m.assumptions = b /\ m.open_questions = c
        /\ m.ac_met = d /\ m.ac_waived = e /\ m.total_cost = f /\ m.turn_count = g
    BY DEF Made, Sessions
  <1>2. [m EXCEPT !.captured = x] = Made(s, x, b, c, d, e, f, g)
    BY DEF Made, Sessions
  <1>3. [m EXCEPT !.assumptions = x] = Made(s, a, x, c, d, e, f, g)
    BY DEF Made, Sessions
  <1>4. [m EXCEPT !.open_questions = x] = Made(s, a, b, x, d, e, f, g)
    BY DEF Made, Sessions
  <1>5. [m EXCEPT !.ac_met = x] = Made(s, a, b, c, x, e, f, g)
    BY DEF Made, Sessions
  <1>6. [m EXCEPT !.ac_waived = x] = Made(s, a, b, c, d, x, f, g)
    BY DEF Made, Sessions
  <1>7. [m EXCEPT !.total_cost = x] = Made(s, a, b, c, d, e, x, g)
    BY DEF Made, Sessions
  <1>8. [m EXCEPT !.turn_count = x] = Made(s, a, b, c, d, e, f, x)
    BY DEF Made, Sessions
  <1> QED  BY <1>1, <1>2, <1>3, <1>4, <1>5, <1>6, <1>7, <1>8

\* One more of an entity in the counters, if it is counted.
CountedOnce(a, e) == IF e \in ListedEntities THEN [a EXCEPT ![e] = @ + 1] ELSE a

NotedAs(e, type) == IF e.type = type THEN {e.value} ELSE {}

\* An entity's effect on a session that is partly made.
LEMMA EntityOnMade ==
  ASSUME NEW s \in Sessions, NEW a, NEW b, NEW c, NEW d, NEW w, NEW f, NEW g,
         NEW e \in Entities
  PROVE  ApplyEntity(Made(s, a, b, c, d, w, f, g), e) =
           Made(s,
                CountedOnce(a, e),
                b \cup NotedAs(e, "assumption"),
                c \cup NotedAs(e, "gap"),
                d, w, f, g)
  <1> DEFINE m == Made(s, a, b, c, d, w, f, g)
  <1>1. /\ m.captured = a /\ m.assumptions = b /\ m.open_questions = c
        /\ \A x : [m EXCEPT !.captured = x] = Made(s, x, b, c, d, w, f, g)
        /\ \A x : [m EXCEPT !.assumptions = x] = Made(s, a, x, c, d, w, f, g)
        /\ \A x : [m EXCEPT !.open_questions = x] = Made(s, a, b, x, d, w, f, g)
    BY MadeOver
  <1>2. m = Made(s, a, b, c, d, w, f, g)
    OBVIOUS
  <1> HIDE DEF m
  <1>3. CASE e \in ListedEntities
    <2>1. e.type # "assumption" /\ e.type # "gap"
      BY <1>3 DEF ListedEntities, ActorEntities, RequirementEntities, ConstraintEntities
    <2>2. ApplyEntity(m, e) = [m EXCEPT !.captured[e] = @ + 1]
      BY <1>3, <2>1 DEF ApplyEntity, ListedEntities, ActorEntities, RequirementEntities, ConstraintEntities
    <2>3. [m EXCEPT !.captured[e] = @ + 1] = [m EXCEPT !.captured = [a EXCEPT ![e] = a[e] + 1]]
      BY <1>1
    <2> QED  BY <1>1, <1>2, <1>3, <2>1, <2>2, <2>3 DEF CountedOnce, NotedAs
  <1>4. CASE e \notin ListedEntities
    <2>1. e.type \in {"assumption", "gap", "unknown"}
      BY <1>4 DEF Entities
    <2>2. CASE e.type = "assumption"
      <3>1. ApplyEntity(m, e) = [m EXCEPT !.assumptions = b \cup {e.value}]
        BY <1>1, <1>4, <2>2 DEF ApplyEntity
      <3> QED  BY <1>1, <1>2, <1>4, <2>2, <3>1 DEF CountedOnce, NotedAs
    <2>3. CASE e.type = "gap"
      <3>1. ApplyEntity(m, e) = [m EXCEPT !.open_questions = c \cup {e.value}]
        BY <1>1, <1>4, <2>3 DEF ApplyEntity
      <3> QED  BY <1>1, <1>2, <1>4, <2>3, <3>1 DEF CountedOnce, NotedAs
    <2>4. CASE e.type = "unknown"
      <3>1. ApplyEntity(m, e) = m
        BY <1>4, <2>4 DEF ApplyEntity
      <3> QED  BY <1>2, <1>4, <2>4, <3>1 DEF CountedOnce, NotedAs
    <2> QED  BY <2>1, <2>2, <2>3, <2>4
  <1> QED  BY <1>3, <1>4 DEF m

\* One iteration over the entities.
LEMMA EntityIteration ==
  ASSUME NEW s \in Sessions, NEW es \in Seq(Entities), NEW n \in Nat, n < Len(es),
         NEW us, NEW c, NEW d
  PROVE  LET Upto(m) == TurnOf(SubSeq(es, 1, m), us, c, d)
         IN  ApplyEntity(ApplyTurn(s, Upto(n)), es[n + 1]) = ApplyTurn(s, Upto(n + 1))
  <1> DEFINE e == es[n + 1]
             p == SubSeq(es, 1, n)
             q == SubSeq(es, 1, n + 1)
             met == (s.ac_met \ MentionedBy(us)) \cup FinallyMet(us)
             waived == s.ac_waived \ EverMet(us)
             cost == s.total_cost + c
             count == s.turn_count + Turned(d)
             With(l) == Made(s, Counts(s, l), s.assumptions \cup Valued(l, "assumption"),
                             s.open_questions \cup Valued(l, "gap"), met, waived, cost, count)
             Upto(m) == TurnOf(SubSeq(es, 1, m), us, c, d)
  <1>1. \A m : ApplyTurn(s, Upto(m)) = With(SubSeq(es, 1, m))
    <2> TAKE m
    <2> DEFINE t == Upto(m)
    <2>1. /\ t.entities = SubSeq(es, 1, m) /\ t.ac_updates = us
          /\ t.cost = c /\ t.turn_count_delta = d
      BY DEF TurnOf
    <2> HIDE DEF t
    <2>2. ApplyTurn(s, t) = With(SubSeq(es, 1, m))
      BY <2>1, TurnFields
    <2> QED  BY <2>2 DEF t
  <1>2. e \in Entities
    BY OneMore
  <1>3. /\ e \in ListedEntities => Counts(s, q) = [Counts(s, p) EXCEPT ![e] = @ + 1]
        /\ e \notin ListedEntities => Counts(s, q) = Counts(s, p)
    BY OneMoreInCounts
  <1>4. \A type : Valued(q, type) = Valued(p, type) \cup
                                      (IF e.type = type THEN {e.value} ELSE {})
    BY OneMoreValued
  <1>5. ApplyEntity(With(p), e) = With(q)
    <2>1. /\ Valued(q, "assumption") = Valued(p, "assumption") \cup
                                         NotedAs(e, "assumption")
          /\ Valued(q, "gap") = Valued(p, "gap") \cup
                                  NotedAs(e, "gap")
      BY <1>4 DEF NotedAs
    <2>2. Counts(s, q) = CountedOnce(Counts(s, p), e)
      BY <1>3 DEF CountedOnce
    <2>3. s.assumptions \cup Valued(q, "assumption") =
            (s.assumptions \cup Valued(p, "assumption")) \cup
              NotedAs(e, "assumption")
      BY <2>1
    <2>4. s.open_questions \cup Valued(q, "gap") =
            (s.open_questions \cup Valued(p, "gap")) \cup
              NotedAs(e, "gap")
      BY <2>1
    <2> HIDE DEF e, p, q, met, waived, cost, count
    <2>5. ApplyEntity(With(p), e) =
            Made(s,
                 CountedOnce(Counts(s, p), e),
                 (s.assumptions \cup Valued(p, "assumption")) \cup
                   NotedAs(e, "assumption"),
                 (s.open_questions \cup Valued(p, "gap")) \cup
                   NotedAs(e, "gap"),
                 met, waived, cost, count)
      <3> DEFINE a == Counts(s, p)
                 b == s.assumptions \cup Valued(p, "assumption")
                 o == s.open_questions \cup Valued(p, "gap")
      <3>1. With(p) = Made(s, a, b, o, met, waived, cost, count)
        OBVIOUS
      <3> HIDE DEF a, b, o, With
      <3>2. ApplyEntity(Made(s, a, b, o, met, waived, cost, count), e) =
              Made(s,
                   CountedOnce(a, e),
                   b \cup NotedAs(e, "assumption"),
                   o \cup NotedAs(e, "gap"),
                   met, waived, cost, count)
        BY <1>2, EntityOnMade
      <3> QED  BY <3>1, <3>2 DEF a, b, o
    <2> QED  BY <2>2, <2>3, <2>4, <2>5
  <1> QED  BY <1>1, <1>5

------------------------------------------------------------------------------
\* What one more update does to the criteria the updates speak of.
LEMMA OneMoreUpdate ==
  ASSUME NEW us \in Seq(AcUpdates), NEW n \in Nat, n < Len(us)
  PROVE  LET p == SubSeq(us, 1, n)
             q == SubSeq(us, 1, n + 1)
             u == us[n + 1]
         IN  /\ MentionedBy(q) = MentionedBy(p) \cup {u.criterion}
             /\ EverMet(q) = EverMet(p) \cup (IF u.met THEN {u.criterion} ELSE {})
             /\ FinallyMet(q) = (FinallyMet(p) \ {u.criterion}) \cup
                                  (IF u.met THEN {u.criterion} ELSE {})
  <1> DEFINE p == SubSeq(us, 1, n)
             q == SubSeq(us, 1, n + 1)
             u == us[n + 1]
  <1>1. /\ DOMAIN p = 1..n /\ DOMAIN q = 1..(n + 1)
        /\ \A k \in 1..n : p[k] = us[k]
        /\ \A k \in 1..(n + 1) : q[k] = us[k]
    BY OneMore
  <1> HIDE DEF p, q
  <1>2. /\ MentionedBy(p) = {us[k].criterion : k \in 1..n}
        /\ MentionedBy(q) = {us[k].criterion : k \in 1..(n + 1)}
    BY <1>1 DEF MentionedBy
  <1>3. /\ EverMet(p) = {us[k].criterion : k \in {m \in 1..n : us[m].met}}
        /\ EverMet(q) = {us[k].criterion : k \in {m \in 1..(n + 1) : us[m].met}}
    BY <1>1 DEF EverMet
  <1>4. /\ \A c : c \in FinallyMet(p) <=>
                    \E k \in 1..n : /\ c = us[k].criterion /\ us[k].met
                                    /\ \A o \in 1..n : o > k => us[o].criterion # c
        /\ \A c : c \in FinallyMet(q) <=>
                    \E k \in 1..(n + 1) : /\ c = us[k].criterion /\ us[k].met
                                          /\ \A o \in 1..(n + 1) : o > k => us[o].criterion # c
    <2>1. \A c : c \in FinallyMet(p) <=>
                  \E k \in 1..n : /\ c = us[k].criterion /\ us[k].met
                                  /\ \A o \in 1..n : o > k => us[o].criterion # c
      <3>1. FinallyMet(p) = {p[k].criterion : k \in {m \in 1..n : p[m].met /\
                               \A o \in 1..n : o > m => p[o].criterion # p[m].criterion}}
        BY <1>1 DEF FinallyMet
      <3> QED  BY <1>1, <3>1
    <2>2. \A c : c \in FinallyMet(q) <=>
                  \E k \in 1..(n + 1) : /\ c = us[k].criterion /\ us[k].met
                                        /\ \A o \in 1..(n + 1) : o > k => us[o].criterion # c
      <3>1. FinallyMet(q) = {q[k].criterion : k \in {m \in 1..(n + 1) : q[m].met /\
                               \A o \in 1..(n + 1) : o > m => q[o].criterion # q[m].criterion}}
        BY <1>1 DEF FinallyMet
      <3> QED  BY <1>1, <3>1
    <2> QED  BY <2>1, <2>2
  <1>5. MentionedBy(q) = MentionedBy(p) \cup {u.criterion}
    BY <1>2
  <1>6. EverMet(q) = EverMet(p) \cup (IF u.met THEN {u.criterion} ELSE {})
    BY <1>3
  <1>7. FinallyMet(q) = (FinallyMet(p) \ {u.criterion}) \cup
                          (IF u.met THEN {u.criterion} ELSE {})
    <2>1. ASSUME NEW c, c # u.criterion
          PROVE  c \in FinallyMet(q) <=> c \in FinallyMet(p)
      BY <1>4, <2>1
    <2>2. u.criterion \in FinallyMet(q) <=> u.met
      BY <1>4
    <2> QED  BY <2>1, <2>2
  <1> QED  BY <1>5, <1>6, <1>7 DEF p, q

MetBy(met, u) == IF u.met THEN met \cup {u.criterion} ELSE met \ {u.criterion}

WaivedBy(waived, u) == IF u.met THEN waived \ {u.criterion} ELSE waived

\* An update's effect on a session that is partly made.
LEMMA UpdateOnMade ==
  ASSUME NEW s \in Sessions, NEW a, NEW b, NEW c, NEW d, NEW w, NEW f, NEW g, NEW u
  PROVE  ApplyAcUpdate(Made(s, a, b, c, d, w, f, g), u) =
           Made(s, a, b, c, MetBy(d, u), WaivedBy(w, u), f, g)
  <1> DEFINE m == Made(s, a, b, c, d, w, f, g)
  <1>1. m.ac_met = d /\ m.ac_waived = w
    BY MadeOver
  <1>2. ASSUME NEW x, NEW y
        PROVE  [m EXCEPT !.ac_met = x, !.ac_waived = y] = Made(s, a, b, c, x, y, f, g)
    BY DEF Made, Sessions
  <1>3. ASSUME NEW x
        PROVE  [m EXCEPT !.ac_met = x] = Made(s, a, b, c, x, w, f, g)
    BY MadeOver
  <1> HIDE DEF m
  <1>4. CASE u.met
    <2> DEFINE x == d \cup {u.criterion}
               y == w \ {u.criterion}
    <2>1. ApplyAcUpdate(m, u) = [m EXCEPT !.ac_met = x, !.ac_waived = y]
      BY <1>1, <1>4 DEF ApplyAcUpdate
    <2>2. [m EXCEPT !.ac_met = x, !.ac_waived = y] = Made(s, a, b, c, x, y, f, g)
      <3> HIDE DEF x, y
      <3> QED  BY <1>2
    <2> QED  BY <1>4, <2>1, <2>2 DEF m, MetBy, WaivedBy
  <1>5. CASE ~u.met
    <2> DEFINE x == d \ {u.criterion}
    <2>1. ApplyAcUpdate(m, u) = [m EXCEPT !.ac_met = x]
      BY <1>1, <1>5 DEF ApplyAcUpdate
    <2>2. [m EXCEPT !.ac_met = x] = Made(s, a, b, c, x, w, f, g)
      <3> HIDE DEF x
      <3> QED  BY <1>3
    <2> QED  BY <1>5, <2>1, <2>2 DEF m, MetBy, WaivedBy
  <1> QED  BY <1>4, <1>5

\* One iteration over the updates.
LEMMA UpdateIteration ==
  ASSUME NEW s \in Sessions, NEW us \in Seq(AcUpdates), NEW n \in Nat, n < Len(us),
         NEW es, NEW c, NEW d
  PROVE  LET Upto(m) == TurnOf(es, SubSeq(us, 1, m), c, d)
         IN  ApplyAcUpdate(ApplyTurn(s, Upto(n)), us[n + 1]) = ApplyTurn(s, Upto(n + 1))
  <1> DEFINE u == us[n + 1]
             p == SubSeq(us, 1, n)
             q == SubSeq(us, 1, n + 1)
             captured == Counts(s, es)
             assumptions == s.assumptions \cup Valued(es, "assumption")
             questions == s.open_questions \cup Valued(es, "gap")
             Met(l) == (s.ac_met \ MentionedBy(l)) \cup FinallyMet(l)
             Waived(l) == s.ac_waived \ EverMet(l)
             cost == s.total_cost + c
             count == s.turn_count + Turned(d)
             With(met, waived) ==
               Made(s, captured, assumptions, questions, met, waived, cost, count)
             Upto(m) == TurnOf(es, SubSeq(us, 1, m), c, d)
  <1>1. \A m : ApplyTurn(s, Upto(m)) = With(Met(SubSeq(us, 1, m)), Waived(SubSeq(us, 1, m)))
    <2> TAKE m
    <2> DEFINE t == Upto(m)
    <2>1. /\ t.entities = es /\ t.ac_updates = SubSeq(us, 1, m)
          /\ t.cost = c /\ t.turn_count_delta = d
      BY DEF TurnOf
    <2> HIDE DEF t
    <2>2. ApplyTurn(s, t) = With(Met(SubSeq(us, 1, m)), Waived(SubSeq(us, 1, m)))
      BY <2>1, TurnFields
    <2> QED  BY <2>2 DEF t
  <1>2. /\ Met(q) = (Met(p) \ {u.criterion}) \cup (IF u.met THEN {u.criterion} ELSE {})
        /\ Waived(q) = Waived(p) \ (IF u.met THEN {u.criterion} ELSE {})
    BY OneMoreUpdate
  <1> HIDE DEF captured, assumptions, questions, cost, count, u, p, q, Met, Waived
  <1>3. ApplyAcUpdate(With(Met(p), Waived(p)), u) =
          With(MetBy(Met(p), u), WaivedBy(Waived(p), u))
    BY UpdateOnMade
  <1>4. Met(q) = MetBy(Met(p), u) /\ Waived(q) = WaivedBy(Waived(p), u)
    BY <1>2 DEF MetBy, WaivedBy
  <1> HIDE DEF With
  <1> QED  BY <1>1, <1>3, <1>4 DEF u, p, q

\* The additions at the end.
WithTurn(a, c, d) == [a EXCEPT !.total_cost = @ + c, !.turn_count = @ + Turned(d)]

\* They are what a cost and a count make of a turn that has none.
LEMMA Counted ==
  ASSUME NEW s \in Sessions, NEW es, NEW us, NEW c \in Nat, NEW d \in Int
  PROVE  LET Done(x, y) == TurnOf(es, us, x, y)
             a == ApplyTurn(s, Done(0, 0))
         IN  ApplyTurn(s, Done(c, d)) = WithTurn(a, c, d)
  <1> DEFINE captured == Counts(s, es)
             assumptions == s.assumptions \cup Valued(es, "assumption")
             questions == s.open_questions \cup Valued(es, "gap")
             met == (s.ac_met \ MentionedBy(us)) \cup FinallyMet(us)
             waived == s.ac_waived \ EverMet(us)
             With(cost, count) ==
               Made(s, captured, assumptions, questions, met, waived, cost, count)
             Done(x, y) == TurnOf(es, us, x, y)
  <1>1. \A x, y : ApplyTurn(s, Done(x, y)) = With(s.total_cost + x, s.turn_count + Turned(y))
    <2> TAKE x, y
    <2> DEFINE t == Done(x, y)
    <2>1. /\ t.entities = es /\ t.ac_updates = us /\ t.cost = x /\ t.turn_count_delta = y
      BY DEF TurnOf
    <2> HIDE DEF t
    <2>2. ApplyTurn(s, t) = With(s.total_cost + x, s.turn_count + Turned(y))
      BY <2>1, TurnFields
    <2> QED  BY <2>2 DEF t
  <1>2. s.total_cost \in Nat /\ s.turn_count \in Nat
    BY DEF Sessions
  <1>3. s.total_cost + 0 = s.total_cost /\ s.turn_count + Turned(0) = s.turn_count
    BY <1>2 DEF Turned
  <1> HIDE DEF captured, assumptions, questions, met, waived
  <1> DEFINE a == With(s.total_cost, s.turn_count)
             cost == s.total_cost + c
             count == s.turn_count + Turned(d)
  <1>4. a.total_cost = s.total_cost /\ a.turn_count = s.turn_count
    BY MadeOver
  <1>5. [a EXCEPT !.total_cost = cost, !.turn_count = count] = With(cost, count)
    <2> HIDE DEF cost, count
    <2> QED  BY DEF Made, Sessions
  <1>6. ApplyTurn(s, Done(0, 0)) = a
    BY <1>1, <1>3
  <1> HIDE DEF With, a
  <1>7. WithTurn(a, c, d) = [a EXCEPT !.total_cost = cost, !.turn_count = count]
    BY <1>4 DEF WithTurn
  <1> QED  BY <1>1, <1>5, <1>6, <1>7

------------------------------------------------------------------------------
\* The property, with the types of the loop variables.
LoopInv ==
  /\ before \in Sessions
  /\ turn \in [entities : Seq(Entities), ac_updates : Seq(AcUpdates),
               cost : {1}, turn_count_delta : {-1, 1}]
  /\ i \in 0..Len(turn.entities)
  /\ j \in 0..Len(turn.ac_updates)
  /\ counted \in BOOLEAN
  /\ LoopsAgree

\* Before the first iteration nothing is consumed.
LEMMA LoopInit == Init => LoopInv
  <1> SUFFICES ASSUME Init  PROVE LoopInv
    OBVIOUS
  <1> USE DEF Init
  <1>1. before \in Sessions
    BY LoopAssumption
  <1>2. turn \in [entities : Seq(Entities), ac_updates : Seq(AcUpdates),
                  cost : {1}, turn_count_delta : {-1, 1}]
    BY LoopAssumption
  <1>3. i \in 0..Len(turn.entities) /\ j \in 0..Len(turn.ac_updates) /\ counted \in BOOLEAN
    <2> DEFINE es == turn.entities
               us == turn.ac_updates
    <2>1. Len(es) \in Nat /\ Len(us) \in Nat
      BY <1>2
    <2> HIDE DEF es, us
    <2>2. i \in 0..Len(es) /\ j \in 0..Len(us)
      BY <2>1
    <2> QED  BY <2>2 DEF es, us
  <1>4. state = ApplyTurn(before, Consumed)
    <2> DEFINE t == Consumed
    <2>1. /\ t.entities = <<>> /\ t.ac_updates = <<>>
          /\ t.cost = 0 /\ t.turn_count_delta = 0
      BY <1>2 DEF Consumed
    <2> HIDE DEF t
    <2>2. Counts(before, t.entities) = before.captured
      <3>1. \A e : {k \in DOMAIN t.entities : t.entities[k] = e} = {}
        BY <2>1
      <3>2. Cardinality({}) = 0
        BY FS_EmptySet
      <3>3. Counts(before, t.entities) = [e \in ListedEntities |-> before.captured[e] + 0]
        BY <3>1, <3>2 DEF Counts
      <3>4. before.captured \in [ListedEntities -> Nat]
        BY <1>1 DEF Sessions
      <3> QED  BY <3>3, <3>4
    <2>3. \A type : Valued(t.entities, type) = {}
      BY <2>1 DEF Valued
    <2>4. /\ MentionedBy(t.ac_updates) = {} /\ EverMet(t.ac_updates) = {}
          /\ FinallyMet(t.ac_updates) = {}
      BY <2>1 DEF MentionedBy, EverMet, FinallyMet
    <2>5. /\ before.total_cost + t.cost = before.total_cost
          /\ before.turn_count + Turned(t.turn_count_delta) = before.turn_count
      BY <1>1, <2>1 DEF Sessions, Turned
    <2>6. ApplyTurn(before, t) =
            Made(before, before.captured, before.assumptions, before.open_questions,
                 before.ac_met, before.ac_waived, before.total_cost, before.turn_count)
      <3>1. /\ before.assumptions \cup Valued(t.entities, "assumption") = before.assumptions
            /\ before.open_questions \cup Valued(t.entities, "gap") = before.open_questions
            /\ (before.ac_met \ MentionedBy(t.ac_updates)) \cup FinallyMet(t.ac_updates)
                 = before.ac_met
            /\ before.ac_waived \ EverMet(t.ac_updates) = before.ac_waived
        BY <2>3, <2>4
      <3> QED  BY <1>1, <2>2, <2>5, <3>1, TurnFields
    <2>7. ApplyTurn(before, t) = before
      BY <1>1, <2>6 DEF Made, Sessions
    <2> QED  BY <2>7 DEF t
  <1> QED  BY <1>1, <1>2, <1>3, <1>4 DEF LoopInv, LoopsAgree

\* Every iteration consumes one element and does to the session what that element
\* adds to the closed form.
LEMMA LoopStep == LoopInv /\ [Next]_vars => LoopInv'
  <1> SUFFICES ASSUME LoopInv, [Next]_vars  PROVE LoopInv'
    OBVIOUS
  <1> DEFINE es == turn.entities
             us == turn.ac_updates
             cost == IF counted THEN turn.cost ELSE 0
             delta == IF counted THEN turn.turn_count_delta ELSE 0
             Upto(m, n, c, d) == TurnOf(SubSeq(es, 1, m), SubSeq(us, 1, n), c, d)
  <1>1. /\ before \in Sessions /\ es \in Seq(Entities) /\ us \in Seq(AcUpdates)
        /\ turn.cost \in Nat /\ turn.turn_count_delta \in Int
        /\ i \in 0..Len(es) /\ j \in 0..Len(us) /\ counted \in BOOLEAN
    BY DEF LoopInv
  <1>2. state = ApplyTurn(before, Upto(i, j, cost, delta))
    BY DEF LoopInv, LoopsAgree, Consumed, TurnOf
  <1>3. CASE NextEntity
    <2>1. i \in Nat /\ i < Len(es) /\ i' = i + 1
      BY <1>1, <1>3 DEF NextEntity
    <2>2. state' = ApplyEntity(state, es[i + 1])
      BY <1>3, <2>1 DEF NextEntity
    <2>3. state' = ApplyTurn(before, Upto(i + 1, j, cost, delta))
      <3> DEFINE l == SubSeq(us, 1, j)
      <3> HIDE DEF l, cost, delta
      <3>1. ApplyEntity(ApplyTurn(before, TurnOf(SubSeq(es, 1, i), l, cost, delta)), es[i + 1])
              = ApplyTurn(before, TurnOf(SubSeq(es, 1, i + 1), l, cost, delta))
        BY <1>1, <2>1, EntityIteration
      <3> QED  BY <1>2, <2>2, <3>1 DEF l
    <2>4. Consumed' = Upto(i + 1, j, cost, delta)
      BY <1>3, <2>1 DEF NextEntity, Consumed, TurnOf
    <2>5. i' \in 0..Len(es)
      BY <1>1, <2>1
    <2> QED  BY <1>3, <2>3, <2>4, <2>5 DEF LoopInv, LoopsAgree, NextEntity
  <1>4. CASE NextAcUpdate
    <2>1. j \in Nat /\ j < Len(us) /\ j' = j + 1
      BY <1>1, <1>4 DEF NextAcUpdate
    <2>2. state' = ApplyAcUpdate(state, us[j + 1])
      BY <1>4, <2>1 DEF NextAcUpdate
    <2>3. state' = ApplyTurn(before, Upto(i, j + 1, cost, delta))
      <3> DEFINE l == SubSeq(es, 1, i)
      <3> HIDE DEF l, cost, delta
      <3>1. ApplyAcUpdate(ApplyTurn(before, TurnOf(l, SubSeq(us, 1, j), cost, delta)), us[j + 1])
              = ApplyTurn(before, TurnOf(l, SubSeq(us, 1, j + 1), cost, delta))
        BY <1>1, <2>1, UpdateIteration
      <3> QED  BY <1>2, <2>2, <3>1 DEF l
    <2>4. Consumed' = Upto(i, j + 1, cost, delta)
      BY <1>4, <2>1 DEF NextAcUpdate, Consumed, TurnOf
    <2>5. j' \in 0..Len(us)
      BY <1>1, <2>1
    <2> QED  BY <1>4, <2>3, <2>4, <2>5 DEF LoopInv, LoopsAgree, NextAcUpdate
  <1>5. CASE Count
    <2>1. ~counted /\ counted' = TRUE
      BY <1>5 DEF Count
    <2>2. state' = WithTurn(state, turn.cost, turn.turn_count_delta)
      BY <1>5 DEF Count, WithTurn, Turned
    <2>3. state = ApplyTurn(before, Upto(i, j, 0, 0))
      BY <1>2, <2>1
    <2>4. state' = ApplyTurn(before, Upto(i, j, turn.cost, turn.turn_count_delta))
      <3> DEFINE l == SubSeq(es, 1, i)
                 m == SubSeq(us, 1, j)
                 c == turn.cost
                 d == turn.turn_count_delta
      <3>1. c \in Nat /\ d \in Int
        BY <1>1
      <3> HIDE DEF l, m, c, d
      <3>2. ApplyTurn(before, TurnOf(l, m, c, d))
              = WithTurn(ApplyTurn(before, TurnOf(l, m, 0, 0)), c, d)
        BY <1>1, <3>1, Counted
      <3> QED  BY <2>2, <2>3, <3>2 DEF l, m, c, d
    <2>5. Consumed' = Upto(i, j, turn.cost, turn.turn_count_delta)
      BY <1>5, <2>1 DEF Count, Consumed, TurnOf
    <2> QED  BY <1>1, <1>5, <2>1, <2>4, <2>5 DEF LoopInv, LoopsAgree, Count
  <1>6. CASE UNCHANGED vars
    BY <1>6 DEF vars, LoopInv, LoopsAgree, Consumed
  <1> QED  BY <1>3, <1>4, <1>5, <1>6 DEF Next

(* The loops of ApplyTurnResult compute ApplyTurn, for every session and for *)
(* lists of entities and updates of every length, with every repetition.     *)
THEOREM LoopsComputeTurn == Spec => []LoopsAgree
  <1>1. LoopInv => LoopsAgree
    BY DEF LoopInv
  <1> QED  BY <1>1, LoopInit, LoopStep, PTL DEF Spec
=============================================================================
