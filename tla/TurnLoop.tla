------------------------------ MODULE TurnLoop ------------------------------
(***************************************************************************)
(* The body of ApplyTurnResult, one iteration at a time.  The handler      *)
(* walks the entities, then the criterion updates, then adds the cost and  *)
(* the turn.  The rest of the project uses what the loops leave behind     *)
(* (SessionKernel!ApplyTurn); this module checks that this is what they    *)
(* compute, for every order and repetition of entities and updates.        *)
(***************************************************************************)
EXTENDS SessionKernel

CONSTANTS StartSessions,   \* sessions a turn is applied to
          EntityBatches,   \* the lists of entities a turn may carry
          UpdateBatches    \* the lists of criterion updates it may carry

ASSUME LoopAssumption ==
  /\ StartSessions \subseteq Sessions
  /\ EntityBatches \subseteq Seq(Entities)
  /\ UpdateBatches \subseteq Seq(AcUpdates)

VARIABLES before,   \* the session when the write lock was taken
          turn,     \* the request
          state,    \* the session as the loops have left it so far
          i, j,     \* entities and updates consumed
          counted   \* the cost and the turn have been added

vars == <<before, turn, state, i, j, counted>>

ApplyEntity(s, e) ==
  CASE e \in ListedEntities   -> [s EXCEPT !.captured[e] = @ + 1]
    [] e.type = "assumption"  -> [s EXCEPT !.assumptions = @ \cup {e.value}]
    [] e.type = "gap"         -> [s EXCEPT !.open_questions = @ \cup {e.value}]
    [] e.type = "unknown"     -> s

ApplyAcUpdate(s, u) ==
  IF u.met
  THEN [s EXCEPT !.ac_met = @ \cup {u.criterion}, !.ac_waived = @ \ {u.criterion}]
  ELSE [s EXCEPT !.ac_met = @ \ {u.criterion}]

Init ==
  /\ before \in StartSessions
  /\ turn \in [entities : EntityBatches, ac_updates : UpdateBatches,
               cost : {1}, turn_count_delta : {-1, 1}]
  /\ state = before
  /\ i = 0 /\ j = 0
  /\ counted = FALSE

NextEntity ==
  /\ i < Len(turn.entities)
  /\ i' = i + 1
  /\ state' = ApplyEntity(state, turn.entities[i'])
  /\ UNCHANGED <<before, turn, j, counted>>

NextAcUpdate ==
  /\ i = Len(turn.entities)
  /\ j < Len(turn.ac_updates)
  /\ j' = j + 1
  /\ state' = ApplyAcUpdate(state, turn.ac_updates[j'])
  /\ UNCHANGED <<before, turn, i, counted>>

Count ==
  /\ i = Len(turn.entities)
  /\ j = Len(turn.ac_updates)
  /\ ~counted
  /\ counted' = TRUE
  /\ state' = [state EXCEPT !.total_cost = @ + turn.cost,
                            !.turn_count = @ + (IF turn.turn_count_delta > 0
                                                THEN turn.turn_count_delta ELSE 0)]
  /\ UNCHANGED <<before, turn, i, j>>

Next == NextEntity \/ NextAcUpdate \/ Count

Spec == Init /\ [][Next]_vars

------------------------------------------------------------------------------
\* The part of the request the loops have consumed.
Consumed ==
  [entities         |-> SubSeq(turn.entities, 1, i),
   ac_updates       |-> SubSeq(turn.ac_updates, 1, j),
   cost             |-> IF counted THEN turn.cost ELSE 0,
   turn_count_delta |-> IF counted THEN turn.turn_count_delta ELSE 0]

(* At every point of the loops the session is what ApplyTurn makes of the    *)
(* original one and the consumed part: repeated entities are counted once    *)
(* each, repeated texts kept once, the last update of a criterion wins, and  *)
(* a waiver cancelled by one update is not restored by the next.             *)
LoopsAgree == state = ApplyTurn(before, Consumed)
=============================================================================
