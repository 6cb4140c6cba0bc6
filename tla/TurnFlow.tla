------------------------------ MODULE TurnFlow ------------------------------
(***************************************************************************)
(* A turn through all three services.  The gateway's ProcessTurn reads the *)
(* session from the kernel, lets the AI service make a turn result of that *)
(* snapshot, and hands the result back to the kernel; each of the three is *)
(* a separate RPC, and other turns, transitions, revisits and restarts of  *)
(* the kernel happen in between.  The kernel is module StateEngine; what   *)
(* the AI service can answer is TurnAgents!TurnOutcomes.                   *)
(*                                                                         *)
(* A POST that is repeated by the client is simply another request with    *)
(* the same message: no request carries an idempotency key.                *)
(***************************************************************************)
EXTENDS StateEngine, TurnAgents

CONSTANTS Requests,      \* POSTs of a turn
          MessageSet     \* the messages they carry

ASSUME FlowAssumption ==
  MessageSet \subseteq [mentions : Seq(Entities), back_to : Phases \cup {"None", "REVISIT"}]

VARIABLE post    \* per request, what its ProcessTurn handler holds

kernel == <<live, sessions, issued, reply>>
flowVars == <<kernel, post>>

------------------------------------------------------------------------------
\* The stream ended without a complete event: the handler applies an empty turn.
NoComplete == Outcome("None", <<>>, <<>>, FALSE)

\* cost_usd is the budget's spent_usd, and nothing ever calls its record().
AsTurn(outcome) == [entities |-> outcome.entities, ac_updates |-> outcome.ac_updates,
                    cost |-> 0, turn_count_delta |-> 1]

\* `told' is how the request was answered: with an error, or with a completion
\* that names the phase if the kernel answered.  `applied' is known to nobody in
\* the code: the kernel took the result in.
NewPost(m) == [pc |-> "Idle", session |-> "None", message |-> m, snapshot |-> NewSession,
               result |-> NoComplete, told |-> "Nothing", applied |-> FALSE]

FlowInit ==
  /\ Init
  /\ post \in [Requests -> {NewPost(m) : m \in MessageSet}]

Missing(r, id) == [post EXCEPT ![r].pc = "Done", ![r].session = id, ![r].told = "NotFound"]

\* ProcessTurn up to the call of RunPipeline.  Any error of the kernel's answer, a
\* lost call included, is told as a missing session.
PostTurn(r, id) ==
  /\ post[r].pc = "Idle"
  /\ \/ /\ GetSessionState(id)
        /\ post' = IF id \in live
                   THEN [post EXCEPT ![r].pc = "Piping", ![r].session = id,
                                     ![r].snapshot = sessions[id]]
                   ELSE Missing(r, id)
     \/ UNCHANGED kernel /\ post' = Missing(r, id)

\* RunPipeline returns: with a complete event, or with an early end of the stream.
PipelineDone(r) ==
  /\ post[r].pc = "Piping"
  /\ \E outcome \in TurnOutcomes(post[r].snapshot, post[r].message) \cup {NoComplete} :
       post' = [post EXCEPT ![r].pc = "Applying", ![r].result = outcome]
  /\ UNCHANGED kernel

\* Mutated form: the handler sends the error event but does not return.
PipelineFailsOn(r) ==
  /\ post[r].pc = "Piping"
  /\ post' = [post EXCEPT ![r].pc = "Applying", ![r].told = "Error"]
  /\ UNCHANGED kernel

\* The stream breaks, or the request's 30 s are over.
PipelineFails(r) ==
  /\ post[r].pc = "Piping"
  /\ post' = [post EXCEPT ![r].pc = "Done", ![r].told = "Error"]
  /\ UNCHANGED kernel

Told(r, phase) == IF post[r].told = "Nothing" THEN phase ELSE post[r].told

ApplyAnswered(r) ==
  /\ post[r].pc = "Applying"
  /\ ApplyTurnResult(post[r].session, AsTurn(post[r].result))
  /\ post' = [post EXCEPT ![r].pc = "Done", ![r].told = Told(r, reply'.phase),
                          ![r].applied = post[r].session \in live]

\* Mutated form: the call is made again when it was not answered.
ApplyUnansweredRetried(r) ==
  /\ post[r].pc = "Applying"
  /\ ApplyTurnResult(post[r].session, AsTurn(post[r].result))
  /\ post' = [post EXCEPT ![r].applied = post[r].session \in live]

\* The call fails at the deadline or on the wire, after or before the kernel took
\* the turn in; the handler only warns, and completes the request all the same.
ApplyUnanswered(r) ==
  /\ post[r].pc = "Applying"
  /\ \/ /\ ApplyTurnResult(post[r].session, AsTurn(post[r].result))
        /\ post' = [post EXCEPT ![r].pc = "Done", ![r].told = Told(r, "None"),
                                ![r].applied = post[r].session \in live]
     \/ /\ UNCHANGED kernel
        /\ post' = [post EXCEPT ![r].pc = "Done", ![r].told = Told(r, "None")]

\* The other endpoints pass their call through to the kernel.
OtherCalls ==
  /\ \/ Restart
     \/ \E id \in SessionIds :
          \/ CreateSession(id)
          \/ \E target \in Targets : RequestTransition(id, target) \/ RevisitPhase(id, target)
  /\ UNCHANGED post

FlowNext ==
  \/ \E r \in Requests :
       \/ \E id \in SessionIds : PostTurn(r, id)
       \/ PipelineDone(r)
       \/ PipelineFails(r)
       \/ ApplyAnswered(r)
       \/ ApplyUnanswered(r)
  \/ OtherCalls

FlowSpec == FlowInit /\ [][FlowNext]_flowVars

------------------------------------------------------------------------------
AppliedTo(id) == {r \in Requests : post[r].applied /\ post[r].session = id}

\* The places of entity e in the turns applied to a session.
CapturedBy(id, e) ==
  UNION {{<<r, i>> : i \in {j \in DOMAIN post[r].result.entities :
                             post[r].result.entities[j] = e}} : r \in AppliedTo(id)}

(* However many turns of a session are in flight at once, each computed from *)
(* its own old snapshot, none undoes another and none is applied twice: the  *)
(* session holds exactly what the applied turns captured, and counts them.   *)
EveryAppliedTurnOnce ==
  \A id \in live :
    /\ sessions[id].turn_count = Cardinality(AppliedTo(id))
    /\ \A e \in ListedEntities :
         sessions[id].captured[e] = Cardinality(CapturedBy(id, e))

(* What the extractor reports of StakeholderDiscovery, from a snapshot and   *)
(* this turn, the kernel's own count bears out when the report is in the     *)
(* session, whatever was applied, sent back or moved on meanwhile: there the *)
(* signals are "merged, not overriding" (entity_extractor.py:102).           *)
MetIsEvidenced ==
  \A id \in live :
    sessions[id].ac_met \cap {<<2, "01">>, <<2, "02">>} \subseteq FieldMet(sessions[id])

(* The same of RequirementElicitation, where the extractor counts            *)
(* requirements of every class for the five functional ones of AC-S3-01: a   *)
(* "rough proxy; Rust will count precisely" (entity_extractor.py:134).       *)
CountIsPrecise ==
  \A id \in live :
    <<3, "01">> \in sessions[id].ac_met => <<3, "01">> \in FieldMet(sessions[id])

(* What talk alone can complete.  The fields of the first two phases and of  *)
(* the last two are set by no RPC, AC-S3-03 is met by nobody, and the        *)
(* extractor reports three criteria only: whatever is said, in however many  *)
(* turns, ConstraintCapture is the only phase that ever becomes ready, and   *)
(* only with its four constraints and an assumption in the session.  This is *)
(* against the first exit criterion of the sprint (README of sprint 1, line  *)
(* 153): from ProblemIntake to a confirmed requirements list "through        *)
(* conversation alone".                                                      *)
OnlyConstraintsComplete ==
  \A id \in live, p \in Phases :
    TransitionReady(p, sessions[id]) =>
      /\ p = "ConstraintCapture"
      /\ \A v \in {"Budget", "Timeline", "Technology", "DataResidency"} :
           Captured(sessions[id], "constraint", v) >= 1
      /\ sessions[id].assumptions # {}

(* The kernel lets a turn un-meet a criterion (ReadinessIsSticky), but no    *)
(* turn of this AI service does, however old the snapshot it was made of: a  *)
(* phase that is ready stays ready for as long as its session is in the map. *)
CompleteStaysComplete ==
  [][\A id \in live \cap live', p \in Phases :
       TransitionReady(p, sessions[id]) => TransitionReady(p, sessions'[id])]_flowVars

(* What a client is told can be relied upon: after an error its turn is not  *)
(* in the session and may be posted again; a completion that names the phase *)
(* is in the session.  (A completion without a phase says neither.)          *)
AnswersAreHonest ==
  \A r \in Requests :
    /\ post[r].told \in {"NotFound", "Error"} => ~post[r].applied
    /\ post[r].told \in Phases => post[r].applied

(* "the system re-enters that phase": a turn that goes back to an earlier    *)
(* phase is applied with the session in the phase it goes back to.           *)
RevisitTurnReenters ==
  [][\A r \in Requests :
       LET back == post[r].result.intent
       IN  (/\ ~post[r].applied /\ post'[r].applied
            /\ back \in Phases
            /\ Rank[back] < Rank[post[r].snapshot.current_phase]) =>
             sessions'[post[r].session].current_phase = back]_flowVars

(* "When gap_analysis.is_terminal is True, all AC for the current phase are  *)
(* met".                                                                     *)
TerminalMeansAllMet ==
  \A r \in Requests :
    LET s == post[r].snapshot
    IN  post[r].result.transition_ready => TransitionReady(s.current_phase, s)
=============================================================================
