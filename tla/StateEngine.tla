---------------------------- MODULE StateEngine ----------------------------
(***************************************************************************)
(* StateEngineService: the gRPC service of the state-machine kernel.       *)
(*                                                                         *)
(* The sessions live in one in-memory HashMap behind one RwLock; every     *)
(* handler that changes a session holds the write lock from its lookup to  *)
(* its reply, so a handler is one atomic action.  `reply' is the answer of *)
(* the last call: what a client may act upon is part of what must be right.*)
(*                                                                         *)
(* Beside the five RPCs there are two environment actions: Restart, since  *)
(* nothing is persisted, and HostWrites, the direct writes to the public   *)
(* fields of a SessionState that a program linking the crate may do (the   *)
(* crate's own tests do).  No RPC performs any of those writes: with       *)
(* HostFields, HostContexts and HostWaivers empty this is the service as   *)
(* it is deployed.                                                         *)
(***************************************************************************)
EXTENDS SessionKernel

CONSTANTS
  SessionIds,     \* the UUIDs CreateSession can draw
  Turns,          \* the turn results callers send
  HostFields,     \* the fields the host program sets,
  HostContexts,   \* the regulatory contexts it writes,
  HostWaivers,    \* and the criteria it records a waiver for
  MaxTurns,       \* bound: turns counted per session
  MaxRevisits     \* bound: revisits recorded per session

ASSUME EngineAssumption ==
  /\ Turns \subseteq TurnResults
  /\ HostFields \subseteq Fields
  /\ HostContexts \subseteq RegulatoryContexts \ {"None"}
  /\ HostWaivers \subseteq Criterion
  /\ MaxTurns \in Nat
  /\ MaxRevisits \in Nat

VARIABLES
  live,       \* keys of the HashMap
  sessions,   \* its values; NewSession at an id that is not live
  issued,     \* ids handed out so far: a UUID is never drawn twice
  reply       \* the last answer

vars == <<live, sessions, issued, reply>>

------------------------------------------------------------------------------
Targets == Phases \cup {"Unparsable"}   \* the target_phase string of a request

Outcomes == {"Ok", "NotFound", "InvalidArgument", "SessionTerminated",
             "InvalidTransition", "HardGateBlocking", "AcNotMet"}

Replies ==
  [rpc : {"None"}] \cup
  [rpc : {"CreateSession", "GetSessionState", "RequestTransition", "RevisitPhase"},
   id : SessionIds, outcome : Outcomes, phase : Phases \cup {"None"}] \cup
  [rpc : {"ApplyTurnResult"}, id : SessionIds, outcome : Outcomes,
   phase : Phases \cup {"None"}, ready : BOOLEAN, unmet : Nat]

Answer(rpc, id, outcome, phase) ==
  [rpc |-> rpc, id |-> id, outcome |-> outcome, phase |-> phase]

TurnAnswer(id, outcome, phase, ready, unmet) ==
  [rpc |-> "ApplyTurnResult", id |-> id, outcome |-> outcome,
   phase |-> phase, ready |-> ready, unmet |-> unmet]

------------------------------------------------------------------------------
Init ==
  /\ live = {}
  /\ sessions = [id \in SessionIds |-> NewSession]
  /\ issued = {}
  /\ reply = [rpc |-> "None"]

CreateSession(id) ==
  /\ id \notin issued
  /\ issued' = issued \cup {id}
  /\ live' = live \cup {id}
  /\ sessions' = [sessions EXCEPT ![id] = NewSession]
  /\ reply' = Answer("CreateSession", id, "Ok", NewSession.current_phase)

GetSessionState(id) ==
  /\ reply' = IF id \in live
              THEN Answer("GetSessionState", id, "Ok", sessions[id].current_phase)
              ELSE Answer("GetSessionState", id, "NotFound", "None")
  /\ UNCHANGED <<live, sessions, issued>>

ApplyTurnResult(id, turn) ==
  LET s == ApplyTurn(sessions[id], turn)
      p == s.current_phase
  IN  \/ /\ id \in live
         /\ s.turn_count <= MaxTurns
         /\ sessions' = [sessions EXCEPT ![id] = s]
         /\ reply' = TurnAnswer(id, "Ok", p, TransitionReady(p, s),
                                Cardinality(Unmet(p, s)))
         /\ UNCHANGED <<live, issued>>
      \/ /\ id \notin live
         /\ reply' = TurnAnswer(id, "NotFound", "None", FALSE, 0)
         /\ UNCHANGED <<live, sessions, issued>>

\* The target is parsed before the session is looked up.
Refused(rpc, id, target) ==
  /\ \/ target = "Unparsable" /\ reply' = Answer(rpc, id, "InvalidArgument", "None")
     \/ /\ target # "Unparsable" /\ id \notin live
        /\ reply' = Answer(rpc, id, "NotFound", "None")
  /\ UNCHANGED <<live, sessions, issued>>

RequestTransition(id, target) ==
  \/ Refused("RequestTransition", id, target)
  \/ LET s == sessions[id]
         verdict == Attempt(s, target)
     IN  /\ target # "Unparsable"
         /\ id \in live
         /\ \/ /\ verdict = "Ok"
               /\ sessions' = [sessions EXCEPT ![id] = Advance(s, target)]
               /\ reply' = Answer("RequestTransition", id, "Ok", target)
            \/ /\ verdict # "Ok"
               /\ reply' = Answer("RequestTransition", id, verdict, s.current_phase)
               /\ UNCHANGED sessions
         /\ UNCHANGED <<live, issued>>

RevisitPhase(id, target) ==
  \/ Refused("RevisitPhase", id, target)
  \/ LET s == sessions[id]
     IN  /\ target # "Unparsable"
         /\ id \in live
         /\ \/ /\ CanRevisit(s, target)
               /\ Len(s.revisit_history) < MaxRevisits
               /\ sessions' = [sessions EXCEPT ![id] = Revisit(s, target)]
               /\ reply' = Answer("RevisitPhase", id, "Ok", target)
            \/ /\ ~CanRevisit(s, target)
               /\ reply' = Answer("RevisitPhase", id, "InvalidTransition", s.current_phase)
               /\ UNCHANGED sessions
         /\ UNCHANGED <<live, issued>>

\* A field is set, never cleared; the artifacts, documents and waivers of a
\* session only accumulate.
HostWrites(id) ==
  /\ id \in live
  /\ \/ \E f \in HostFields :
          sessions' = [sessions EXCEPT ![id].fields = @ \cup {f}]
     \/ \E r \in HostContexts :
          sessions' = [sessions EXCEPT ![id].regulatory_context = r]
     \/ \E c \in HostWaivers :
          sessions' = [sessions EXCEPT ![id].ac_waived = @ \cup {c}]
  /\ UNCHANGED <<live, issued, reply>>

\* The process ends and its pod is started again with an empty map.
Restart ==
  /\ live' = {}
  /\ sessions' = [id \in SessionIds |-> NewSession]
  /\ reply' = [rpc |-> "None"]
  /\ UNCHANGED issued

Next ==
  \/ Restart
  \/ \E id \in SessionIds :
       \/ CreateSession(id)
       \/ GetSessionState(id)
       \/ \E turn \in Turns : ApplyTurnResult(id, turn)
       \/ \E target \in Targets : RequestTransition(id, target)
       \/ \E target \in Targets : RevisitPhase(id, target)
       \/ HostWrites(id)

Spec == Init /\ [][Next]_vars

------------------------------------------------------------------------------
(* Type invariant: the map holds well-formed sessions, only ids that were   *)
(* handed out are in it, and an answer carries what its message declares.   *)
TypeOK ==
  /\ live \subseteq issued
  /\ issued \subseteq SessionIds
  /\ sessions \in [SessionIds -> Sessions]
  /\ reply \in Replies

\* The phase from which the current run of approved transitions started: the
\* target of the last revisit, or the first phase.
Base(s) == IF s.revisit_history = <<>> THEN "ProblemIntake"
           ELSE s.revisit_history[Len(s.revisit_history)].to

Earned(s) == s.current_phase # Base(s) => GateFields \subseteq s.fields

(* A session that stands anywhere else than where it was created or last     *)
(* revisited was moved there by the transition engine, and the engine let    *)
(* it go only with the BRD, the HLD and the client signature on file: the    *)
(* gates of gates/manager.rs are global, so even the first step needs them.  *)
AdvanceNeedsArtifacts == \A id \in SessionIds : Earned(sessions[id])

(* A signed-off project has its BRD, its HLD and the client signature,       *)
(* whatever turns, revisits and restarts came before (GateManager, and       *)
(* revisit's refusal to jump to SignedOff).                                  *)
SignedOffHasArtifacts ==
  \A id \in SessionIds :
    sessions[id].current_phase = "SignedOff" => GateFields \subseteq sessions[id].fields

Audited(s) ==
  LET h == s.revisit_history
  IN  /\ Rank[s.current_phase] >= Rank[Base(s)]
      /\ \A i \in 1..(Len(h) - 1) : Rank[h[i+1].from] >= Rank[h[i].to]
      /\ \A i \in DOMAIN h : h[i].from # h[i].to /\ h[i].to # "SignedOff"
      /\ s.revisit_target = IF h = <<>> THEN "None" ELSE Base(s)

(* revisit_history is an audit trail: between two revisits, and after the    *)
(* last one, the session only moved forward from where the revisit put it,   *)
(* and revisit_target names the last one (TransitionEngine::revisit).        *)
AuditTrail == \A id \in SessionIds : Audited(sessions[id])

(* With one of the three artifacts never written, as in the deployed service *)
(* where no RPC writes any, no transition is ever approved: the phase is     *)
(* always where the session was created or last revisited.                   *)
NoAdvanceWithoutHost ==
  ~(GateFields \subseteq HostFields) =>
    \A id \in SessionIds : sessions[id].current_phase = Base(sessions[id])

\* Nothing of s is missing in t.
Keeps(s, t) ==
  /\ s.fields \subseteq t.fields
  /\ \A e \in ListedEntities : s.captured[e] <= t.captured[e]
  /\ s.assumptions \subseteq t.assumptions
  /\ s.open_questions \subseteq t.open_questions
  /\ Len(s.revisit_history) <= Len(t.revisit_history)
  /\ \A i \in DOMAIN s.revisit_history : s.revisit_history[i] = t.revisit_history[i]
  /\ s.turn_count <= t.turn_count
  /\ s.total_cost <= t.total_cost

(* No call ever loses something a session captured, a revisit least of all   *)
(* ("All Vec fields are preserved", transition.rs); only the end of the      *)
(* process does.                                                             *)
NothingForgotten ==
  [][\A id \in live \cap live' : Keeps(sessions[id], sessions'[id])]_vars

(* A phase that was ready stays ready until an update un-meets one of its    *)
(* criteria: no entity, revisit, transition or host write takes readiness    *)
(* away, and meeting a criterion that was waived does not either.            *)
ReadinessIsSticky ==
  [][\A id \in live \cap live', p \in Phases :
       TransitionReady(p, sessions[id]) /\ ~TransitionReady(p, sessions'[id]) =>
         \E turn \in Turns : \E i \in DOMAIN turn.ac_updates :
           /\ ~turn.ac_updates[i].met
           /\ turn.ac_updates[i].criterion \in Criteria(p)
           /\ sessions'[id] = ApplyTurn(sessions[id], turn)]_vars
=============================================================================
