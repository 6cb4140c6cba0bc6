---------------------------- MODULE TurnPipeline ----------------------------
(***************************************************************************)
(* The AI orchestration service running turns: RunPipeline of the servicer,*)
(* PipelineExecutor.run and the LangGraph pipeline behind it.              *)
(*                                                                         *)
(* For every call there are two coroutines on one event loop.  The call    *)
(* itself (`rpc') pulls guidance tokens from a bounded queue and streams   *)
(* them to the client; the graph task (`node') walks the agent nodes and   *)
(* fills the queue.  A step of the model is what a coroutine does between  *)
(* two awaits that may suspend it.  The executor and its last result are   *)
(* shared by all calls.                                                    *)
(*                                                                         *)
(* Of the pipeline state the model keeps what the client is told and what  *)
(* is handed on: the intent (any intent but REVISIT is "Clarification"),   *)
(* whether something was captured, whether the gap is terminal, whether    *)
(* the turn was aborted, and the tokens, which are numbered.  node_errors  *)
(* is only reported and left out.                                          *)
(***************************************************************************)
EXTENDS Naturals, Sequences

CONSTANTS Calls,        \* concurrent RunPipeline calls on one replica
          QueueMax,     \* token_queue_maxsize
          MaxTokens     \* tokens of one guidance (max_tokens = 1024 in the code)

ASSUME PipelineAssumption == QueueMax \in Nat \ {0} /\ MaxTokens \in Nat

VARIABLES
  rpc,           \* where the call is
  node,          \* where its graph task is
  cancelling,    \* pipeline_task.cancel() was called
  state,         \* PipelineState
  made,          \* tokens guidance has put so far
  queue,         \* token_queue
  result,        \* what the graph task returned
  last_result,   \* PipelineExecutor._last_result
  sent           \* the events streamed to the client

vars == <<rpc, node, cancelling, state, made, queue, result, last_result, sent>>
graph == <<node, state, made, result>>

------------------------------------------------------------------------------
Sentinel == 0     \* None on the queue; tokens are 1, 2, ...

Intents == {"None", "Clarification", "REVISIT", "REVISIT:phase"}

\* The nodes of the graph before the one that streams.
EarlyNodes == {"classify_intent", "extract_entities", "retrieve_context",
               "analyze_gaps", "handle_revisit"}

Over == {"ended", "cancelled"}

PipelineStates ==
  [intent : Intents, captured : BOOLEAN, gap : {"None", "Open", "Terminal"},
   aborted : BOOLEAN]

Initial == [intent |-> "None", captured |-> FALSE, gap |-> "None", aborted |-> FALSE]

\* Which call a result belongs to is in no field of the code; it is what its
\* other fields are about.
TurnResult(c, s) == [of |-> c, intent |-> s.intent, captured |-> s.captured,
                     gap |-> s.gap, aborted |-> s.aborted]

Raised(c) == TurnResult(c, [Initial EXCEPT !.intent = "Clarification", !.aborted = TRUE])

TurnComplete(r) == [of |-> r.of, intent |-> r.intent, captured |-> r.captured,
                    transition_ready |-> r.gap = "Terminal", aborted |-> r.aborted]

NoResult == [of |-> "None"]

Token(k) == [token |-> k]

------------------------------------------------------------------------------
Init ==
  /\ rpc = [c \in Calls |-> "Idle"]
  /\ node = [c \in Calls |-> "None"]
  /\ cancelling = [c \in Calls |-> FALSE]
  /\ state = [c \in Calls |-> Initial]
  /\ made = [c \in Calls |-> 0]
  /\ queue = [c \in Calls |-> <<>>]
  /\ result = [c \in Calls |-> NoResult]
  /\ last_result = NoResult
  /\ sent = [c \in Calls |-> <<>>]

RunPipeline(c) ==
  /\ rpc[c] = "Idle"
  /\ rpc' = [rpc EXCEPT ![c] = "Pulling"]
  /\ node' = [node EXCEPT ![c] = "classify_intent"]
  /\ UNCHANGED <<cancelling, state, made, queue, result, last_result, sent>>

------------------------------------------------------------------------------
(* The graph task. *)

\* A cancelled task takes no further step of a node.
At(c, n) == node[c] = n /\ ~cancelling[c]

\* The node ends in pipeline state s and the graph goes on to n.
GoOn(c, s, n) ==
  /\ state' = [state EXCEPT ![c] = s]
  /\ node' = [node EXCEPT ![c] = n]
  /\ UNCHANGED <<rpc, cancelling, made, queue, result, last_result, sent>>

RouteAfterIntent(intent) ==
  IF intent = "REVISIT" THEN "handle_revisit" ELSE "extract_entities"

\* _run_with_timeout: on a timeout or an exception a node's default stands, the
\* second alternative of every node below.
ClassifyIntent(c) ==
  /\ At(c, "classify_intent")
  /\ \/ \E intent \in {"Clarification", "REVISIT"} :
          GoOn(c, [state[c] EXCEPT !.intent = intent], RouteAfterIntent(intent))
     \/ GoOn(c, [state[c] EXCEPT !.intent = "Clarification"],
             RouteAfterIntent("Clarification"))

ExtractEntities(c) ==
  /\ At(c, "extract_entities")
  /\ \/ \E found \in BOOLEAN :
          GoOn(c, [state[c] EXCEPT !.captured = found], "retrieve_context")
     \/ GoOn(c, [state[c] EXCEPT !.captured = FALSE], "retrieve_context")

\* The chunks only colour the prompts of the nodes that follow.
RetrieveContext(c) ==
  /\ At(c, "retrieve_context")
  /\ GoOn(c, state[c], "analyze_gaps")

\* The model's gap, or the deterministic fallback's (module TurnAgents says when
\* that one is terminal).
AnalyzeGaps(c) ==
  /\ At(c, "analyze_gaps")
  /\ \E gap \in {"Open", "Terminal"} :
       GoOn(c, [state[c] EXCEPT !.gap = gap], "generate_guidance")

\* An unclear target only asks back; a clear one also drops this turn's captures.
HandleRevisit(c) ==
  /\ At(c, "handle_revisit")
  /\ \E s \in {[state[c] EXCEPT !.gap = "Open"],
               [state[c] EXCEPT !.gap = "Open", !.captured = FALSE,
                                !.intent = "REVISIT:phase"],
               [state[c] EXCEPT !.gap = "Terminal"]} :
       GoOn(c, s, "generate_guidance")

\* Mutated form: a token that finds the queue full is dropped.
PutTokenNowait(c) ==
  /\ At(c, "generate_guidance")
  /\ made[c] < MaxTokens
  /\ made' = [made EXCEPT ![c] = @ + 1]
  /\ queue' = IF Len(queue[c]) < QueueMax
              THEN [queue EXCEPT ![c] = Append(@, made'[c])] ELSE queue
  /\ UNCHANGED <<rpc, node, cancelling, state, result, last_result, sent>>

\* Mutated form: the queue is unbounded.
PutTokenUnbounded(c) ==
  /\ At(c, "generate_guidance")
  /\ made[c] < MaxTokens
  /\ made' = [made EXCEPT ![c] = @ + 1]
  /\ queue' = [queue EXCEPT ![c] = Append(@, made'[c])]
  /\ UNCHANGED <<rpc, node, cancelling, state, result, last_result, sent>>

\* The next token of the LLM's stream, once it fits into the queue.
PutToken(c) ==
  /\ At(c, "generate_guidance")
  /\ made[c] < MaxTokens
  /\ Len(queue[c]) < QueueMax
  /\ made' = [made EXCEPT ![c] = @ + 1]
  /\ queue' = [queue EXCEPT ![c] = Append(@, made'[c])]
  /\ UNCHANGED <<rpc, node, cancelling, state, result, last_result, sent>>

\* The stream ends, or raises: either way the node now awaits sink.put(None).
EndStream(c) ==
  /\ At(c, "generate_guidance")
  /\ \E failed \in BOOLEAN :
       GoOn(c, [state[c] EXCEPT !.aborted = failed], "closing")

CloseStream(c) ==
  /\ At(c, "closing")
  /\ Len(queue[c]) < QueueMax
  /\ queue' = [queue EXCEPT ![c] = Append(@, Sentinel)]
  /\ node' = [node EXCEPT ![c] = "returned"]
  /\ UNCHANGED <<rpc, cancelling, state, made, result, last_result, sent>>

\* The finally block of _run_graph: put_nowait, a full queue is ignored.
SafetyNet(c) ==
  queue' = IF Len(queue[c]) < QueueMax
           THEN [queue EXCEPT ![c] = Append(@, Sentinel)] ELSE queue

EndGraph(c) ==
  /\ \/ /\ At(c, "returned")
        /\ result' = [result EXCEPT ![c] = TurnResult(c, state[c])]
     \/ \* LangGraph itself raises between two nodes.
        /\ \E n \in EarlyNodes \cup {"returned"} : At(c, n)
        /\ result' = [result EXCEPT ![c] = Raised(c)]
  /\ node' = [node EXCEPT ![c] = "ended"]
  /\ SafetyNet(c)
  /\ UNCHANGED <<rpc, cancelling, state, made, last_result, sent>>

GraphCancelled(c) ==
  /\ cancelling[c]
  /\ node[c] \notin Over
  /\ node' = [node EXCEPT ![c] = "cancelled"]
  /\ SafetyNet(c)
  /\ UNCHANGED <<rpc, cancelling, state, made, result, last_result, sent>>

------------------------------------------------------------------------------
(* The call. *)

Pull(c) ==
  /\ rpc[c] = "Pulling"
  /\ queue[c] # <<>>
  /\ queue' = [queue EXCEPT ![c] = Tail(@)]
  /\ IF Head(queue[c]) = Sentinel
     THEN rpc' = [rpc EXCEPT ![c] = "Joining"] /\ UNCHANGED sent
     ELSE sent' = [sent EXCEPT ![c] = Append(@, Token(Head(queue[c])))] /\ UNCHANGED rpc
  /\ UNCHANGED <<cancelling, last_result, graph>>

\* The nodes before guidance are bounded to 6.3 s in all by their own timeouts,
\* so only a guidance stream that stalls leaves the queue empty for 25 s.
Stalled(c) == rpc[c] = "Pulling" /\ queue[c] = <<>> /\ node[c] = "generate_guidance"

\* Mutated form: the call is over as soon as the task is told to stop.
DrainTimeoutUnjoined(c) ==
  /\ Stalled(c)
  /\ cancelling' = [cancelling EXCEPT ![c] = TRUE]
  /\ rpc' = [rpc EXCEPT ![c] = "Cancelled"]
  /\ UNCHANGED <<queue, last_result, sent, graph>>

\* Mutated form: the timeout is logged and the wait starts over.
DrainTimeoutIgnored(c) ==
  /\ Stalled(c)
  /\ UNCHANGED vars

DrainTimeout(c) ==
  /\ Stalled(c)
  /\ cancelling' = [cancelling EXCEPT ![c] = TRUE]
  /\ rpc' = [rpc EXCEPT ![c] = "Joining"]
  /\ UNCHANGED <<queue, last_result, sent, graph>>

\* Mutated form: the servicer picks up the last result before run has stored its own.
JoinReadsFirst(c) ==
  /\ rpc[c] = "Joining"
  /\ node[c] = "ended"
  /\ last_result' = result[c]
  /\ sent' = [sent EXCEPT ![c] = IF last_result = NoResult THEN @
                                 ELSE Append(@, TurnComplete(last_result))]
  /\ rpc' = [rpc EXCEPT ![c] = "Completed"]
  /\ UNCHANGED <<cancelling, queue, graph>>

\* Between run's assignment and the servicer's read nothing is awaited, and an
\* aborted turn raises to a handler that sends the same event.
Join(c) ==
  /\ rpc[c] = "Joining"
  /\ node[c] = "ended"
  /\ last_result' = result[c]
  /\ sent' = [sent EXCEPT ![c] = Append(@, TurnComplete(last_result'))]
  /\ rpc' = [rpc EXCEPT ![c] = "Completed"]
  /\ UNCHANGED <<cancelling, queue, graph>>

\* The task's CancelledError passes every `except Exception' and ends the call.
JoinCancelled(c) ==
  /\ rpc[c] = "Joining"
  /\ node[c] = "cancelled"
  /\ rpc' = [rpc EXCEPT ![c] = "Cancelled"]
  /\ UNCHANGED <<cancelling, queue, last_result, sent, graph>>

\* The client's deadline or disconnection cancels the call.  While it awaits the
\* task the cancellation reaches the task; while it pulls, the task runs on with
\* nobody reading its queue.
ClientGone(c) ==
  /\ rpc[c] \in {"Pulling", "Joining"}
  /\ rpc' = [rpc EXCEPT ![c] = "Gone"]
  /\ cancelling' = [cancelling EXCEPT ![c] = @ \/ (rpc[c] = "Joining" /\ node[c] \notin Over)]
  /\ UNCHANGED <<queue, last_result, sent, graph>>

------------------------------------------------------------------------------
GraphStep(c) ==
  \/ ClassifyIntent(c) \/ ExtractEntities(c) \/ RetrieveContext(c) \/ AnalyzeGaps(c)
  \/ HandleRevisit(c) \/ CloseStream(c) \/ EndGraph(c) \/ GraphCancelled(c)

CallStep(c) == Pull(c) \/ DrainTimeout(c) \/ Join(c) \/ JoinCancelled(c)

Next ==
  \E c \in Calls : \/ RunPipeline(c)
                   \/ GraphStep(c)
                   \/ PutToken(c) \/ EndStream(c)
                   \/ CallStep(c)
                   \/ ClientGone(c)

Spec == Init /\ [][Next]_vars

\* The event loop runs every coroutine that can go on, and a node that waits for
\* a model is cut off by its timeout.  Nothing makes the guidance stream produce
\* a token or end: it has no timeout of its own.
Fairness == \A c \in Calls : WF_vars(GraphStep(c)) /\ WF_vars(CallStep(c))

FairSpec == Spec /\ Fairness

------------------------------------------------------------------------------
Results == [of : Calls, intent : Intents, captured : BOOLEAN,
            gap : {"None", "Open", "Terminal"}, aborted : BOOLEAN] \cup {NoResult}

Events == [token : 1..MaxTokens] \cup
          [of : Calls, intent : Intents, captured : BOOLEAN,
           transition_ready : BOOLEAN, aborted : BOOLEAN]

(* Type invariant; the queue of a call never exceeds its maxsize. *)
TypeOK ==
  /\ rpc \in [Calls -> {"Idle", "Pulling", "Joining", "Completed", "Cancelled", "Gone"}]
  /\ node \in [Calls -> EarlyNodes \cup Over \cup
                        {"None", "generate_guidance", "closing", "returned"}]
  /\ cancelling \in [Calls -> BOOLEAN]
  /\ state \in [Calls -> PipelineStates]
  /\ made \in [Calls -> 0..MaxTokens]
  /\ queue \in [Calls -> Seq(0..MaxTokens)]
  /\ \A c \in Calls : Len(queue[c]) <= QueueMax
  /\ result \in [Calls -> Results]
  /\ last_result \in Results
  /\ sent \in [Calls -> Seq(Events)]

Tokens(n) == [i \in 1..n |-> Token(i)]

(* A call that completes has streamed every token its guidance made, in      *)
(* order, and after them one complete event with the result of this very     *)
(* turn, although executor and last_result are shared by all calls           *)
(* ("complete ... sent exactly once, after all tokens").                     *)
CompleteIsOwn ==
  \A c \in Calls :
    rpc[c] = "Completed" =>
      sent[c] = Append(Tokens(made[c]), TurnComplete(result[c])) /\ result[c].of = c

(* What a client has been sent and what is still queued for it are, in this  *)
(* order, the tokens made so far, however slowly it reads: a full queue      *)
(* holds guidance up, it never loses or overtakes a token.                   *)
NothingLostInQueue ==
  \A c \in Calls :
    rpc[c] = "Pulling" =>
      \E k \in 0..Len(queue[c]) :
        /\ sent[c] \o [i \in 1..k |-> Token(queue[c][i])] = Tokens(made[c])
        /\ \A i \in (k + 1)..Len(queue[c]) : queue[c][i] = Sentinel

(* A call that was answered leaves no task behind; only a client that went   *)
(* away while tokens were pulled does.                                       *)
NoTaskLeftBehind ==
  \A c \in Calls : rpc[c] \in {"Completed", "Cancelled"} => node[c] \in Over

(* Every call ends, even when the model stalls in the middle of guidance:    *)
(* the drain timeout, the sentinel of the node and the one of the finally    *)
(* block leave no way to wait forever.                                       *)
EveryCallEnds ==
  \A c \in Calls : rpc[c] = "Pulling" ~> rpc[c] \in {"Completed", "Cancelled", "Gone"}
=============================================================================
