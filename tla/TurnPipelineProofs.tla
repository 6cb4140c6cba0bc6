-------------------------- MODULE TurnPipelineProofs --------------------------
(***************************************************************************)
(* What holds of TurnPipeline for any number of calls, any queue size and  *)
(* any length of guidance.  The invariant is one conjunct per call, since  *)
(* calls share last_result only, which is written and read in one step.    *)
(* Its heart is Streaming: what was sent and what is queued are, end to    *)
(* end, the tokens made, and what is queued behind them are sentinels.     *)
(***************************************************************************)
EXTENDS TurnPipelineRefinement, SequenceTheorems, TLAPS

Done == Results \ {NoResult}

\* Sent events, queue and number of tokens agree.
Agree(s, q, m) ==
  /\ s = Tokens(Len(s))
  /\ Len(s) <= m
  /\ m <= Len(s) + Len(q)
  /\ \A i \in 1..Len(q) :
       q[i] = IF Len(s) + i <= m THEN Len(s) + i ELSE Sentinel

\* Nothing is queued behind the tokens.
TokensOnly(s, q, m) == m = Len(s) + Len(q)

Streaming(c) ==
  /\ Agree(sent[c], queue[c], made[c])
  /\ TokensOnly(sent[c], queue[c], made[c]) \/ node[c] \in {"returned"} \cup Over

\* A call is cancelled from outside the task in two places only, and the task it
\* joins has either closed the queue itself or is being cancelled.
CallInv(c) ==
  /\ rpc[c] = "Idle" <=> node[c] = "None"
  /\ cancelling[c] => rpc[c] \in {"Joining", "Cancelled", "Gone"}
  /\ node[c] = "cancelled" => cancelling[c]
  /\ node[c] = "ended" => result[c] \in Done /\ result[c].of = c
  /\ node[c] # "ended" => result[c] = NoResult
  /\ rpc[c] \in {"Idle", "Pulling"} => Streaming(c)
  /\ rpc[c] = "Joining" =>
       \/ cancelling[c] /\ node[c] \in {"generate_guidance", "cancelled"}
       \/ /\ ~cancelling[c]
          /\ node[c] \in {"returned", "ended"}
          /\ sent[c] = Tokens(made[c])
  /\ rpc[c] = "Completed" =>
       /\ node[c] = "ended"
       /\ sent[c] = Append(Tokens(made[c]), TurnComplete(result[c]))
  /\ rpc[c] = "Cancelled" => node[c] \in Over

Inv == TypeOK /\ \A c \in Calls : CallInv(c)

\* What the invariant of a call is about.
Local(c) == <<rpc[c], node[c], cancelling[c], made[c], queue[c], result[c], sent[c]>>

LEMMA Initially == Init => Inv
<1> SUFFICES ASSUME Init PROVE Inv
  OBVIOUS
<1>1. TypeOK
  BY PipelineAssumption DEF Init, TypeOK, PipelineStates, Initial, Intents, Results, NoResult
<1>2. Tokens(0) = <<>>
  BY DEF Tokens
<1>3. ASSUME NEW c \in Calls PROVE CallInv(c)
  BY <1>2 DEF Init, CallInv, Streaming, Agree, TokensOnly
<1>4. QED
  BY <1>1, <1>3 DEF Inv

LEMMA SameCall ==
  ASSUME NEW c \in Calls, CallInv(c), UNCHANGED Local(c)
  PROVE  CallInv(c)'
BY DEF CallInv, Streaming, Local

\* The nodes up to the last token: each goes on with a state of its own.
LEMMA NodeSteps ==
  ASSUME TypeOK, NEW c \in Calls,
         \/ ClassifyIntent(c) \/ ExtractEntities(c) \/ RetrieveContext(c)
         \/ AnalyzeGaps(c) \/ HandleRevisit(c) \/ EndStream(c)
  PROVE  \E s \in PipelineStates, n \in EarlyNodes \cup {"generate_guidance", "closing"} :
           /\ GoOn(c, s, n)
           /\ node[c] \in EarlyNodes \cup {"generate_guidance"}
           /\ ~cancelling[c]
<1> DEFINE Goal == \E s \in PipelineStates, n \in EarlyNodes \cup {"generate_guidance", "closing"} :
                     /\ GoOn(c, s, n)
                     /\ node[c] \in EarlyNodes \cup {"generate_guidance"}
                     /\ ~cancelling[c]
<1>1. state[c] \in PipelineStates
  BY DEF TypeOK
<1>2. /\ \A i \in Intents : [state[c] EXCEPT !.intent = i] \in PipelineStates
      /\ \A b \in BOOLEAN : [state[c] EXCEPT !.captured = b] \in PipelineStates
      /\ \A b \in BOOLEAN : [state[c] EXCEPT !.aborted = b] \in PipelineStates
      /\ \A g \in {"Open", "Terminal"} : [state[c] EXCEPT !.gap = g] \in PipelineStates
      /\ [state[c] EXCEPT !.gap = "Open", !.captured = FALSE, !.intent = "REVISIT:phase"]
           \in PipelineStates
  BY <1>1 DEF PipelineStates, Intents
<1>3. CASE ClassifyIntent(c)
  BY <1>2, <1>3 DEF ClassifyIntent, At, RouteAfterIntent, EarlyNodes, Intents
<1>4. CASE ExtractEntities(c)
  BY <1>2, <1>4 DEF ExtractEntities, At, EarlyNodes
<1>5. CASE RetrieveContext(c)
  BY <1>1, <1>5 DEF RetrieveContext, At, EarlyNodes
<1>6. CASE AnalyzeGaps(c)
  BY <1>2, <1>6 DEF AnalyzeGaps, At, EarlyNodes
<1>7. CASE HandleRevisit(c)
  BY <1>2, <1>7 DEF HandleRevisit, At, EarlyNodes
<1>8. CASE EndStream(c)
  BY <1>2, <1>8 DEF EndStream, At, EarlyNodes
<1>9. QED
  BY <1>3, <1>4, <1>5, <1>6, <1>7, <1>8

\* What a call is to its own action; every action below keeps it.
Keeps(c) == TypeOK' /\ CallInv(c)'

LEMMA GoOnKeeps ==
  ASSUME TypeOK, NEW c \in Calls, CallInv(c), ~cancelling[c],
         node[c] \in EarlyNodes \cup {"generate_guidance"},
         NEW s \in PipelineStates,
         NEW n \in EarlyNodes \cup {"generate_guidance", "closing"},
         GoOn(c, s, n)
  PROVE  Keeps(c)
<1>1. node'[c] = n /\ node[c] # "None" /\ n # "None"
  BY DEF GoOn, TypeOK, EarlyNodes
<1>2. TypeOK'
  BY DEF GoOn, TypeOK
<1>3. CallInv(c)'
  BY <1>1 DEF GoOn, CallInv, Streaming, EarlyNodes, Over
<1>4. QED
  BY <1>2, <1>3 DEF Keeps

LEMMA RunPipelineKeeps ==
  ASSUME TypeOK, NEW c \in Calls, CallInv(c), RunPipeline(c)
  PROVE  Keeps(c)
<1>1. rpc'[c] = "Pulling" /\ node'[c] = "classify_intent" /\ node[c] = "None"
  BY DEF RunPipeline, TypeOK, CallInv
<1>2. TypeOK'
  BY DEF RunPipeline, TypeOK, EarlyNodes
<1>3. CallInv(c)'
  BY <1>1 DEF RunPipeline, CallInv, Streaming, Over
<1>4. QED
  BY <1>2, <1>3 DEF Keeps

\* The queue under the steps of a stream.
LEMMA AgreePut ==
  ASSUME NEW s, NEW q \in Seq(0..MaxTokens), NEW m \in Nat, Len(s) \in Nat,
         Agree(s, q, m), TokensOnly(s, q, m)
  PROVE  Agree(s, Append(q, m + 1), m + 1) /\ TokensOnly(s, Append(q, m + 1), m + 1)
<1> DEFINE r == Append(q, m + 1)
<1>1. /\ Len(q) \in Nat
      /\ Len(r) = Len(q) + 1
      /\ \A i \in 1..Len(q) : r[i] = q[i]
      /\ r[Len(q) + 1] = m + 1
  OBVIOUS
<1>2. ASSUME NEW i \in 1..Len(r)
      PROVE  r[i] = IF Len(s) + i <= m + 1 THEN Len(s) + i ELSE Sentinel
  <2>1. CASE i \in 1..Len(q)
    <3>1. q[i] = IF Len(s) + i <= m THEN Len(s) + i ELSE Sentinel
      BY <2>1 DEF Agree
    <3>2. Len(s) + i <= m
      BY <1>1, <2>1 DEF TokensOnly
    <3>3. QED
      BY <1>1, <2>1, <3>1, <3>2
  <2>2. CASE i = Len(q) + 1
    BY <1>1, <2>2 DEF TokensOnly
  <2>3. QED
    BY <1>1, <2>1, <2>2
<1>3. s = Tokens(Len(s)) /\ Len(s) <= m
  BY DEF Agree
<1>4. m + 1 = Len(s) + Len(r)
  BY <1>1 DEF TokensOnly
<1>5. QED
  BY <1>1, <1>2, <1>3, <1>4 DEF Agree, TokensOnly

LEMMA AgreeClose ==
  ASSUME NEW s, NEW q \in Seq(0..MaxTokens), NEW m \in Nat, Len(s) \in Nat, Agree(s, q, m)
  PROVE  Agree(s, Append(q, Sentinel), m)
<1> DEFINE r == Append(q, Sentinel)
<1>1. /\ Len(q) \in Nat
      /\ Len(r) = Len(q) + 1
      /\ \A i \in 1..Len(q) : r[i] = q[i]
      /\ r[Len(q) + 1] = Sentinel
  BY DEF Sentinel
<1>2. /\ s = Tokens(Len(s))
      /\ Len(s) <= m
      /\ m <= Len(s) + Len(q)
      /\ \A i \in 1..Len(q) : q[i] = IF Len(s) + i <= m THEN Len(s) + i ELSE Sentinel
  BY DEF Agree
<1>3. ASSUME NEW i \in 1..Len(r)
      PROVE  r[i] = IF Len(s) + i <= m THEN Len(s) + i ELSE Sentinel
  <2>1. CASE i \in 1..Len(q)
    BY <1>1, <1>2, <2>1
  <2>2. CASE i = Len(q) + 1
    BY <1>1, <1>2, <2>2
  <2>3. QED
    BY <1>1, <2>1, <2>2
<1>4. m <= Len(s) + Len(r)
  BY <1>1, <1>2
<1>5. QED
  BY <1>2, <1>3, <1>4 DEF Agree

LEMMA AgreePullToken ==
  ASSUME NEW s \in Seq(Events), NEW q \in Seq(0..MaxTokens), NEW m \in 0..MaxTokens,
         Agree(s, q, m), q # <<>>, Head(q) # Sentinel, MaxTokens \in Nat
  PROVE  /\ Append(s, Token(Head(q))) \in Seq(Events)
         /\ Agree(Append(s, Token(Head(q))), Tail(q), m)
         /\ TokensOnly(s, q, m) => TokensOnly(Append(s, Token(Head(q))), Tail(q), m)
<1> DEFINE n == Len(s)
           r == Tail(q)
           t == Append(s, Token(Head(q)))
<1>1. /\ n \in Nat /\ Len(q) \in Nat /\ Len(q) >= 1
      /\ Head(q) = q[1]
      /\ Len(r) = Len(q) - 1
      /\ \A i \in 1..Len(r) : r[i] = q[i + 1]
  OBVIOUS
<1>2. /\ s = Tokens(n)
      /\ n <= m
      /\ m <= n + Len(q)
      /\ \A i \in 1..Len(q) : q[i] = IF n + i <= m THEN n + i ELSE Sentinel
  BY DEF Agree
<1>3. Head(q) = n + 1 /\ n + 1 <= m
  BY <1>1, <1>2
<1>4. Token(n + 1) \in Events
  BY <1>1, <1>3 DEF Token, Events
<1>5. t \in Seq(Events) /\ Len(t) = n + 1
  BY <1>3, <1>4
<1>6. t = Tokens(n + 1)
  <2>1. t \in [1..(n + 1) -> Events]
    BY <1>5, LenProperties
  <2>2. ASSUME NEW i \in 1..(n + 1) PROVE t[i] = Token(i)
    <3>1. CASE i \in 1..n
      BY <1>1, <1>2, <1>3, <1>4, <3>1, AppendProperties DEF Tokens
    <3>2. CASE i = n + 1
      BY <1>1, <1>3, <1>4, <3>2, AppendProperties
    <3>3. QED
      BY <1>1, <3>1, <3>2
  <2>3. QED
    BY <2>1, <2>2 DEF Tokens
<1>7. ASSUME NEW i \in 1..Len(r)
      PROVE  r[i] = IF n + 1 + i <= m THEN n + 1 + i ELSE Sentinel
  <2>1. i + 1 \in 1..Len(q) /\ r[i] = q[i + 1]
    BY <1>1
  <2>2. q[i + 1] = IF n + (i + 1) <= m THEN n + (i + 1) ELSE Sentinel
    BY <1>2, <2>1
  <2>3. QED
    BY <1>1, <2>1, <2>2
<1>8. QED
  <2>1. n + 1 <= m /\ m <= (n + 1) + Len(r)
    BY <1>1, <1>2, <1>3
  <2>2. Agree(t, r, m)
    BY <1>5, <1>6, <1>7, <2>1 DEF Agree
  <2>3. TokensOnly(s, q, m) => TokensOnly(t, r, m)
    BY <1>1, <1>5 DEF TokensOnly
  <2>4. QED
    BY <1>5, <2>2, <2>3

LEMMA AgreePullSentinel ==
  ASSUME NEW s \in Seq(Events), NEW q \in Seq(0..MaxTokens), NEW m \in 0..MaxTokens,
         Agree(s, q, m), q # <<>>, Head(q) = Sentinel, MaxTokens \in Nat
  PROVE  s = Tokens(m) /\ ~TokensOnly(s, q, m)
<1>1. Len(s) \in Nat /\ Len(q) \in Nat /\ Len(q) >= 1 /\ Head(q) = q[1]
  OBVIOUS
<1>2. /\ s = Tokens(Len(s))
      /\ Len(s) <= m
      /\ q[1] = IF Len(s) + 1 <= m THEN Len(s) + 1 ELSE Sentinel
  BY <1>1 DEF Agree
<1>3. Len(s) = m
  BY <1>1, <1>2 DEF Sentinel
<1>4. QED
  BY <1>1, <1>2, <1>3 DEF TokensOnly

LEMMA OfCall ==
  ASSUME TypeOK, NEW c \in Calls
  PROVE  /\ queue[c] \in Seq(0..MaxTokens) /\ Len(queue[c]) <= QueueMax
         /\ made[c] \in 0..MaxTokens /\ made[c] \in Nat
         /\ sent[c] \in Seq(Events) /\ Len(sent[c]) \in Nat
BY PipelineAssumption DEF TypeOK

LEMMA PutTokenKeeps ==
  ASSUME TypeOK, NEW c \in Calls, CallInv(c), PutToken(c)
  PROVE  Keeps(c)
<1> DEFINE q == queue[c]
<1>0. MaxTokens \in Nat /\ QueueMax \in Nat
  BY PipelineAssumption
<1>1. /\ made'[c] = made[c] + 1
      /\ made[c] + 1 \in 0..MaxTokens
      /\ queue'[c] = Append(q, made[c] + 1)
  BY <1>0 DEF PutToken, TypeOK
<1>2. queue'[c] \in Seq(0..MaxTokens) /\ Len(queue'[c]) = Len(q) + 1
  BY <1>1, OfCall
<1>3. Len(queue'[c]) <= QueueMax
  BY <1>0, <1>2, OfCall DEF PutToken
<1>4. TypeOK'
  <2>1. made' \in [Calls -> 0..MaxTokens] /\ queue' \in [Calls -> Seq(0..MaxTokens)]
    BY <1>1, <1>2 DEF PutToken, TypeOK
  <2>2. \A d \in Calls : Len(queue'[d]) <= QueueMax
    BY <1>3 DEF PutToken, TypeOK
  <2>3. QED
    BY <2>1, <2>2 DEF PutToken, TypeOK
<1>5. node[c] = "generate_guidance" /\ ~cancelling[c]
  BY DEF PutToken, At
<1>6. Streaming(c) => Streaming(c)'
  <2> SUFFICES ASSUME Streaming(c) PROVE Streaming(c)'
    OBVIOUS
  <2>1. Agree(sent[c], q, made[c]) /\ TokensOnly(sent[c], q, made[c])
    BY <1>5 DEF Streaming, Over
  <2>2. Agree(sent[c], queue'[c], made'[c]) /\ TokensOnly(sent[c], queue'[c], made'[c])
    BY <1>1, <2>1, AgreePut, OfCall
  <2>3. sent'[c] = sent[c]
    BY DEF PutToken
  <2>4. QED
    BY <2>2, <2>3 DEF Streaming
<1>7. rpc[c] # "Joining" /\ rpc[c] # "Completed" /\ rpc[c] # "Cancelled"
  BY <1>5 DEF CallInv, Over
<1>8. CallInv(c)'
  BY <1>5, <1>6, <1>7 DEF CallInv, PutToken
<1>9. QED
  BY <1>4, <1>8 DEF Keeps

\* The sentinel is put if there is room, or, by CloseStream, once there is.
LEMMA SentinelPut ==
  ASSUME TypeOK, NEW c \in Calls,
         queue' = [queue EXCEPT ![c] = Append(@, Sentinel)], Len(queue[c]) < QueueMax
  PROVE  /\ queue' \in [Calls -> Seq(0..MaxTokens)]
         /\ \A d \in Calls : Len(queue'[d]) <= QueueMax
         /\ queue'[c] = Append(queue[c], Sentinel)
<1>0. MaxTokens \in Nat /\ QueueMax \in Nat
  BY PipelineAssumption
<1>1. Sentinel \in 0..MaxTokens
  BY <1>0 DEF Sentinel
<1>2. queue'[c] = Append(queue[c], Sentinel)
  BY DEF TypeOK
<1>3. queue'[c] \in Seq(0..MaxTokens) /\ Len(queue'[c]) = Len(queue[c]) + 1
  <2>1. queue[c] \in Seq(0..MaxTokens)
    BY OfCall
  <2>2. Append(queue[c], Sentinel) \in Seq(0..MaxTokens)
    BY <1>1, <2>1, AppendProperties
  <2>3. Len(Append(queue[c], Sentinel)) = Len(queue[c]) + 1
    BY <1>1, <2>1, AppendProperties
  <2>4. QED
    BY <1>2, <2>2, <2>3
<1>4. Len(queue'[c]) <= QueueMax
  BY <1>0, <1>3, OfCall
<1>5. QED
  BY <1>2, <1>3, <1>4 DEF TypeOK

LEMMA SafetyNetPut ==
  ASSUME TypeOK, NEW c \in Calls, SafetyNet(c)
  PROVE  /\ queue' \in [Calls -> Seq(0..MaxTokens)]
         /\ \A d \in Calls : Len(queue'[d]) <= QueueMax
         /\ queue'[c] = queue[c] \/ queue'[c] = Append(queue[c], Sentinel)
<1>1. CASE Len(queue[c]) < QueueMax
  BY <1>1, SentinelPut DEF SafetyNet
<1>2. CASE ~(Len(queue[c]) < QueueMax)
  BY <1>2 DEF SafetyNet, TypeOK
<1>3. QED
  BY <1>1, <1>2

\* Whoever closes the queue leaves the graph where more than tokens may be queued.
LEMMA ClosingKeepsStreaming ==
  ASSUME TypeOK, NEW c \in Calls, Streaming(c),
         queue'[c] = queue[c] \/ queue'[c] = Append(queue[c], Sentinel),
         sent'[c] = sent[c], made'[c] = made[c],
         node'[c] \in {"returned"} \cup Over
  PROVE  Streaming(c)'
<1>1. Agree(sent[c], queue[c], made[c])
  BY DEF Streaming
<1>2. Agree(sent[c], queue'[c], made[c])
  BY <1>1, AgreeClose, OfCall
<1>3. QED
  BY <1>2 DEF Streaming

LEMMA CloseStreamKeeps ==
  ASSUME TypeOK, NEW c \in Calls, CallInv(c), CloseStream(c)
  PROVE  Keeps(c)
<1>1. node[c] = "closing" /\ ~cancelling[c] /\ node'[c] = "returned"
  BY DEF CloseStream, At, TypeOK
<1>2. /\ queue' \in [Calls -> Seq(0..MaxTokens)]
      /\ \A d \in Calls : Len(queue'[d]) <= QueueMax
      /\ queue'[c] = Append(queue[c], Sentinel)
  BY SentinelPut DEF CloseStream
<1>3. TypeOK'
  BY <1>2 DEF CloseStream, TypeOK
<1>4. Streaming(c) => Streaming(c)'
  BY <1>1, <1>2, ClosingKeepsStreaming DEF CloseStream
<1>5. CallInv(c)'
  BY <1>1, <1>4 DEF CallInv, CloseStream, Over
<1>6. QED
  BY <1>3, <1>5 DEF Keeps

LEMMA ResultsAreDone ==
  ASSUME NEW c \in Calls, NEW s \in PipelineStates
  PROVE  /\ TurnResult(c, s) \in Done /\ TurnResult(c, s).of = c
         /\ Raised(c) \in Done /\ Raised(c).of = c
<1>1. TurnResult(c, s) \in Results /\ TurnResult(c, s).of = c
  BY DEF TurnResult, Results, PipelineStates
<1>2. [Initial EXCEPT !.intent = "Clarification", !.aborted = TRUE] \in PipelineStates
  BY DEF Initial, PipelineStates, Intents
<1>3. Raised(c) \in Results /\ Raised(c).of = c
  BY <1>2 DEF Raised, TurnResult, Results, PipelineStates
<1>4. \A t : TurnResult(c, t) # NoResult
  BY DEF TurnResult, NoResult
<1>5. QED
  BY <1>1, <1>3, <1>4 DEF Done, Raised

LEMMA EndGraphKeeps ==
  ASSUME TypeOK, NEW c \in Calls, CallInv(c), EndGraph(c)
  PROVE  Keeps(c)
<1>1. node[c] \in EarlyNodes \cup {"returned"} /\ ~cancelling[c] /\ node'[c] = "ended"
  BY DEF EndGraph, At, TypeOK
<1>2. /\ queue' \in [Calls -> Seq(0..MaxTokens)]
      /\ \A d \in Calls : Len(queue'[d]) <= QueueMax
      /\ queue'[c] = queue[c] \/ queue'[c] = Append(queue[c], Sentinel)
  BY SafetyNetPut DEF EndGraph
<1>3. \E r \in Done : r.of = c /\ result' = [result EXCEPT ![c] = r]
  BY ResultsAreDone DEF EndGraph, TypeOK
<1>4. TypeOK'
  BY <1>2, <1>3 DEF EndGraph, TypeOK, Over, Done
<1>5. Streaming(c) => Streaming(c)'
  BY <1>1, <1>2, ClosingKeepsStreaming DEF EndGraph, Over
<1>6. result'[c] \in Done /\ result'[c].of = c
  BY <1>3 DEF TypeOK
<1>7. rpc[c] # "Idle" /\ rpc[c] # "Completed" /\ rpc[c] # "Cancelled"
  BY <1>1 DEF CallInv, EarlyNodes, Over
<1>8. CallInv(c)'
  BY <1>1, <1>5, <1>6, <1>7 DEF CallInv, EndGraph, Over, EarlyNodes
<1>9. QED
  BY <1>4, <1>8 DEF Keeps

LEMMA GraphCancelledKeeps ==
  ASSUME TypeOK, NEW c \in Calls, CallInv(c), GraphCancelled(c)
  PROVE  Keeps(c)
<1>1. cancelling[c] /\ node'[c] = "cancelled" /\ node[c] \notin Over
  BY DEF GraphCancelled, TypeOK
<1>2. /\ queue' \in [Calls -> Seq(0..MaxTokens)]
      /\ \A d \in Calls : Len(queue'[d]) <= QueueMax
  BY SafetyNetPut DEF GraphCancelled
<1>3. TypeOK'
  BY <1>2 DEF GraphCancelled, TypeOK, Over
<1>4. rpc[c] \in {"Joining", "Gone"}
  BY <1>1 DEF CallInv
<1>5. CallInv(c)'
  BY <1>1, <1>4 DEF CallInv, GraphCancelled, Over
<1>6. QED
  BY <1>3, <1>5 DEF Keeps

LEMMA PullKeeps ==
  ASSUME TypeOK, NEW c \in Calls, CallInv(c), Pull(c)
  PROVE  Keeps(c)
<1> DEFINE q == queue[c]
<1>0. MaxTokens \in Nat /\ QueueMax \in Nat
  BY PipelineAssumption
<1>1. rpc[c] = "Pulling" /\ ~cancelling[c] /\ node[c] # "cancelled" /\ Streaming(c)
  BY DEF Pull, CallInv
<1>2. Agree(sent[c], q, made[c]) /\ q # <<>>
  BY <1>1 DEF Pull, Streaming
<1>3. /\ queue' \in [Calls -> Seq(0..MaxTokens)]
      /\ \A d \in Calls : Len(queue'[d]) <= QueueMax
      /\ queue'[c] = Tail(q)
  <2>1. queue'[c] = Tail(q)
    BY DEF Pull, TypeOK
  <2>2. Tail(q) \in Seq(0..MaxTokens) /\ Len(Tail(q)) = Len(q) - 1 /\ Len(q) \in Nat
    BY <1>2, OfCall, HeadTailProperties, LenProperties
  <2>3. Len(Tail(q)) <= QueueMax
    BY <1>0, <2>2, OfCall
  <2>4. QED
    BY <2>1, <2>2, <2>3 DEF Pull, TypeOK
<1>4. CASE Head(q) = Sentinel
  <2>1. sent[c] = Tokens(made[c]) /\ ~TokensOnly(sent[c], q, made[c])
    BY <1>0, <1>2, <1>4, AgreePullSentinel, OfCall
  <2>2. node[c] \in {"returned", "ended"}
    BY <1>1, <2>1 DEF Streaming, Over
  <2>3. rpc' = [rpc EXCEPT ![c] = "Joining"] /\ sent' = sent
    BY <1>4 DEF Pull
  <2>4. TypeOK'
    BY <1>3, <2>3 DEF Pull, TypeOK, graph
  <2>5. CallInv(c)'
    <3>1. rpc'[c] = "Joining"
      BY <2>3 DEF TypeOK
    <3>2. UNCHANGED <<node, cancelling, made, result, sent>>
      BY <2>3 DEF Pull, graph
    <3>3. QED
      BY <1>1, <2>1, <2>2, <3>1, <3>2 DEF CallInv
  <2>6. QED
    BY <2>4, <2>5 DEF Keeps
<1>5. CASE Head(q) # Sentinel
  <2> DEFINE t == Append(sent[c], Token(Head(q)))
  <2>1. /\ t \in Seq(Events)
        /\ Agree(t, Tail(q), made[c])
        /\ TokensOnly(sent[c], q, made[c]) => TokensOnly(t, Tail(q), made[c])
    BY <1>0, <1>2, <1>5, AgreePullToken, OfCall
  <2>2. sent' = [sent EXCEPT ![c] = t] /\ rpc' = rpc
    BY <1>5 DEF Pull
  <2>3. sent'[c] = t
    BY <2>2 DEF TypeOK
  <2>4. TypeOK'
    BY <1>3, <2>1, <2>2 DEF Pull, TypeOK, graph
  <2>5. UNCHANGED <<rpc, node, cancelling, made, result>>
    BY <2>2 DEF Pull, graph
  <2>6. Streaming(c)'
    BY <1>1, <1>3, <2>1, <2>3, <2>5 DEF Streaming
  <2>7. CallInv(c)'
    BY <1>1, <2>5, <2>6 DEF CallInv
  <2>8. QED
    BY <2>4, <2>7 DEF Keeps
<1>6. QED
  BY <1>4, <1>5

LEMMA DrainTimeoutKeeps ==
  ASSUME TypeOK, NEW c \in Calls, CallInv(c), DrainTimeout(c)
  PROVE  Keeps(c)
<1>1. /\ node[c] = "generate_guidance"
      /\ rpc'[c] = "Joining" /\ cancelling'[c] = TRUE
      /\ UNCHANGED <<node, made, result, queue, sent>>
  BY DEF DrainTimeout, Stalled, TypeOK, graph
<1>2. TypeOK'
  BY DEF DrainTimeout, TypeOK, graph
<1>3. CallInv(c)'
  BY <1>1 DEF CallInv
<1>4. QED
  BY <1>2, <1>3 DEF Keeps

LEMMA JoinKeeps ==
  ASSUME TypeOK, NEW c \in Calls, CallInv(c), Join(c)
  PROVE  Keeps(c)
<1>1. /\ rpc[c] = "Joining" /\ node[c] = "ended"
      /\ ~cancelling[c] /\ sent[c] = Tokens(made[c])
      /\ result[c] \in Done /\ result[c].of = c
  BY DEF Join, CallInv
<1>2. TurnComplete(result[c]) \in Events
  BY <1>1 DEF TurnComplete, Done, Results, Events
<1>3. Append(sent[c], TurnComplete(result[c])) \in Seq(Events)
  BY <1>2, OfCall, AppendProperties
<1>4. sent' = [sent EXCEPT ![c] = Append(sent[c], TurnComplete(result[c]))]
  BY DEF Join
<1>5. TypeOK'
  BY <1>1, <1>3, <1>4 DEF Join, TypeOK, graph, Done
<1>6. /\ rpc'[c] = "Completed"
      /\ sent'[c] = Append(Tokens(made[c]), TurnComplete(result[c]))
      /\ UNCHANGED <<node, cancelling, made, result, queue>>
  BY <1>1, <1>4 DEF Join, TypeOK, graph
<1>7. CallInv(c)'
  BY <1>1, <1>6 DEF CallInv
<1>8. QED
  BY <1>5, <1>7 DEF Keeps

LEMMA LeavingKeeps ==
  ASSUME TypeOK, NEW c \in Calls, CallInv(c), JoinCancelled(c) \/ ClientGone(c)
  PROVE  Keeps(c)
<1>1. CASE JoinCancelled(c)
  <2>1. /\ node[c] = "cancelled" /\ cancelling[c] /\ rpc'[c] = "Cancelled"
        /\ UNCHANGED <<node, cancelling, made, result, queue, sent>>
    BY <1>1 DEF JoinCancelled, CallInv, TypeOK, graph
  <2>2. TypeOK'
    BY <1>1 DEF JoinCancelled, TypeOK, graph
  <2>3. CallInv(c)'
    BY <2>1 DEF CallInv, Over
  <2>4. QED
    BY <2>2, <2>3 DEF Keeps
<1>2. CASE ClientGone(c)
  <2>1. /\ rpc[c] \in {"Pulling", "Joining"} /\ rpc'[c] = "Gone"
        /\ cancelling[c] => cancelling'[c]
        /\ UNCHANGED <<node, made, result, queue, sent>>
    BY <1>2 DEF ClientGone, TypeOK, graph
  <2>2. TypeOK'
    BY <1>2 DEF ClientGone, TypeOK, graph
  <2>3. CallInv(c)'
    BY <2>1 DEF CallInv, TypeOK
  <2>4. QED
    BY <2>2, <2>3 DEF Keeps
<1>3. QED
  BY <1>1, <1>2

\* The steps of one call.
StepOf(c) == RunPipeline(c) \/ GraphStep(c) \/ PutToken(c) \/ EndStream(c)
             \/ CallStep(c) \/ ClientGone(c)

LEMMA StepKeeps ==
  ASSUME Inv, NEW c \in Calls, StepOf(c)
  PROVE  Keeps(c)
<1>1. TypeOK /\ CallInv(c)
  BY DEF Inv
<1>2. CASE \/ ClassifyIntent(c) \/ ExtractEntities(c) \/ RetrieveContext(c)
           \/ AnalyzeGaps(c) \/ HandleRevisit(c) \/ EndStream(c)
  BY <1>1, <1>2, NodeSteps, GoOnKeeps
<1>3. CASE RunPipeline(c)
  BY <1>1, <1>3, RunPipelineKeeps
<1>4. CASE PutToken(c)
  BY <1>1, <1>4, PutTokenKeeps
<1>5. CASE CloseStream(c)
  BY <1>1, <1>5, CloseStreamKeeps
<1>6. CASE EndGraph(c)
  BY <1>1, <1>6, EndGraphKeeps
<1>7. CASE GraphCancelled(c)
  BY <1>1, <1>7, GraphCancelledKeeps
<1>8. CASE Pull(c)
  BY <1>1, <1>8, PullKeeps
<1>9. CASE DrainTimeout(c)
  BY <1>1, <1>9, DrainTimeoutKeeps
<1>10. CASE Join(c)
  BY <1>1, <1>10, JoinKeeps
<1>11. CASE JoinCancelled(c) \/ ClientGone(c)
  BY <1>1, <1>11, LeavingKeeps
<1>12. QED
  BY <1>2, <1>3, <1>4, <1>5, <1>6, <1>7, <1>8, <1>9, <1>10, <1>11
     DEF StepOf, GraphStep, CallStep

\* A step of one call leaves the others where they are.
LEMMA OthersSame ==
  ASSUME TypeOK, NEW c \in Calls, StepOf(c), NEW d \in Calls, d # c
  PROVE  UNCHANGED Local(d)
<1>1. CASE \/ ClassifyIntent(c) \/ ExtractEntities(c) \/ RetrieveContext(c)
           \/ AnalyzeGaps(c) \/ HandleRevisit(c) \/ EndStream(c)
  <2>1. \E s \in PipelineStates, n \in EarlyNodes \cup {"generate_guidance", "closing"} :
          GoOn(c, s, n)
    BY <1>1, NodeSteps
  <2>2. QED
    BY <2>1 DEF GoOn, TypeOK, Local
<1>2. CASE RunPipeline(c) \/ PutToken(c) \/ CloseStream(c)
  BY <1>2 DEF RunPipeline, PutToken, CloseStream, TypeOK, Local
<1>3. CASE EndGraph(c)
  <2>1. UNCHANGED <<rpc, cancelling, made, sent>> /\ node'[d] = node[d]
    BY <1>3 DEF EndGraph, TypeOK
  <2>2. result'[d] = result[d]
    BY <1>3 DEF EndGraph, TypeOK
  <2>3. queue'[d] = queue[d]
    BY <1>3 DEF EndGraph, SafetyNet, TypeOK
  <2>4. QED
    BY <2>1, <2>2, <2>3 DEF Local
<1>4. CASE GraphCancelled(c)
  BY <1>4 DEF GraphCancelled, SafetyNet, TypeOK, Local
<1>5. CASE Pull(c)
  BY <1>5 DEF Pull, TypeOK, Local, graph
<1>6. CASE DrainTimeout(c) \/ Join(c) \/ JoinCancelled(c) \/ ClientGone(c)
  BY <1>6 DEF DrainTimeout, Join, JoinCancelled, ClientGone, TypeOK, Local, graph
<1>7. QED
  BY <1>1, <1>2, <1>3, <1>4, <1>5, <1>6 DEF StepOf, GraphStep, CallStep

LEMMA Inductive == Inv /\ [Next]_vars => Inv'
<1> SUFFICES ASSUME Inv, [Next]_vars PROVE Inv'
  OBVIOUS
<1>1. CASE Next
  <2>1. PICK c \in Calls : StepOf(c)
    BY <1>1 DEF Next, StepOf
  <2>2. TypeOK' /\ CallInv(c)'
    BY <2>1, StepKeeps DEF Keeps
  <2>3. ASSUME NEW d \in Calls, d # c PROVE CallInv(d)'
    BY <2>1, <2>3, OthersSame, SameCall DEF Inv
  <2>4. QED
    BY <2>2, <2>3 DEF Inv
<1>2. CASE UNCHANGED vars
  <2>1. TypeOK'
    BY <1>2 DEF Inv, TypeOK, vars
  <2>2. ASSUME NEW d \in Calls PROVE CallInv(d)'
    BY <1>2, <2>2, SameCall DEF Inv, Local, vars
  <2>3. QED
    BY <2>1, <2>2 DEF Inv
<1>3. QED
  BY <1>1, <1>2

LEMMA Invariance == Spec => []Inv
BY Initially, Inductive, PTL DEF Spec

------------------------------------------------------------------------------
(* Every variable keeps its type, and no token queue ever exceeds its        *)
(* maxsize, the sentinel of the finally block included.                      *)
THEOREM TypeCorrect == Spec => []TypeOK
<1>1. Inv => TypeOK
  BY DEF Inv
<1>2. QED
  BY Invariance, <1>1, PTL

(* run / _build_turn_complete: a call that completes has streamed all tokens *)
(* of its own turn, in order, and then the result of its own turn, however   *)
(* many calls share the executor and its _last_result.                       *)
THEOREM TurnsCompleteOwn == Spec => []CompleteIsOwn
<1>1. Inv => CompleteIsOwn
  BY DEF Inv, CallInv, CompleteIsOwn
<1>2. QED
  BY Invariance, <1>1, PTL

LEMMA AgreeSplits ==
  ASSUME NEW s \in Seq(Events), NEW q \in Seq(0..MaxTokens), NEW m \in 0..MaxTokens,
         Agree(s, q, m), MaxTokens \in Nat
  PROVE  \E k \in 0..Len(q) :
           /\ s \o [i \in 1..k |-> Token(q[i])] = Tokens(m)
           /\ \A i \in (k + 1)..Len(q) : q[i] = Sentinel
<1> DEFINE k == m - Len(s)
           u == [i \in 1..k |-> Token(q[i])]
<1>1. /\ Len(s) \in Nat /\ Len(q) \in Nat /\ m \in Nat
      /\ s = Tokens(Len(s)) /\ Len(s) <= m /\ m <= Len(s) + Len(q)
      /\ \A i \in 1..Len(q) : q[i] = IF Len(s) + i <= m THEN Len(s) + i ELSE Sentinel
  BY DEF Agree
<1>2. k \in 0..Len(q) /\ k \in Nat
  BY <1>1
<1>3. ASSUME NEW i \in 1..k PROVE q[i] = Len(s) + i /\ Token(q[i]) \in Events
  <2>1. i \in 1..Len(q) /\ Len(s) + i <= m
    BY <1>1, <1>2
  <2>2. q[i] = Len(s) + i
    BY <1>1, <2>1
  <2>3. q[i] \in 1..MaxTokens
    BY <1>1, <2>1, <2>2
  <2>4. QED
    BY <2>2, <2>3 DEF Token, Events
<1>4. \A i \in (k + 1)..Len(q) : q[i] = Sentinel
  BY <1>1, <1>2
<1>5. u \in [1..k -> Events]
  BY <1>3
<1>6. u \in Seq(Events) /\ Len(u) = k
  BY <1>2, <1>5
<1>7. s \o u = Tokens(m)
  <2>1. /\ s \o u \in Seq(Events)
        /\ Len(s \o u) = m
        /\ \A i \in 1..Len(s) : (s \o u)[i] = s[i]
        /\ \A i \in 1..k : (s \o u)[Len(s) + i] = u[i]
    <3>1. Len(s \o u) = Len(s) + k
      <4>1. Len(s \o u) = Len(s) + Len(u)
        BY <1>6, ConcatProperties
      <4>2. QED
        BY <1>6, <4>1
    <3>2. Len(s) + k = m
      BY <1>1
    <3>3. \A i \in 1..Len(s) + Len(u) :
            (s \o u)[i] = IF i <= Len(s) THEN s[i] ELSE u[i - Len(s)]
      BY <1>6, ConcatProperties
    <3>4. \A i \in 1..Len(s) : (s \o u)[i] = s[i]
      BY <1>1, <1>6, <1>2, <3>3
    <3>5. ASSUME NEW i \in 1..k PROVE (s \o u)[Len(s) + i] = u[i]
      <4>1. Len(s) + i \in 1..Len(s) + Len(u) /\ ~(Len(s) + i <= Len(s))
        BY <1>1, <1>2, <1>6
      <4>2. Len(s) + i - Len(s) = i
        BY <1>1, <1>2
      <4>3. QED
        BY <3>3, <4>1, <4>2
    <3>6. s \o u \in Seq(Events)
      BY <1>6, ConcatProperties
    <3>7. QED
      BY <3>1, <3>2, <3>4, <3>5, <3>6
  <2>2. s \o u \in [1..m -> Events]
    BY <2>1, LenProperties
  <2>3. ASSUME NEW i \in 1..m PROVE (s \o u)[i] = Token(i)
    <3>1. CASE i \in 1..Len(s)
      BY <1>1, <2>1, <3>1 DEF Tokens
    <3>2. CASE i > Len(s)
      <4>1. i - Len(s) \in 1..k /\ i = Len(s) + (i - Len(s))
        BY <1>1, <3>2
      <4>2. (s \o u)[i] = Token(q[i - Len(s)])
        BY <2>1, <4>1
      <4>3. QED
        BY <1>3, <4>1, <4>2
    <3>3. QED
      BY <1>1, <3>1, <3>2
  <2>4. QED
    BY <2>2, <2>3 DEF Tokens
<1>8. QED
  BY <1>2, <1>4, <1>7

(* The bounded token queue: while a call pulls, what was sent and what is    *)
(* queued are together the tokens made, in order, whatever the queue's size. *)
THEOREM NothingIsLost == Spec => []NothingLostInQueue
<1>1. Inv => NothingLostInQueue
  <2> SUFFICES ASSUME Inv, NEW c \in Calls, rpc[c] = "Pulling"
               PROVE  \E k \in 0..Len(queue[c]) :
                        /\ sent[c] \o [i \in 1..k |-> Token(queue[c][i])] = Tokens(made[c])
                        /\ \A i \in (k + 1)..Len(queue[c]) : queue[c][i] = Sentinel
    BY DEF NothingLostInQueue
  <2>1. Agree(sent[c], queue[c], made[c])
    BY DEF Inv, CallInv, Streaming
  <2>2. QED
    <3>1. /\ sent[c] \in Seq(Events)
          /\ queue[c] \in Seq(0..MaxTokens)
          /\ made[c] \in 0..MaxTokens
          /\ MaxTokens \in Nat
      BY OfCall, PipelineAssumption DEF Inv
    <3>2. QED
      BY <2>1, <3>1, AgreeSplits
<1>2. QED
  BY Invariance, <1>1, PTL

(* run and its handler of a drain timeout: a call that was answered, or ended *)
(* by the task's cancellation, leaves no graph task running.                  *)
THEOREM NoTaskStays == Spec => []NoTaskLeftBehind
<1>1. Inv => NoTaskLeftBehind
  BY DEF Inv, CallInv, NoTaskLeftBehind, Over
<1>2. QED
  BY Invariance, <1>1, PTL

------------------------------------------------------------------------------
(* The pipeline implements TurnStream.  Each step of a call is one step of   *)
(* the abstract turn, or none: what the nodes before guidance do, the two    *)
(* sentinels and the join are invisible to the client.                       *)

LEMMA CompletionsAreNone ==
  ASSUME NEW r PROVE TurnComplete(r) # NoResult
<1>1. "intent" \in DOMAIN TurnComplete(r) /\ "intent" \notin DOMAIN NoResult
  BY DEF TurnComplete, NoResult
<1>2. QED
  BY <1>1

LEMMA StreamInit == Init => Stream!Init
<1> SUFFICES ASSUME Init PROVE Stream!Init
  OBVIOUS
<1>1. \A c \in Calls : Standing(rpc[c]) = "new" /\ Conclusion(result[c]) = NoResult
  BY DEF Init, Standing, Conclusion
<1>2. QED
  BY <1>1 DEF Init, Stream!Init, Stream!Pending, NoResult

\* A graph under way has a caller that is pulling, joining or gone, and no result.
LEMMA GraphUnderWay ==
  ASSUME Inv, NEW c \in Calls, node[c] \notin {"None", "ended"}
  PROVE  /\ Standing(rpc[c]) \in {"open", "cut"}
         /\ Conclusion(result[c]) = NoResult
<1>1. /\ rpc[c] \in {"Pulling", "Joining", "Cancelled", "Gone"}
      /\ result[c] = NoResult
  BY DEF Inv, TypeOK, CallInv
<1>2. QED
  BY <1>1 DEF Standing, Conclusion

LEMMA StandingKept ==
  ASSUME TypeOK, NEW c \in Calls, NEW r, rpc' = [rpc EXCEPT ![c] = r],
         Standing(r) = Standing(rpc[c])
  PROVE  \A d \in Calls : Standing(rpc'[d]) = Standing(rpc[d])
BY DEF TypeOK

\* A step that leaves the client's view alone.
LEMMA Invisible ==
  ASSUME \A d \in Calls : Standing(rpc'[d]) = Standing(rpc[d]),
         UNCHANGED <<made, result, sent>>
  PROVE  UNCHANGED Stream!vars
BY DEF Stream!vars

LEMMA Begins ==
  ASSUME Inv, NEW c \in Calls, RunPipeline(c)
  PROVE  Stream!Begin(c)
<1>1. rpc[c] = "Idle" /\ rpc' = [rpc EXCEPT ![c] = "Pulling"]
      /\ UNCHANGED <<made, result, sent>>
  BY DEF RunPipeline
<1>2. \A d \in Calls : Standing(rpc'[d]) = IF d = c THEN "open" ELSE Standing(rpc[d])
  BY <1>1 DEF Inv, TypeOK, Standing
<1>3. Standing(rpc[c]) = "new"
  BY <1>1 DEF Standing
<1>4. QED
  BY <1>1, <1>2, <1>3 DEF Stream!Begin

LEMMA Says ==
  ASSUME Inv, NEW c \in Calls, PutToken(c)
  PROVE  Stream!Say(c)
<1>1. /\ node[c] = "generate_guidance" /\ made[c] < MaxTokens
      /\ made' = [made EXCEPT ![c] = @ + 1]
      /\ UNCHANGED <<rpc, result, sent>>
  BY DEF PutToken, At
<1>2. Standing(rpc[c]) \in {"open", "cut"} /\ Conclusion(result[c]) = NoResult
  BY <1>1, GraphUnderWay
<1>3. QED
  BY <1>1, <1>2 DEF Stream!Say, Stream!UnderWay, Stream!Pending, NoResult

LEMMA Concludes ==
  ASSUME Inv, NEW c \in Calls, EndGraph(c)
  PROVE  Stream!Conclude(c)
<1>1. /\ node[c] \in EarlyNodes \cup {"returned"}
      /\ UNCHANGED <<rpc, made, sent>>
  BY DEF EndGraph, At
<1>2. Standing(rpc[c]) \in {"open", "cut"} /\ Conclusion(result[c]) = NoResult
  BY <1>1, GraphUnderWay DEF EarlyNodes
<1>3. PICK r \in Done : r.of = c /\ result' = [result EXCEPT ![c] = r]
  BY ResultsAreDone DEF EndGraph, Inv, TypeOK
<1>4. Conclusion(r) = TurnComplete(r) /\ TurnComplete(r).of = c
  BY <1>3 DEF Done, Conclusion, TurnComplete
<1>5. TurnComplete(r) \in Completions
  BY DEF Completions, Done
<1>6. \A d \in Calls : Conclusion(result'[d]) =
                         IF d = c THEN TurnComplete(r) ELSE Conclusion(result[d])
  BY <1>3, <1>4 DEF Inv, TypeOK
<1>7. QED
  BY <1>1, <1>2, <1>4, <1>5, <1>6
     DEF Stream!Conclude, Stream!UnderWay, Stream!Pending, NoResult

LEMMA Delivers ==
  ASSUME Inv, NEW c \in Calls, Pull(c), Head(queue[c]) # Sentinel
  PROVE  Stream!Deliver(c)
<1>1. /\ rpc[c] = "Pulling" /\ queue[c] # <<>>
      /\ sent' = [sent EXCEPT ![c] = Append(@, Token(Head(queue[c])))]
      /\ UNCHANGED <<rpc, made, result>>
  BY DEF Pull, graph
<1>2. Agree(sent[c], queue[c], made[c])
  BY <1>1 DEF Inv, CallInv, Streaming
<1>3. /\ Len(queue[c]) \in Nat /\ Len(queue[c]) >= 1 /\ Head(queue[c]) = queue[c][1]
      /\ Len(sent[c]) \in Nat /\ made[c] \in Nat
  BY <1>1, OfCall DEF Inv
<1>4. Head(queue[c]) = IF Len(sent[c]) + 1 <= made[c] THEN Len(sent[c]) + 1 ELSE Sentinel
  BY <1>2, <1>3 DEF Agree
<1>5. Len(sent[c]) < made[c] /\ Head(queue[c]) = Len(sent[c]) + 1
  BY <1>3, <1>4
<1>6. Standing(rpc[c]) = "open"
  BY <1>1 DEF Standing
<1>7. QED
  BY <1>1, <1>5, <1>6 DEF Stream!Deliver, Stream!Given, Token

LEMMA Completes ==
  ASSUME Inv, NEW c \in Calls, Join(c)
  PROVE  Stream!Complete(c)
<1>1. /\ rpc[c] = "Joining" /\ node[c] = "ended"
      /\ sent' = [sent EXCEPT ![c] = Append(@, TurnComplete(result[c]))]
      /\ rpc' = [rpc EXCEPT ![c] = "Completed"]
      /\ UNCHANGED <<made, result>>
  BY DEF Join, graph
<1>2. sent[c] = Tokens(made[c]) /\ result[c] # NoResult
  BY <1>1 DEF Inv, CallInv, Done
<1>3. Len(sent[c]) = made[c]
  BY <1>2, OfCall DEF Tokens, Inv
<1>4. Conclusion(result[c]) = TurnComplete(result[c]) /\ TurnComplete(result[c]) # NoResult
  BY <1>2, CompletionsAreNone DEF Conclusion
<1>5. Standing(rpc[c]) = "open"
  BY <1>1 DEF Standing
<1>6. \A d \in Calls : Standing(rpc'[d]) = IF d = c THEN "complete" ELSE Standing(rpc[d])
  BY <1>1 DEF Inv, TypeOK, Standing
<1>7. QED
  BY <1>1, <1>3, <1>4, <1>5, <1>6
     DEF Stream!Complete, Stream!Given, Stream!Pending, NoResult

LEMMA CutsOff ==
  ASSUME Inv, NEW c \in Calls, JoinCancelled(c) \/ ClientGone(c)
  PROVE  Stream!CutOff(c)
<1>1. /\ rpc[c] \in {"Pulling", "Joining"}
      /\ rpc' = [rpc EXCEPT ![c] = "Cancelled"] \/ rpc' = [rpc EXCEPT ![c] = "Gone"]
      /\ UNCHANGED <<made, result, sent>>
  BY DEF JoinCancelled, ClientGone, graph
<1>2. Standing(rpc[c]) = "open"
  BY <1>1 DEF Standing
<1>3. \A d \in Calls : Standing(rpc'[d]) = IF d = c THEN "cut" ELSE Standing(rpc[d])
  BY <1>1 DEF Inv, TypeOK, Standing
<1>4. QED
  BY <1>1, <1>2, <1>3 DEF Stream!CutOff

LEMMA CallStreams ==
  ASSUME Inv, NEW c \in Calls, StepOf(c)
  PROVE  [Stream!Next]_(Stream!vars)
<1>0. TypeOK
  BY DEF Inv
<1>1. CASE \/ ClassifyIntent(c) \/ ExtractEntities(c) \/ RetrieveContext(c)
           \/ AnalyzeGaps(c) \/ HandleRevisit(c) \/ EndStream(c)
  <2>1. UNCHANGED <<rpc, made, result, sent>>
    BY <1>0, <1>1, NodeSteps DEF GoOn
  <2>2. QED
    BY <2>1, Invisible
<1>2. CASE CloseStream(c) \/ GraphCancelled(c)
  BY <1>2, Invisible DEF CloseStream, GraphCancelled
<1>3. CASE RunPipeline(c)
  BY <1>3, Begins DEF Stream!Next
<1>4. CASE PutToken(c)
  BY <1>4, Says DEF Stream!Next
<1>5. CASE EndGraph(c)
  BY <1>5, Concludes DEF Stream!Next
<1>6. CASE Pull(c)
  <2>1. CASE Head(queue[c]) = Sentinel
    <3>1. rpc[c] = "Pulling" /\ rpc' = [rpc EXCEPT ![c] = "Joining"]
          /\ UNCHANGED <<made, result, sent>>
      BY <1>6, <2>1 DEF Pull, graph
    <3>2. QED
      BY <1>0, <3>1, StandingKept, Invisible DEF Standing
  <2>2. CASE Head(queue[c]) # Sentinel
    BY <1>6, <2>2, Delivers DEF Stream!Next
  <2>3. QED
    BY <2>1, <2>2
<1>7. CASE DrainTimeout(c)
  <2>1. rpc[c] = "Pulling" /\ rpc' = [rpc EXCEPT ![c] = "Joining"]
        /\ UNCHANGED <<made, result, sent>>
    BY <1>7 DEF DrainTimeout, Stalled, graph
  <2>2. QED
    BY <1>0, <2>1, StandingKept, Invisible DEF Standing
<1>8. CASE Join(c)
  BY <1>8, Completes DEF Stream!Next
<1>9. CASE JoinCancelled(c) \/ ClientGone(c)
  BY <1>9, CutsOff DEF Stream!Next
<1>10. QED
  BY <1>1, <1>2, <1>3, <1>4, <1>5, <1>6, <1>7, <1>8, <1>9
     DEF StepOf, GraphStep, CallStep

(* RunPipeline as ai_orchestration.proto promises it: every caller is sent   *)
(* the tokens of its own turn one by one and then, once and last, its own    *)
(* turn's complete event, or is cut off, for any number of calls over the    *)
(* one executor and any size of the token queue.                             *)
THEOREM PipelineImplementsStream == Spec => ImplementsStream
<1>1. Inv /\ [Next]_vars => [Stream!Next]_(Stream!vars)
  <2> SUFFICES ASSUME Inv, [Next]_vars PROVE [Stream!Next]_(Stream!vars)
    OBVIOUS
  <2>1. CASE Next
    BY <2>1, CallStreams DEF Next, StepOf
  <2>2. CASE UNCHANGED vars
    BY <2>2, Invisible DEF vars
  <2>3. QED
    BY <2>1, <2>2
<1>2. QED
  BY StreamInit, Invariance, <1>1, PTL DEF Spec, ImplementsStream, Stream!Spec
=============================================================================
