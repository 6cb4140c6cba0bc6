# Chitragupt: TLA+ models and proofs

Chitragupt conducts a requirements interview. A business analyst's project walks
through seven phases, from problem intake to sign-off; each message of the
analyst is one *turn*. Three services share the work:

    browser --HTTP/SSE--> api-gateway (Go)
                            |  GetSessionState / ApplyTurnResult / RequestTransition / RevisitPhase
                            +--gRPC--> state-machine (Rust): the session kernel
                            |  RunPipeline (token stream) / IngestDocument
                            +--gRPC--> ai-orchestration (Python): agents, ingestion

This directory holds TLA+ modules translated from the source under `src/`, TLC
configurations that check them on small instances, and theorems checked by
TLAPS. `PROJECT.json` is the machine-readable index: components, runs, mutated
forms, the source lines of every definition, hazards, findings and theorems.

## 1. Inventory

| Component | State | Operations | What is hard | What makes it correct |
|---|---|---|---|---|
| Session kernel (`state-machine/src/state`, `ac`, `gates`) | one `SessionState` per session | apply entities, apply criterion updates, evaluate criteria and gates, attempt a transition, revisit | long call sequences; three sources of "met" (explicit, field, waiver) | phases are earned, history is a trail, nothing captured is lost, readiness only goes with an explicit retraction |
| StateEngineService (`grpc/service.rs`) | in-memory map of sessions behind one RwLock | five RPCs | restart loses everything; unknown ids and phases | each RPC is atomic and answers what it did |
| API gateway (`internal/gateway`, clients) | none between requests; a snapshot and a result within one | ProcessTurn and pass-through endpoints | three RPCs per turn with other requests in between; deadlines; lost answers | applied turns count once; answers are honest |
| Pipeline execution (`executor.py`, `servicer.py`, `guidance_generator.py`) | per call: a token queue and a task; shared: `_last_result` | RunPipeline | two coroutines per call, a bounded queue, two sentinels, a drain timeout, cancellation | own result after own tokens; every call ends |
| Agent nodes (`agents/`) | the pipeline state of the turn | classify, extract, retrieve, analyze gaps, revisit | timeouts and defaults; judgements on an old snapshot | what is reported agrees with the kernel's own count, or a run shows where it does not |
| LLM budget, context, factory (`llm/`) | spend counter in Redis, a tracker and client slots per turn, a circuit breaker per process | load, record, stage, get, fallback | concurrent turns of a session on one counter; a stage looked at once; a Redis that answers or not | no update is lost; a turn stops at the limit |
| Document ingestion (`IngestDocument`, `ingestion/pipeline.py`, `db/repository.py`) | documents row, chunks, status key and event channel in Redis | accept, ingest in the background, report, search | duplicates; errors between four writes; a task nobody takes up again; shutdown and crash | indexed means searchable; one id per content; a pending row has a reason |
| Text extraction, chunker, embedder (`ingestion/`) | none between documents | extract pages, cut windows, embed in batches, zip | window arithmetic, dropped windows, batches paired by position | no words lost, exact overlap, every chunk its embedding, loops end |
| Database pool (`db/pool.py`) | module-level pool | init, get, close | check-then-await | one pool |
| Schema and search function (`migrations/`) | keys of the two tables | unique content, chunk references document, hybrid search | – | as for ingestion |
| Configuration, prompts, deployment, documents | – | – | – | – |

The components interact by RPC only, apart from what is shared inside the AI
service (the executor with its last result, the database pool, the circuit
breaker) and what turns and ingestions share outside it: the two tables, and in
Redis the spend counter, the status keys and the event channel. The gateway
calls the kernel before and after the pipeline of a turn; nothing locks a
session across the three calls.

## 2. Modules

| Module | Models | Kind |
|---|---|---|
| `SessionKernel` | phases, session record, the effect of a turn, criteria S1–S6, gates, attempt, revisit | operators |
| `StateEngine` | StateEngineService: one action per RPC, `Restart`, `HostWrites` | state machine |
| `SignOffJourney` | what the kernel promises about a project, in three variables | abstract specification |
| `StateEngineRefinement` | the mapping from `StateEngine` to `SignOffJourney` | refinement |
| `TurnLoop` | the loops of ApplyTurnResult, one iteration at a time | state machine |
| `TurnPipeline` | concurrent RunPipeline calls: call coroutine, graph task, queue, shared executor | state machine |
| `TurnStream` | what a caller of RunPipeline is promised: the tokens of its turn, then its conclusion, once | abstract specification |
| `TurnPipelineRefinement` | the mapping from `TurnPipeline` to `TurnStream` | refinement |
| `TurnAgents` | what the agent nodes make of a snapshot and a message | operators |
| `TurnFlow` | ProcessTurn across the three services; extends `StateEngine` and `TurnAgents` | composition |
| `Ingestion` | uploads, their tasks, the two tables, Redis, the process, retrieval | state machine |
| `DocumentShelf` | what ingestion promises to whoever asks the documents | abstract specification |
| `IngestionRefinement` | the mapping from `Ingestion` to `DocumentShelf` | refinement |
| `DocumentChunks` | the loops of one ingestion: extraction, windows, embedding batches | state machine |
| `LLMBudget` | the turns of one session against its budget | state machine |
| `SpendingLedger` | what the counter promises: costs posted once or not at all, by turns that saw less than the limit | abstract specification |
| `LLMBudgetRefinement` | the mapping from `LLMBudget` to `SpendingLedger` | refinement |
| `…Proofs` | theorems about `StateEngine`, its refinement (`JourneyProofs`), `TurnLoop`, `TurnPipeline`, `Ingestion` and `LLMBudget` with theirs, `TurnFlow`, `DocumentChunks` | proofs |
| `MC…` | messages, turns, documents and symmetry for TLC | instances |

### State and actions against the code

*Session record.* A field of which the code asks only whether it is set or
non-empty is a member of `fields`. Actors, requirements and constraints are
counted by the class that keywords in their text give them (`captured`), since
they are pushed without de-duplication and only ever counted. Assumptions and
open questions are de-duplicated by the code, so they are sets. `ac_met` and
`ac_waived` are vectors with no duplicates in the code, sets here.
`regulatory_context` has three values because a criterion asks for `Some(_)` and
the gate for a non-empty text. `upload_gates_*`, ids and timestamps are read by
nothing and left out. The cost is a natural number; floating-point rounding is
not modelled. The counter `turn_count` is unbounded in the model.

*StateEngine.* Every mutating handler holds the write lock from lookup to
answer, so each RPC is one action, with its refusals (unparsable phase before
unknown session, as in the code). `Restart` empties the map: nothing is
persisted. `HostWrites` is a program that links the crate and writes public
fields, as the crate's own tests do (`tests/transition_engine.rs:230`): no RPC
writes `fields`, `regulatory_context` or a waiver. With the three `Host...`
constants empty the module is the service as deployed. A waiver only enters the
model this way.

*TurnLoop.* `ApplyTurn` is the closed form of two loops and two additions;
`TurnLoop` runs the loops and compares at every iteration.

*TurnPipeline.* A step is what a coroutine does between two awaits that may
suspend it. `_run_with_timeout` gives each node a second alternative, its
default. `PutToken` and `CloseStream` wait for room, `SafetyNet` is the finally
block that does not. The stream can fail after any number of tokens, the graph
can raise between nodes, a client can go away at any point. When the drain
timeout fires the guidance node is the only one that can be running: the four
nodes before it are bounded by their own timeouts (6.3 s together,
`config/orchestration.yaml`) against the drain's 25 s, so `Stalled` names that
node. Awaits that the code's own timeouts bound are not given clocks.

*TurnAgents, TurnFlow.* `PostTurn` reads the snapshot, `PipelineDone` chooses one
of the outcomes the agents can produce *from that snapshot*, `ApplyAnswered` and
`ApplyUnanswered` hand it to the kernel, whose state may have changed. A lost
answer is two cases: the kernel took the turn in, or not. The extractor either
finds what the message mentions or fails. The gap is the deterministic
fallback's; a gap worded by the language model is checked against nothing and
could say anything, so it is not given a choice. `cost` is 0, because nothing in
the service calls `BudgetTracker.record`.

*Ingestion.* A step is one awaited call with its answer: `CreateDocument` of the
RPC, then `SetIngesting` to `PublishIndexed` of the task, `MarkFailed` and
`SetFailed` of its except block. Each may raise with its effect taken or not,
as a call over a network may. An error before the task's try block ends the
task without a report (`died`), as does one in the except block; `Exit` loses
every task, since nothing starts them again. `Inserted` is the unique key with ON
CONFLICT DO NOTHING, `Storable` the foreign key, which is why the second upload
of a content fails in the background under its own id. `Shutdown` and `Exit` are
separate steps because the server waits for its calls and not for its tasks.
`noted` stands for the session's `documents_indexed`, which decides whether a
turn searches; only a host writes it. A content is what its hash says, and a
document id stands for one content. `hybrid_search` is the set of documents it
ranges over; its scores and its limits of 50 and 20 rows are left out.

*DocumentChunks.* A text is its number of words and a window an interval of
them. `ExtractPage`, `ExtractHeading` and `ExtractParagraph` are the bodies of the
processor's loops, `Window` and `SkipPage` those of the chunker, `EmbedBatch` that
of the embedder; `Records` is the zip. The titles of headings are not part of the
page's text, as in the code. A missing `pypdf` or `python-docx` makes the whole
file one page, which is the kind `text`.

*LLMBudget.* `ForTurn` loads the counter or starts from 0, `Get` and `Refused` are
`get` with the stage at that moment, `Record` and `Persist` the two halves of
`record()`, with an await between them. As deployed no node calls `record()` and
nothing calls `mark_degraded()`: the model takes nodes to do what the tracker's
unit tests do. Then the counter is the sum of what was persisted.

## 3. Runs

Passing runs. The bounds are those of the cfg; each property also has a mutated
form of the code (`PROJECT.json`, "mutants") that the same run refutes.

| Run | Bounds | Shows |
|---|---|---|
| `engine_embedded` | 1 session, 3 different turns, 2 turns counted, 2 revisits, all three artifacts host-written | `TypeOK`; `AdvanceNeedsArtifacts`: a session stands off its base phase only with the artifacts; `SignedOffHasArtifacts`; `AuditTrail`; `NothingForgotten`; `ImplementsJourney` |
| `engine_ungated` | 1 session, 3 turns counted, 1 revisit, documents, problem statement, regulated context and two waivers host-written, no artifact | `NoAdvanceWithoutHost`: no transition is ever approved; `ReadinessIsSticky`: only an update to unmet takes readiness away |
| `turn_loop` | every list of up to 2 of 4 entities and up to 3 of 4 updates, three starting sessions | `LoopsAgree` |
| `pipeline` | 2 calls, queue of 1, up to 2 tokens | `TypeOK` with the queue bound; `CompleteIsOwn`; `NothingLostInQueue`; `NoTaskLeftBehind`; `ImplementsStream`; `EveryCallEnds` |
| `flow_turns` | 2 requests with one of two messages each on 1 session, 1 revisit | `EveryAppliedTurnOnce`; `MetIsEvidenced`: what the extractor reports of StakeholderDiscovery the kernel's own count bears out; `AnswersAreHonest`; `OnlyConstraintsComplete`: of what is said, only the constraints complete their phase; `CompleteStaysComplete`: no turn takes readiness away |
| `ingestion` | 2 uploads, 3 document ids, two of one content and one of a blank one | `TypeOK` with the foreign key; `IndexedIsSearchable`; `AnnouncedIsFound`; `OneIdPerContent`; `PendingIsExplained`; `SettledAgree`; `ImplementsShelf`; `EveryUploadEnds` |
| `chunker` | windows of 4 words, overlap 1, minimum 3, batches of 2; every pdf of up to 3 pages of 0 to 8 words, text of up to 13 words, docx of up to 4 paragraphs and headings | `TypeOK` with windows inside pages; `EnoughCovered`; `OverlapIsExact`; `SomethingKept`; `UnderItsHeading`; `EveryChunkEmbedded`; `LoopsAdvance`: every step takes its loop on towards a bound; `Ends` |
| `llm_budget` | 2 turns, symmetric, limit 4, costs up to 2, counter at 0, 3 or 4 at first | `TypeOK`; `NeverOverstates`; `TurnStopsAtLimit`; `ImplementsLedger` |

Why these bounds are enough to be interesting: two of the three turns meet every
numbered criterion between them, so sign-off, a revisit from it and a second
sign-off are all reached within two turns and two revisits; the third retracts a
criterion and meets a waived one. A queue of one token, shorter than the guidance of
two, makes the guidance node block, and makes the second sentinel find the queue
full; longer queues and guidance are left to the theorems. Two
requests are what is needed for a turn to be applied between another's snapshot
and its result. Both messages carry an actor, half of what the extractor
counts for the requirements' criterion and the four constraints; one has the assumption of the fifth
criterion too and the other may ask to go back. So ConstraintCapture is
completed by the first turn, by the second or not at all, and the two reports
that count are made only when both turns are in. Two uploads are what is needed
to race for a content's row, with the same id (a repeated upload) and with
different ones (the foreign key bites); the blank content takes the path without
chunks. With windows of 4 words and a minimum of 3, pages occur that end in a
dropped window, in a short first one and exactly at a window's end, and the
minimum exceeds the overlap by 2, so that words are really lost and
`EnoughCovered` says which. A limit of 4 over stages at 2 and 3 with costs of up
to 2 lets a call step over a stage and over the limit. Calls of different
sessions share nothing in the kernel, so one session suffices there; calls of
the pipeline share the executor, so two are used.

Deadlock is checked in the engine, flow and ingestion runs (restart is always
possible there, so it says little) and not in the pipeline, loop, chunker and
budget runs, whose instances have finitely much to do and really stop.

Runs that must find a violation state what the repository says and the code does
not do:

| Run | The repository says | The code |
|---|---|---|
| `flow_revisit` | "the system re-enters that phase" (`docs/sprints/sprint1/README.md:111`) | ProcessTurn never calls RevisitPhase |
| `flow_terminal` | terminal means all criteria are met (`gap_analyzer.py:10`) | the fallback table lacks phases 5 and 6, and there every gap is terminal |
| `flow_proxy` | "rough proxy; Rust will count precisely" (`entity_extractor.py:134`); the signals are "merged, not overriding" (`entity_extractor.py:102`) | a report from a count of all requirements meets the criterion of five functional ones, for a reported criterion is met whatever the kernel counts (`ac/result.rs:53`) |
| `ingest_retrieval` | an uploaded document "is indexed and retrievable within the same session" (`docs/sprints/sprint1/README.md:155`) | retrieval is skipped while `documents_indexed` is empty, and no code writes it (`rag_retrieval.py:64`) |

### Disagreements without a run of their own

Kernel and turns, visible in the definitions:

- The BRD gate is said to guard Review → Signed Off (`gates/manager.rs:30`); every
  gate is evaluated for every transition (`transition.rs:31`). No RPC writes an
  artifact, so that the deployed service approves no transition: this is
  `NoAdvanceWithoutHost`, proved as `DeployedNeverAdvances`.
- "or confirm an explicit waiver" (`gates/manager.rs:71`): no waiver closes a gate
  (`OpenHardGates`).
- The servicer "sends a static error message" for an aborted turn
  (`executor.py:80`): it sends a TurnComplete, which the gateway applies.
  `transition_ready` of that message ignores the aborted flag, which
  `executor.py:65` does not.
- A session "can move from Problem Intake all the way to a confirmed requirements
  list through conversation alone" (`docs/sprints/sprint1/README.md:153`). It cannot:
  no RPC writes what the criteria of the first phases ask for, nor the artifacts the
  gates ask for. No single behaviour refutes that something can happen; what does is
  that `OnlyConstraintsComplete` and `NoAdvanceWithoutHost` hold, checked in
  `flow_turns` and `engine_ungated` and proved as `TalkCompletesConstraintsOnly` and
  `ProductNeverAdvances`. They state what the code does, against the document.
- A revisit may jump forward although it is described as re-entering a prior phase
  (`transition.rs:65`, `CanRevisit`).
- The drain loop may end before the graph has, against the comment at
  `executor.py:216`, which the await after it makes harmless (`CloseStream`, `Join`).
- Repeated actors, requirements and constraints are stored again, against
  T-STATE-14 of `docs/sprints/sprint1/TEST_PLAN.md:115` (`ApplyEntity`).

Ingestion:

- Row and chunks are said to be written in one transaction (DATABASE.md, 1.1); they
  are two, and a Redis failure after the second write turns the row to failed with
  its chunks stored and searched.
- Failures are said to be written always (LLM_ORCHESTRATION.md:271); the except
  block's own calls may fail, which leaves the row pending.
- A second upload of a content is accepted under an id that gets no row
  (`get_by_hash` is never called); its ingestion then fails on the foreign key, or,
  when it is blank, is announced as indexed without a row. Repeated under the same
  id, it stores its chunks a second time. A content whose first upload crashed
  keeps its pending row.
- Chunks under the minimum are "merged with neighbours" according to
  `orchestration.yaml`; the chunker drops them, pages shorter than the minimum
  included once a chunk exists (`Keep`).
- The configured embedding model and the vector column have different dimensions;
  storing would raise as configured. The model's success of `InsertChunks` takes a
  column that fits.

Budget:

- "Degradation rules … override these at runtime" (`orchestration.yaml:63`): the
  guidance node picks its tier from `function_map` itself
  (`guidance_generator.py:78`), so no rule reaches it.
- `cost_usd` of a turn is the tracker's total so far, `spent_usd`
  (`executor.py:262`), not the turn's cost.
- A counter that cannot be loaded counts as 0, so concurrent turns may exceed the
  cap together; `TurnStopsAtLimit` is about each turn's own view.
- A provider whose fallback is `google` raises NotImplementedError (`Wired`).

### Fairness

`pipeline` checks `EveryCallEnds`. Its `FairSpec` assumes weak fairness
of the graph task (without `PutToken` and `EndStream`) and of the call.
The event loop runs every coroutine whose await is over, and a node before
guidance is cut off by its own timeout and takes its default, so it goes on in
any case. Nothing is assumed of the language model: the guidance stream may
never produce a token or end, since the code gives it no timeout. It is the
drain timeout (`asyncio.wait_for` in the call, hence fair) that ends such a call.
A stream that produces tokens for ever is excluded by `MaxTokens`, as
`max_tokens=1024` does in the code.

`ingestion` checks `EveryUploadEnds` under weak fairness of each upload's own
steps: an awaited call of database, Redis or embedding service answers or
raises, and the event loop resumes the coroutine. The database pool sets a
command timeout; the other clients rely on their libraries' defaults. Nothing is
assumed of `Start`, `Exit` or the client, so the uploads end with the process too.
`chunker` checks `Ends` under weak fairness of the loops as a whole: they run to
their end once they run. Both fail in a mutated form that loops.

## 4. Proofs

All theorems hold for every value of the constants that the module's named
assumption allows, and the assumptions say no more than the types the code gives
its parameters, with the exceptions named below. "Property" is the definition a
run checks on a small instance.

| Module | Theorem | Property |
|---|---|---|
| `StateEngineProofs` | `TypeCorrect` | `TypeOK` |
| | `ArtifactsBeforeAdvance` | `AdvanceNeedsArtifacts` |
| | `ArtifactsBeforeSignOff` | `SignedOffHasArtifacts` |
| | `HistoryIsAudit` | `AuditTrail` |
| | `DeployedNeverAdvances` | `NoAdvanceWithoutHost` |
| | `NothingIsForgotten` | `NothingForgotten` |
| | `ReadinessStays` | `ReadinessIsSticky` |
| `JourneyProofs` | `EngineImplementsJourney` | `ImplementsJourney` |
| | `ProductImplementsJourney` | `ImplementsJourney`, of the three services together |
| `TurnLoopProofs` | `LoopsComputeTurn` | `LoopsAgree` |
| `TurnPipelineProofs` | `TypeCorrect` | `TypeOK` |
| | `TurnsCompleteOwn` | `CompleteIsOwn` |
| | `NothingIsLost` | `NothingLostInQueue` |
| | `NoTaskStays` | `NoTaskLeftBehind` |
| | `PipelineImplementsStream` | `ImplementsStream` |
| `TurnFlowProofs` | `TurnsAreAppliedOnce` | `EveryAppliedTurnOnce` |
| | `ReportsAreEvidenced` | `MetIsEvidenced` |
| | `AnswersCanBeTrusted` | `AnswersAreHonest` |
| | `ProductHistoryIsAudit` | `AuditTrail` |
| | `ProductNeverAdvances` | `NoAdvanceWithoutHost` |
| | `ProductForgetsNothing` | `NothingForgotten` |
| | `ProductReadinessStays` | `CompleteStaysComplete` |
| | `TalkCompletesConstraintsOnly` | `OnlyConstraintsComplete` |
| `IngestionProofs` | `TypeCorrect` | `TypeOK` |
| | `IndexedDocumentsAreSearchable` | `IndexedIsSearchable` |
| | `AnnouncedDocumentsAreFound` | `AnnouncedIsFound` |
| | `ContentsHaveOneId` | `OneIdPerContent` |
| | `PendingRowsAreExplained` | `PendingIsExplained` |
| | `SettledUploadsAgree` | `SettledAgree` |
| | `IngestionImplementsShelf` | `ImplementsShelf` |
| `DocumentChunksProofs` | `TypeCorrect` | `TypeOK` |
| | `EnoughIsCovered` | `EnoughCovered` |
| | `NoWordIsLost` | – (with `MinTokens <= Overlap + 1`, as shipped, nothing is lost) |
| | `OverlapsAreExact` | `OverlapIsExact` |
| | `WordsLeaveAChunk` | `SomethingKept` |
| | `ParagraphsKeepTheirHeading` | `UnderItsHeading` |
| | `ChunksAreEmbedded` | `EveryChunkEmbedded` |
| | `EveryLoopAdvances` | `LoopsAdvance` |
| `LLMBudgetProofs` | `TypeCorrect` | `TypeOK` |
| | `NothingOverstated` | `NeverOverstates` |
| | `StopsAtLimit` | `TurnStopsAtLimit` |
| | `BudgetImplementsLedger` | `ImplementsLedger` |

Assumptions beyond types: `ChunkAssumption` wants `Overlap < Size` and
`MinTokens <= Size`. Both hold of the shipped 512, 64 and 50 and neither is
validated by the code; with an overlap of the size or more the window loop never
ends. Under these two assumptions `EveryLoopAdvances` excludes that for every document.
`BudgetAssumption` orders the three thresholds as the constants of
`budget.py` do. `EngineAssumption` lets a host set a regulatory context, never
clear it.

### The arguments

*State engine.* `StepOfSession` reduces every action to what it does to one
session record: unchanged, dropped or fresh, a turn applied, advanced after an
approved attempt, revisited, or host-written. Lemmas about the operators
(`ApplyTurnFacts`, `AdvanceFacts`, `RevisitFacts`, `HostWriteFacts`) say what each
of these keeps. The inductive invariant is `TypeOK /\ Inv`, where `Inv` says of
every session that it has earned its phase since its base, that its history is
audited and that its fields are ones the host writes.

- `SignedOffHasArtifacts` is not inductive: a session in review could be advanced
  from any state. It follows from `AdvanceNeedsArtifacts` and the fact that no
  revisit goes to SignedOff, so a signed-off session is never at its base.
- `AuditTrail` needs the trail itself: that the current phase ranks no lower than
  the base, which a step forward keeps and a revisit turns into the next
  element's obligation.
- `NoAdvanceWithoutHost` needs that the fields of a session are among those the
  host writes, which no RPC changes.
- `ReadinessIsSticky` rests on two facts. What fields say only grows
  (`FieldMetGrows`; the one field check that reads a waiver is an optional
  criterion's). And a turn without an update of a criterion to unmet keeps it met
  or waived (`TurnKeepsMet`): an update to met cancels the waiver and, if all
  updates of the criterion meet it, the last one does (`LastMention`, from the
  well-foundedness of the naturals).

*Journey.* A step of the service is a step of `SignOffJourney` or a stutter
(`StepIsJourneyStep`): creation opens a project, a turn or a host write is work on
it, an approved attempt moves it on, a revisit sends it elsewhere, a restart
loses all. `SameReadiness` says that phase and history play no part in readiness,
`NothingReadyAtFirst` that a fresh session has no complete stage.

*Turn loop.* The invariant is the property with the loop variables' types. What
one more entity or update does to the closed form (`OneMoreCounted`,
`OneMoreValued`, `OneMoreUpdate`) is what the loop body does to the session
(`EntityIteration`, `UpdateIteration`).

*Pipeline.* The invariant of a call (`CallInv`) says where its two coroutines can
be together, and that sent events, queue and number of tokens agree (`Agree`). As
long as the guidance node has not returned there are only tokens in the queue
(`TokensOnly`); a call leaves its drain loop without cancelling only after the
sentinel, and then the sent events are all the tokens. The shared last result is
read in the step that wrote it, so it needs no place in the invariant.

*Stream.* The same invariant carries the mapping to `TurnStream`: a token put on
the queue is said, the end of the graph concludes the turn, a token pulled is
delivered, the answer after the join completes it, and all else about tasks,
sentinels and cancelling is a stutter. It needs that a task whose node has not
ended has no result yet, so that no turn concludes twice.

*Flow.* `FlowInv` adds to the kernel's `TypeOK`, per request, that what was told
and what was applied agree (`PostOK`), and that the session still holds all that
the request's snapshot held (`Holds`), for sessions only grow and an id is never
given out twice; per session, that its counters are the cardinalities of what
the applied requests mention (`Counted`), and that the criteria of
StakeholderDiscovery, once reported, are borne out by what the session holds
(`Evident`, which `EvidenceMeets` turns into the kernel's own check). A result in flight is supported by its
snapshot and its own entities, and both are in the session once it is applied,
however old the snapshot.

*The product.* Every step of the three services is, for the kernel, one of its
own (`FlowStepIsKernelStep`): what reaches ApplyTurnResult is a turn the kernel
takes from any caller (`SpokenTurns` within `TurnResults`), only computed from an
old snapshot. The lemmas about the kernel are stated for a step with turns from
any such set, `KernelStep(T)`, and so serve `StateEngine` and `TurnFlow` alike:
its results hold of the product, the journey included. What `SpokenTurns` leaves
out is what a turn of this AI service cannot do. It reports met, never unmet,
hence `CompleteStaysComplete`; and it reports three criteria only, while no RPC
writes a field, hence `Talk`, the invariant of `TalkCompletesConstraintsOnly`: of
every session, no field is set, nothing is waived and no other criterion was
reported. `UnmetWithoutFields` names a mandatory criterion of every other
phase that this leaves unmet.

*Ingestion.* `Tables`: a content has one row, and a task's content has one, so an
insert that is skipped is skipped for a reason. `Reported`: a task past the
storing, a row or an event that says "indexed" has its chunks stored, and chunks
are never deleted. `RowSettled`: a task settles the row before it speaks to Redis.
`Heard`: what a search knows to be announced was announced. `SoleUpload`: where
the only upload of a document stands says what its row and its key say (`Told`);
a second upload of the document takes the promise away, and with it the case.

*Shelf.* Of the invariant the mapping to `DocumentShelf` needs that a settled row
was listed, which is what the foreign key and the order of the writes give, that
"indexed" is said of what is stored, and that a search started after an
announcement finds the document; errors with effect map to the step they had the
effect of, shutdown and crash to an unanswered question or to a stutter.

*Chunks.* `Position` says where the next window of the page starts: overlap words
before the end of the last, which was kept if it was the first or long enough.
From this follow the covered words and the exact overlap. `Headed`: while a docx
is read, every paragraph so far is in the buffer, under the current title, or on
one page under its own; the buffer is flushed before the title changes. In
`LoopsAdvance` a window starts later than the one before it since `Overlap < Size`
and a window that does not end its page is a full one. The property says of each
loop that it runs out; `Ends`, that it is therefore over some time, is TLC's.

*Budget.* `TurnInv`: a context's slots belong to the nodes passed (`Earlier`),
so that no node finds its own slot filled, the budget is looked at before every
call, and a call starts below the limit.

*Ledger.* `for_turn` begins a turn's view, `Record` owes a cost and `Persist`
posts it, forgets it or, had it been nothing, stutters; everything about nodes,
slots and the breaker is a stutter. That a turn which owes has seen less than
the limit is the invariant's.

### Only model-checked

The liveness properties `EveryCallEnds`, `EveryUploadEnds` and `Ends`: fairness and
ENABLED are beyond the prover. The properties of the violation runs are refuted,
not proved. Conversely `ImplementsJourney` of `TurnFlow` is proved and belongs to
no run: what a run of it could show, that the mapping can be broken by the kernel's
code, `engine_embedded` shows.

## 5. Not modelled

Wording, prompts, JSON and SSE encoding, logging; what a language model answers
(a free choice); ranking of search results; clocks (a timeout may fire when the
code could be waiting that long); floating-point cost; authentication, the
parsing of configuration, deployment. What pypdf and python-docx find in a file,
the PII scrub and the embedding service are outside. The budget counter's expiry
after seven days, the number of database connections and the second schema under
`services/db` are left out. `init_pool`'s check-then-await is reached only by the
start-up, before any call, so it cannot race as deployed.

## 6. Plan

The order was: kernel and service, their abstract specification, turn loop,
pipeline, composition of a turn, ingestion, chunker, budget; then the proofs.
Every safety and action property that a passing run checks is now also a theorem,
and the four abstract specifications (journey, stream, shelf, ledger) are
implemented by proof. What is left is `TurnFlow` composed with `Ingestion`, should
the services come to write `documents_indexed`, and with `LLMBudget`, should nodes
come to record costs. As deployed the parts share nothing that such a module could
be about.
