------------------------------ MODULE Ingestion ------------------------------
(***************************************************************************)
(* A document's way into retrieval.  The gateway's UploadDocument calls    *)
(* IngestDocument, which writes a row of `documents' and starts            *)
(* IngestionPipeline.run as a task of the process; the task stores the     *)
(* chunks, and reports to the row, to a status key in Redis and on a Redis *)
(* channel.  RAGRetrievalNode searches the stored chunks.                  *)
(*                                                                         *)
(* A step is one awaited call with its answer, which may be an error with  *)
(* the effect taken or not.  Uploads run interleaved on one event loop;    *)
(* database and Redis outlive the process.  One workspace and one project. *)
(***************************************************************************)
EXTENDS Naturals, FiniteSets

CONSTANTS Requests,       \* the uploads posted
          Docs,           \* document ids, generated by the client
          Contents,       \* a content stands for (file_hash, project_id)
          Content,        \* of a document id: a new content has a new id
          Blank,          \* the contents that give no chunk
          HostNotes       \* someone writes the session's documents_indexed

ASSUME IngestionAssumption ==
  /\ Content \in [Docs -> Contents]
  /\ HostNotes \in BOOLEAN

VARIABLES
  process,      \* the orchestration process
  at,           \* the call an upload awaits, or how it ended
  doc,          \* its document
  rows,         \* documents.status
  stored,       \* document_chunks: which upload stored chunks of which document
  cache,        \* the status key in Redis
  announced,    \* the documents an "indexed" event was published for
  noted,        \* the session's documents_indexed is not empty
  turn          \* the last retrieval

vars == <<process, at, doc, rows, stored, cache, announced, noted, turn>>
tables == <<rows, stored>>
redis == <<cache, announced>>
asking == <<noted, turn>>

------------------------------------------------------------------------------
Statuses == {"none", "pending", "indexed", "failed"}

\* Awaits of the RPC and of the task it starts.
Running == {"creating", "starting", "extracting", "storing", "marking", "caching",
            "publishing", "failing", "reporting"}

\* Refused with no row, answered with an error, run to the end, ended by an
\* exception of its handler, or lost with the process.
Ended == {"refused", "broken", "finished", "died", "lost"}

NoTurn == [at |-> "none", known |-> {}, ranked |-> {}]

Init ==
  /\ process = "up"
  /\ at = [r \in Requests |-> "new"]
  /\ doc \in [Requests -> Docs]
  /\ rows = [d \in Docs |-> "none"]
  /\ stored = {}
  /\ cache = [d \in Docs |-> "none"]
  /\ announced = {}
  /\ noted = FALSE
  /\ turn = NoTurn

Goes(r, from, to) == at[r] = from /\ at' = [at EXCEPT ![r] = to]

\* A bad id, an empty file, or no server to answer.
Refuse(r) ==
  /\ Goes(r, "new", "refused")
  /\ UNCHANGED <<process, doc, tables, redis, asking>>

UploadDocument(r) ==
  /\ process = "up"
  /\ Goes(r, "new", "creating")
  /\ UNCHANGED <<process, doc, tables, redis, asking>>

\* Mutated form: no unique key.
InsertedTwice(d) == [rows EXCEPT ![d] = "pending"]

\* UNIQUE (file_hash, project_id), ON CONFLICT DO NOTHING.
Inserted(d) ==
  IF \E e \in Docs : rows[e] # "none" /\ Content[e] = Content[d]
  THEN rows ELSE [rows EXCEPT ![d] = "pending"]

\* The upload is accepted whether a row was inserted or not.
CreateDocument(r) ==
  /\ \/ Goes(r, "creating", "starting") /\ rows' = Inserted(doc[r])
     \/ Goes(r, "creating", "broken") /\ rows' \in {rows, Inserted(doc[r])}
  /\ UNCHANGED <<process, doc, stored, redis, asking>>

------------------------------------------------------------------------------
(* IngestionPipeline.run *)

Cached(d, status) == [cache EXCEPT ![d] = status]

\* Before the try block: an error here is nobody's.
SetIngesting(r) ==
  /\ \/ Goes(r, "starting", "extracting") /\ cache' = Cached(doc[r], "ingesting")
     \/ Goes(r, "starting", "died") /\ cache' \in {cache, Cached(doc[r], "ingesting")}
  /\ UNCHANGED <<process, doc, tables, announced, asking>>

\* Mutated form: a failure to embed leaves no chunk and no error.
ExtractAndEmbedSilently(r) ==
  /\ Goes(r, "extracting", "storing") \/ Goes(r, "extracting", "marking")
  /\ UNCHANGED <<process, doc, tables, redis, asking>>

\* process, chunk and embed_texts.  Without chunks there is nothing to store.
ExtractAndEmbed(r) ==
  /\ \/ Goes(r, "extracting", "storing") /\ Content[doc[r]] \notin Blank
     \/ Goes(r, "extracting", "marking") /\ Content[doc[r]] \in Blank
     \/ Goes(r, "extracting", "failing")
  /\ UNCHANGED <<process, doc, tables, redis, asking>>

\* Mutated form: chunks without a row, as if document_id referenced nothing.
StorableAlways(d) == TRUE

\* document_chunks.document_id REFERENCES documents.
Storable(d) == rows[d] # "none"

\* Mutated form: a failure to store is swallowed.
InsertChunksLeniently(r) ==
  /\ Goes(r, "storing", "marking")
  /\ stored' \in {stored, stored \cup {[by |-> r, of |-> doc[r]]}}
  /\ UNCHANGED <<process, doc, rows, redis, asking>>

\* executemany is one transaction; chunk ids are new in every run.
InsertChunks(r) ==
  /\ \/ /\ Goes(r, "storing", "marking")
        /\ Storable(doc[r])
        /\ stored' = stored \cup {[by |-> r, of |-> doc[r]]}
     \/ /\ Goes(r, "storing", "failing")
        /\ \/ stored' = stored
           \/ Storable(doc[r]) /\ stored' = stored \cup {[by |-> r, of |-> doc[r]]}
  /\ UNCHANGED <<process, doc, rows, redis, asking>>

Updated(d, status) == IF rows[d] = "none" THEN rows ELSE [rows EXCEPT ![d] = status]

MarkIndexed(r) ==
  /\ \/ Goes(r, "marking", "caching") /\ rows' = Updated(doc[r], "indexed")
     \/ Goes(r, "marking", "failing") /\ rows' \in {rows, Updated(doc[r], "indexed")}
  /\ UNCHANGED <<process, doc, stored, redis, asking>>

SetIndexed(r) ==
  /\ \/ Goes(r, "caching", "publishing") /\ cache' = Cached(doc[r], "indexed")
     \/ Goes(r, "caching", "failing") /\ cache' \in {cache, Cached(doc[r], "indexed")}
  /\ UNCHANGED <<process, doc, tables, announced, asking>>

PublishIndexed(r) ==
  /\ \/ Goes(r, "publishing", "finished") /\ announced' = announced \cup {doc[r]}
     \/ /\ Goes(r, "publishing", "failing")
        /\ announced' \in {announced, announced \cup {doc[r]}}
  /\ UNCHANGED <<process, doc, tables, cache, asking>>

\* Mutated form: only Redis hears of a failure.
MarkFailedNot(r) ==
  /\ Goes(r, "failing", "reporting")
  /\ UNCHANGED <<process, doc, tables, redis, asking>>

\* Mutated form: a failed ingestion starts again.
MarkFailedRetried(r) ==
  /\ Goes(r, "failing", "starting")
  /\ UNCHANGED <<process, doc, tables, redis, asking>>

\* The except block, which has none of its own.
MarkFailed(r) ==
  /\ \/ Goes(r, "failing", "reporting") /\ rows' = Updated(doc[r], "failed")
     \/ Goes(r, "failing", "died") /\ rows' \in {rows, Updated(doc[r], "failed")}
  /\ UNCHANGED <<process, doc, stored, redis, asking>>

\* Mutated form: only the database hears of a failure.
SetFailedNot(r) ==
  /\ Goes(r, "reporting", "finished")
  /\ UNCHANGED <<process, doc, tables, redis, asking>>

SetFailed(r) ==
  /\ \/ Goes(r, "reporting", "finished") /\ cache' = Cached(doc[r], "failed")
     \/ Goes(r, "reporting", "died") /\ cache' \in {cache, Cached(doc[r], "failed")}
  /\ UNCHANGED <<process, doc, tables, announced, asking>>

------------------------------------------------------------------------------
(* RAGRetrievalNode *)

\* Of a search that is under way, `known' are the documents announced before it.
Retrieve ==
  /\ process # "down"
  /\ turn.at # "asking"
  /\ turn' = [at |-> IF noted THEN "asking" ELSE "skipped", known |-> announced, ranked |-> {}]
  /\ UNCHANGED <<process, at, doc, tables, redis, noted>>

\* hybrid_search ranks the chunks of the project, whatever their rows say.
HybridSearch ==
  /\ turn.at = "asking"
  /\ turn' \in {[turn EXCEPT !.at = "searched", !.ranked = {s.of : s \in stored}],
                [turn EXCEPT !.at = "failed"]}
  /\ UNCHANGED <<process, at, doc, tables, redis, noted>>

NoteIndexed ==
  /\ HostNotes
  /\ ~noted
  /\ noted' = TRUE
  /\ UNCHANGED <<process, at, doc, tables, redis, turn>>

------------------------------------------------------------------------------
(* The process *)

\* SIGTERM: the server takes no new call and waits for the old ones; of the
\* tasks it knows nothing.
Shutdown ==
  /\ process = "up"
  /\ process' = "stopping"
  /\ UNCHANGED <<at, doc, tables, redis, asking>>

\* The process ends, after a shutdown or in a crash, and with it what runs.
Exit ==
  /\ process # "down"
  /\ process' = "down"
  /\ at' = [r \in Requests |-> IF at[r] \in Running THEN "lost" ELSE at[r]]
  /\ turn' = IF turn.at = "asking" THEN NoTurn ELSE turn
  /\ UNCHANGED <<doc, tables, redis, noted>>

Start ==
  /\ process = "down"
  /\ process' = "up"
  /\ UNCHANGED <<at, doc, tables, redis, asking>>

------------------------------------------------------------------------------
Task(r) ==
  \/ CreateDocument(r) \/ SetIngesting(r) \/ ExtractAndEmbed(r) \/ InsertChunks(r)
  \/ MarkIndexed(r) \/ SetIndexed(r) \/ PublishIndexed(r) \/ MarkFailed(r) \/ SetFailed(r)

Next ==
  \/ \E r \in Requests : Refuse(r) \/ UploadDocument(r) \/ Task(r)
  \/ Retrieve \/ HybridSearch \/ NoteIndexed
  \/ Shutdown \/ Exit \/ Start

\* Every awaited call answers or raises, and the event loop runs its coroutines.
Spec == Init /\ [][Next]_vars /\ \A r \in Requests : WF_vars(Task(r))
------------------------------------------------------------------------------
(* Properties. *)

\* Every variable stays in its type, and chunks belong to the row of the upload
\* that stored them.
TypeOK ==
  /\ process \in {"up", "stopping", "down"}
  /\ at \in [Requests -> {"new"} \cup Running \cup Ended]
  /\ doc \in [Requests -> Docs]
  /\ rows \in [Docs -> Statuses]
  /\ stored \subseteq [by : Requests, of : Docs]
  /\ cache \in [Docs -> {"none", "ingesting", "indexed", "failed"}]
  /\ announced \subseteq Docs
  /\ noted \in BOOLEAN
  /\ turn \in [at : {"none", "asking", "skipped", "searched", "failed"},
               known : SUBSET Docs, ranked : SUBSET Docs]
  /\ process = "down" => turn.at # "asking" /\ \A r \in Requests : at[r] \notin Running
  /\ \A s \in stored : rows[s.of] # "none" /\ s.of = doc[s.by]

Searchable(d) == Content[d] \in Blank \/ \E s \in stored : s.of = d

\* No row says "indexed" before the document's chunks can be searched, in every
\* interleaving of uploads, errors and exits, although row and chunks are written
\* in two transactions (DATABASE.md, 1.1).
IndexedIsSearchable == \A d \in Docs : rows[d] = "indexed" => Searchable(d)

\* A search that starts after a document was announced ranks its chunks, whatever
\* failed between its row, its status and its event, and with restarts between.
AnnouncedIsFound ==
  turn.at = "searched" => \A d \in turn.known : Content[d] \in Blank \/ d \in turn.ranked

\* A content is searchable under one id only, however many uploads of it race
\* between the insert that is skipped and the one that is not.
OneIdPerContent ==
  \A s, t \in stored : Content[s.of] = Content[t.of] => s.of = t.of

\* A row that is pending has an upload at work, or one of its uploads was answered
\* with an error, died of an error in its own handler or went down with the
\* process: a pipeline that is run to its end settles the row.
PendingIsExplained ==
  \A d \in Docs : rows[d] = "pending" =>
    \E r \in Requests : doc[r] = d /\ at[r] \in Running \cup {"broken", "died", "lost"}

\* Of a document uploaded once, row and status key agree when its ingestion is
\* finished; without a row it has failed, unless it is blank.
SettledAgree ==
  \A r \in Requests :
    LET d == doc[r] IN
    /\ at[r] = "finished"
    /\ \A q \in Requests : q # r /\ doc[q] = d => at[q] \in {"new", "refused"}
    => \/ cache[d] = rows[d]
       \/ rows[d] = "none" /\ (cache[d] = "failed" \/ Content[d] \in Blank)

\* An upload the service took ends, one way or another.
EveryUploadEnds == \A r \in Requests : at[r] = "creating" ~> at[r] \in Ended

\* A turn after the announcement of a document with text searches it (README of
\* sprint 1: an uploaded document is "indexed and retrievable within the same
\* session").
AnnouncedIsSearched ==
  turn.at = "skipped" => \A d \in turn.known : Content[d] \in Blank
=============================================================================
