--------------------------- MODULE IngestionProofs ---------------------------
(***************************************************************************)
(* What holds of Ingestion for every set of uploads, documents and         *)
(* contents.  First the tables: rows are unique per content and never go,  *)
(* chunks have a row.  Then what the tables say of the tasks: a task past  *)
(* its insert finds its content's row, and one that reports success has    *)
(* chunks that can be searched.                                            *)
(***************************************************************************)
EXTENDS IngestionRefinement, TLAPS

Taken(d) == \E e \in Docs : rows[e] # "none" /\ Content[e] = Content[d]

\* A row per content.
RowPerContent ==
  \A d, e \in Docs : rows[d] # "none" /\ rows[e] # "none" /\ Content[d] = Content[e] => d = e

\* What an accepted upload relies on.
Tasked == {"starting", "extracting", "storing", "marking", "caching", "publishing",
           "failing", "reporting", "finished"}

Accepted == \A r \in Requests : at[r] \in Tasked => Taken(doc[r])

Tables == TypeOK /\ RowPerContent /\ Accepted

\* Whoever reports success can be searched, in a row, an event or a task.
Reported ==
  /\ \A r \in Requests :
       at[r] \in {"marking", "caching", "publishing"} => Searchable(doc[r])
  /\ \A d \in Docs : rows[d] = "indexed" \/ d \in announced => Searchable(d)

\* A task has settled the row before it reports to Redis.
RowSettled ==
  \A r \in Requests :
    at[r] \in {"caching", "publishing", "reporting", "finished"} => rows[doc[r]] # "pending"

Heard == turn.known \subseteq announced

\* No other upload of r's document has come as far as the database.
Alone(r) == \A q \in Requests : q # r /\ doc[q] = doc[r] => at[q] \in {"new", "refused"}

\* Without a row a task can only have found nothing to store.
Rowless(d) == rows[d] = "none" /\ Content[d] \in Blank

\* Where an upload stands says what row and key of its document say.
Told(r) ==
  LET d == doc[r]
      Indexed == rows[d] = "indexed" \/ Rowless(d)
      Failed == rows[d] \in {"failed", "none"}
  IN  /\ at[r] = "caching" => Indexed
      /\ at[r] = "publishing" => cache[d] = "indexed" /\ Indexed
      /\ at[r] = "reporting" => Failed
      /\ at[r] = "finished" => \/ cache[d] = "indexed" /\ Indexed
                               \/ cache[d] = "failed" /\ Failed

SoleUpload == \A r \in Requests : Alone(r) => Told(r)

Inv ==
  /\ Tables
  /\ Reported
  /\ RowSettled
  /\ PendingIsExplained
  /\ Heard
  /\ AnnouncedIsFound
  /\ SoleUpload

\* The insert adds a pending row where the content has none, and nothing else.
LEMMA InsertedRows ==
  ASSUME Tables, NEW d \in Docs
  PROVE  /\ Inserted(d) \in [Docs -> Statuses]
         /\ \A e \in Docs : \/ Inserted(d)[e] = rows[e]
                            \/ e = d /\ ~Taken(d) /\ rows[e] = "none" /\ Inserted(d)[e] = "pending"
         /\ \E e \in Docs : Inserted(d)[e] # "none" /\ Content[e] = Content[d]
BY DEF Tables, TypeOK, Statuses, Inserted, Taken

LEMMA UpdatedRows ==
  ASSUME Tables, NEW d \in Docs, NEW status \in Statuses \ {"none", "pending"}
  PROVE  /\ Updated(d, status) \in [Docs -> Statuses]
         /\ \A e \in Docs : e # d => Updated(d, status)[e] = rows[e]
         /\ Updated(d, status)[d] = IF rows[d] = "none" THEN "none" ELSE status
BY DEF Tables, TypeOK, Statuses, Updated

LEMMA Initially == Init => Inv
<1> SUFFICES ASSUME Init PROVE Inv
  OBVIOUS
<1>1. turn \in [at : {"none", "asking", "skipped", "searched", "failed"},
                known : SUBSET Docs, ranked : SUBSET Docs]
  BY DEF Init, NoTurn
<1>2. TypeOK
  BY <1>1 DEF Init, TypeOK, Statuses, Running, Ended, NoTurn
<1>3. RowPerContent /\ Accepted /\ Reported /\ RowSettled /\ PendingIsExplained
  BY DEF Init, RowPerContent, Accepted, Reported, RowSettled, PendingIsExplained, Tasked
<1>4. Heard /\ AnnouncedIsFound
  BY DEF Init, NoTurn, Heard, AnnouncedIsFound
<1>5. SoleUpload
  BY DEF Init, SoleUpload, Told
<1>6. QED
  BY <1>2, <1>3, <1>4, <1>5 DEF Inv, Tables

\* How the tables change: rows are inserted where their content has none, a task
\* of the row sets its status, chunks are added to a row.
LEMMA TablesKept == Tables /\ [Next]_vars => Tables'
<1> SUFFICES ASSUME Tables, [Next]_vars PROVE Tables'
  OBVIOUS
<1> USE IngestionAssumption
<1>1. ASSUME NEW r \in Requests, CreateDocument(r) PROVE Tables'
  <2> DEFINE d == doc[r]
  <2>1. d \in Docs
    BY DEF Tables, TypeOK
  <2>2. /\ rows' \in {rows, Inserted(d)}
        /\ \/ at' = [at EXCEPT ![r] = "starting"] /\ rows' = Inserted(d)
           \/ at' = [at EXCEPT ![r] = "broken"]
        /\ UNCHANGED <<process, doc, stored, redis, asking>>
        /\ at[r] = "creating"
    BY <1>1 DEF CreateDocument, Goes
  <2>3. /\ rows' \in [Docs -> Statuses]
        /\ \A e \in Docs : \/ rows'[e] = rows[e]
                           \/ e = d /\ ~Taken(d) /\ rows'[e] = "pending"
        /\ rows' = Inserted(d) => \E e \in Docs : rows'[e] # "none" /\ Content[e] = Content[d]
    BY <2>1, <2>2, InsertedRows DEF Tables, TypeOK
  <2>4. TypeOK'
    BY <2>1, <2>2, <2>3 DEF Tables, TypeOK, Running, Ended, redis, asking
  <2>5. RowPerContent'
    BY <2>1, <2>3 DEF Tables, RowPerContent, Taken
  <2>6. Accepted'
    BY <2>1, <2>2, <2>3 DEF Tables, TypeOK, Accepted, Taken, Tasked
  <2>7. QED
    BY <2>4, <2>5, <2>6 DEF Tables
<1>2. ASSUME NEW r \in Requests, MarkIndexed(r) \/ MarkFailed(r) PROVE Tables'
  <2> DEFINE d == doc[r]
  <2>1. PICK status \in {"indexed", "failed"}, to \in {"caching", "failing", "reporting", "died"} :
          /\ rows' \in {rows, Updated(d, status)}
          /\ at' = [at EXCEPT ![r] = to] /\ at[r] \in Tasked \cap Running
          /\ UNCHANGED <<process, doc, stored, redis, asking>>
    BY <1>2 DEF MarkIndexed, MarkFailed, Goes, Tasked, Running
  <2>2. /\ rows' \in [Docs -> Statuses]
        /\ \A e \in Docs : rows'[e] = "none" <=> rows[e] = "none"
    BY <2>1, UpdatedRows DEF Tables, TypeOK, Statuses
  <2>3. TypeOK'
    BY <2>1, <2>2 DEF Tables, TypeOK, Running, Ended, redis, asking, Tasked
  <2>4. RowPerContent' /\ Accepted'
    BY <2>1, <2>2 DEF Tables, TypeOK, RowPerContent, Accepted, Taken, Tasked
  <2>5. QED
    BY <2>3, <2>4 DEF Tables
<1>3. ASSUME NEW r \in Requests, InsertChunks(r) PROVE Tables'
  <2>1. /\ \/ stored' = stored
           \/ Storable(doc[r]) /\ stored' = stored \cup {[by |-> r, of |-> doc[r]]}
        /\ at' = [at EXCEPT ![r] = "marking"] \/ at' = [at EXCEPT ![r] = "failing"]
        /\ at[r] = "storing"
        /\ UNCHANGED <<process, doc, rows, redis, asking>>
    <3>1. /\ UNCHANGED <<process, doc, rows, redis, asking>>
          /\ at[r] = "storing"
          /\ at' = [at EXCEPT ![r] = "marking"] \/ at' = [at EXCEPT ![r] = "failing"]
      BY <1>3 DEF InsertChunks, Goes
    <3>2. \/ stored' = stored
          \/ Storable(doc[r]) /\ stored' = stored \cup {[by |-> r, of |-> doc[r]]}
      BY <1>3 DEF InsertChunks
    <3>3. QED
      BY <3>1, <3>2
  <2>2. TypeOK'
    BY <2>1 DEF Tables, TypeOK, Running, Ended, redis, asking, Storable
  <2>3. RowPerContent' /\ Accepted'
    BY <2>1 DEF Tables, TypeOK, RowPerContent, Accepted, Taken, Tasked
  <2>4. QED
    BY <2>2, <2>3 DEF Tables
<1>4. ASSUME NEW r \in Requests,
             \/ Refuse(r) \/ UploadDocument(r) \/ SetIngesting(r) \/ ExtractAndEmbed(r)
             \/ SetIndexed(r) \/ PublishIndexed(r) \/ SetFailed(r)
      PROVE  Tables'
  <2>1. /\ doc[r] \in Docs
        /\ \E to \in Running \cup Ended :
             /\ at' = [at EXCEPT ![r] = to]
             /\ to \in Tasked => at[r] \in Tasked
             /\ to \in Running => process # "down"
    BY <1>4 DEF Refuse, UploadDocument, SetIngesting, ExtractAndEmbed, SetIndexed, PublishIndexed,
                SetFailed, Goes, Tasked, Running, Ended, Tables, TypeOK
  <2>2. UNCHANGED <<process, doc, tables, asking>>
    BY <1>4 DEF Refuse, UploadDocument, SetIngesting, ExtractAndEmbed, SetIndexed, PublishIndexed,
                SetFailed, redis, asking, tables
  <2>3. /\ cache' \in [Docs -> {"none", "ingesting", "indexed", "failed"}]
        /\ announced' \subseteq Docs
    BY <1>4, <2>1 DEF Refuse, UploadDocument, SetIngesting, ExtractAndEmbed, SetIndexed,
                      PublishIndexed, SetFailed, redis, Cached, Tables, TypeOK
  <2>4. TypeOK'
    BY <2>1, <2>2, <2>3 DEF Tables, TypeOK, tables, asking
  <2>5. RowPerContent' /\ Accepted'
    BY <2>1, <2>2 DEF Tables, TypeOK, RowPerContent, Accepted, Taken, tables
  <2>6. QED
    BY <2>4, <2>5 DEF Tables
<1>5. CASE Retrieve \/ HybridSearch \/ NoteIndexed \/ Shutdown \/ Start \/ UNCHANGED vars
  <2>1. UNCHANGED <<at, doc, tables, redis>>
    BY <1>5 DEF Retrieve, HybridSearch, NoteIndexed, Shutdown, Start, vars, tables, redis, asking
  <2>2. /\ turn' \in [at : {"none", "asking", "skipped", "searched", "failed"},
                     known : SUBSET Docs, ranked : SUBSET Docs]
        /\ process' = "down" => turn'.at # "asking"
    <3>1. CASE HybridSearch
      <4>1. {s.of : s \in stored} \in SUBSET Docs
        BY DEF Tables, TypeOK
      <4>2. process # "down" /\ process' = process
        BY <3>1 DEF HybridSearch, Tables, TypeOK
      <4>3. QED
        BY <3>1, <4>1, <4>2 DEF HybridSearch, Tables, TypeOK
    <3>2. CASE Retrieve
      BY <3>2 DEF Retrieve, Tables, TypeOK
    <3>3. CASE NoteIndexed \/ Shutdown \/ Start \/ UNCHANGED vars
      BY <3>3 DEF NoteIndexed, Shutdown, Start, vars, asking, Tables, TypeOK
    <3>4. QED
      BY <1>5, <3>1, <3>2, <3>3
  <2>3. /\ process' \in {"up", "stopping", "down"}
        /\ process' = "down" => process = "down"
        /\ noted' \in BOOLEAN
    BY <1>5 DEF Retrieve, HybridSearch, NoteIndexed, Shutdown, Start, vars, asking, Tables, TypeOK
  <2>4. TypeOK'
    BY <2>1, <2>2, <2>3 DEF tables, redis, Tables, TypeOK
  <2>5. QED
    BY <2>1, <2>4 DEF Tables, RowPerContent, Accepted, Taken, tables
<1>6. CASE Exit
  BY <1>6 DEF Exit, Tables, TypeOK, RowPerContent, Accepted, Taken, tables, redis, Running, Ended,
              Tasked, NoTurn
<1>7. QED
  BY <1>1, <1>2, <1>3, <1>4, <1>5, <1>6 DEF Next, Task
------------------------------------------------------------------------------
\* A document that can be searched stays so.
LEMMA StaysSearchable ==
  ASSUME [Next]_vars, NEW d \in Docs, Searchable(d)
  PROVE  Searchable(d)'
<1>1. stored \subseteq stored'
  BY DEF Next, Task, Refuse, UploadDocument, CreateDocument, SetIngesting, ExtractAndEmbed,
         InsertChunks, MarkIndexed, SetIndexed, PublishIndexed, MarkFailed, SetFailed, Retrieve,
         HybridSearch, NoteIndexed, Shutdown, Exit, Start, vars, tables
<1>2. QED
  BY <1>1 DEF Searchable

\* A task comes to "marking" with chunks stored, or with none to store; row and
\* event follow it.
LEMMA ReportedKept == Tables /\ Reported /\ [Next]_vars => Reported'
<1> SUFFICES ASSUME Tables, Reported, [Next]_vars PROVE Reported'
  OBVIOUS
<1> USE StaysSearchable
<1>1. \A d \in Docs : Searchable(d) => Searchable(d)'
  OBVIOUS
<1>2. ASSUME NEW r \in Requests, CreateDocument(r) PROVE Reported'
  <2>1. doc[r] \in Docs /\ doc' = doc /\ announced' = announced
    BY <1>2 DEF CreateDocument, Tables, TypeOK, redis
  <2>2. \A e \in Docs : rows'[e] = "indexed" => rows[e] = "indexed"
    BY <1>2, <2>1, InsertedRows DEF CreateDocument, Statuses
  <2>3. \A q \in Requests : at'[q] \in {"marking", "caching", "publishing"} => at'[q] = at[q]
    BY <1>2 DEF CreateDocument, Goes, Tables, TypeOK
  <2>4. QED
    BY <1>1, <2>1, <2>2, <2>3 DEF Reported, Tables, TypeOK
<1>3. ASSUME NEW r \in Requests, MarkIndexed(r) \/ MarkFailed(r) PROVE Reported'
  <2>1. doc[r] \in Docs /\ doc' = doc /\ announced' = announced
    BY <1>3 DEF MarkIndexed, MarkFailed, Tables, TypeOK, redis
  <2>2. \A e \in Docs : rows'[e] = "indexed" =>
          rows[e] = "indexed" \/ (e = doc[r] /\ at[r] = "marking")
    BY <1>3, <2>1, UpdatedRows DEF MarkIndexed, MarkFailed, Statuses, Goes
  <2>3. \A q \in Requests : at'[q] \in {"marking", "caching", "publishing"} =>
          at'[q] = at[q] \/ at[q] = "marking"
    BY <1>3 DEF MarkIndexed, MarkFailed, Goes, Tables, TypeOK
  <2>4. QED
    BY <1>1, <2>1, <2>2, <2>3 DEF Reported, Tables, TypeOK
<1>4. ASSUME NEW r \in Requests, InsertChunks(r) PROVE Reported'
  <2>1. doc[r] \in Docs /\ doc' = doc /\ announced' = announced /\ rows' = rows
    BY <1>4 DEF InsertChunks, Tables, TypeOK, redis
  <2>2. at'[r] = "marking" => Searchable(doc[r])'
    <3> SUFFICES ASSUME at'[r] = "marking" PROVE Searchable(doc[r])'
      OBVIOUS
    <3> DEFINE new == [by |-> r, of |-> doc[r]]
    <3>1. new \in stored' /\ new.of = doc[r]
      BY <1>4 DEF InsertChunks, Goes, Tables, TypeOK
    <3>2. QED
      BY <2>1, <3>1 DEF Searchable
  <2>3. \A q \in Requests : at'[q] \in {"marking", "caching", "publishing"} =>
          at'[q] = at[q] \/ (q = r /\ at'[r] = "marking")
    BY <1>4 DEF InsertChunks, Goes, Tables, TypeOK
  <2>4. QED
    BY <1>1, <2>1, <2>2, <2>3 DEF Reported, Tables, TypeOK
<1>5. ASSUME NEW r \in Requests, PublishIndexed(r) PROVE Reported'
  <2>1. doc[r] \in Docs /\ doc' = doc /\ rows' = rows
    BY <1>5 DEF PublishIndexed, Tables, TypeOK, tables
  <2>2. at[r] = "publishing" /\ announced' \subseteq announced \cup {doc[r]}
    BY <1>5 DEF PublishIndexed, Goes
  <2>3. \A q \in Requests : at'[q] \in {"marking", "caching", "publishing"} => at'[q] = at[q]
    BY <1>5 DEF PublishIndexed, Goes, Tables, TypeOK
  <2>4. QED
    BY <1>1, <2>1, <2>2, <2>3 DEF Reported, Tables, TypeOK
<1>6. ASSUME NEW r \in Requests,
             \/ Refuse(r) \/ UploadDocument(r) \/ SetIngesting(r) \/ ExtractAndEmbed(r)
             \/ SetIndexed(r) \/ SetFailed(r)
      PROVE  Reported'
  <2>1. doc[r] \in Docs /\ doc' = doc /\ rows' = rows /\ announced' = announced
    BY <1>6 DEF Refuse, UploadDocument, SetIngesting, ExtractAndEmbed, SetIndexed, SetFailed,
                Tables, TypeOK, tables, redis
  <2>2. at'[r] = "marking" => Searchable(doc[r])
    BY <1>6 DEF Refuse, UploadDocument, SetIngesting, ExtractAndEmbed, SetIndexed, SetFailed, Goes,
                Searchable, Tables, TypeOK
  <2>3. \A q \in Requests : at'[q] \in {"marking", "caching", "publishing"} =>
          at'[q] = at[q] \/ (q = r /\ (at'[r] = "marking" \/ at[r] = "caching"))
    BY <1>6 DEF Refuse, UploadDocument, SetIngesting, ExtractAndEmbed, SetIndexed, SetFailed, Goes,
                Tables, TypeOK
  <2>4. QED
    BY <1>1, <2>1, <2>2, <2>3 DEF Reported, Tables, TypeOK
<1>7. CASE Retrieve \/ HybridSearch \/ NoteIndexed \/ Shutdown \/ Start \/ UNCHANGED vars
  <2>1. UNCHANGED <<at, doc, tables, redis>>
    BY <1>7 DEF Retrieve, HybridSearch, NoteIndexed, Shutdown, Start, vars, tables, redis, asking
  <2>2. QED
    BY <1>1, <2>1 DEF Reported, Tables, TypeOK, tables, redis
<1>8. CASE Exit
  <2>1. UNCHANGED <<doc, tables, redis>>
    BY <1>8 DEF Exit, tables, redis, asking
  <2>2. \A q \in Requests : at'[q] \in {"marking", "caching", "publishing"} => at'[q] = at[q]
    BY <1>8 DEF Exit, Tables, TypeOK
  <2>3. QED
    BY <1>1, <2>1, <2>2 DEF Reported, Tables, TypeOK, tables, redis
<1>9. QED
  BY <1>2, <1>3, <1>4, <1>5, <1>6, <1>7, <1>8 DEF Next, Task
\* A row that exists never becomes pending again, and a task that was accepted
\* finds its content's row: what is settled stays settled.
LEMMA NotPendingAgain ==
  ASSUME Tables, [Next]_vars, NEW d \in Docs, rows[d] # "pending", Taken(d)
  PROVE  rows'[d] # "pending"
<1>1. ASSUME NEW r \in Requests, CreateDocument(r) PROVE rows'[d] # "pending"
  <2>1. doc[r] \in Docs /\ (rows' = rows \/ rows' = Inserted(doc[r]))
    BY <1>1 DEF CreateDocument, Tables, TypeOK
  <2>2. QED
    BY <2>1, InsertedRows
<1>2. ASSUME NEW r \in Requests, MarkIndexed(r) \/ MarkFailed(r) PROVE rows'[d] # "pending"
  <2>1. PICK status \in {"indexed", "failed"} :
          doc[r] \in Docs /\ (rows' = rows \/ rows' = Updated(doc[r], status))
    BY <1>2 DEF MarkIndexed, MarkFailed, Tables, TypeOK
  <2>2. QED
    BY <2>1, UpdatedRows DEF Statuses
<1>3. CASE rows' = rows
  BY <1>3
<1>4. QED
  BY <1>1, <1>2, <1>3 DEF Next, Task, Refuse, UploadDocument, SetIngesting, ExtractAndEmbed,
     InsertChunks, SetIndexed, PublishIndexed, SetFailed, Retrieve, HybridSearch, NoteIndexed,
     Shutdown, Exit, Start, vars, tables

LEMMA RowSettledKept == Tables /\ RowSettled /\ [Next]_vars => RowSettled'
<1> SUFFICES ASSUME Tables, RowSettled, [Next]_vars,
                    NEW q \in Requests,
                    at'[q] \in {"caching", "publishing", "reporting", "finished"}
             PROVE  rows'[doc'[q]] # "pending"
  BY DEF RowSettled
<1>1. doc' = doc /\ doc[q] \in Docs
  BY DEF Next, Task, Refuse, UploadDocument, CreateDocument, SetIngesting, ExtractAndEmbed,
         InsertChunks, MarkIndexed, SetIndexed, PublishIndexed, MarkFailed, SetFailed, Retrieve,
         HybridSearch, NoteIndexed, Shutdown, Exit, Start, vars, Tables, TypeOK
<1>2. CASE at[q] \in {"caching", "publishing", "reporting", "finished"}
  <2>1. rows[doc[q]] # "pending" /\ Taken(doc[q])
    BY <1>2 DEF RowSettled, Tables, Accepted, Tasked
  <2>2. QED
    BY <1>1, <2>1, NotPendingAgain
<1>3. CASE at[q] \notin {"caching", "publishing", "reporting", "finished"}
  <2>1. \/ MarkIndexed(q) /\ rows' = Updated(doc[q], "indexed")
        \/ MarkFailed(q) /\ rows' = Updated(doc[q], "failed")
    BY <1>3 DEF Next, Task, Refuse, UploadDocument, CreateDocument, SetIngesting, ExtractAndEmbed,
         InsertChunks, MarkIndexed, SetIndexed, PublishIndexed, MarkFailed, SetFailed, Retrieve,
         HybridSearch, NoteIndexed, Shutdown, Exit, Start, vars, Goes, Tables, TypeOK, Running
  <2>2. QED
    BY <1>1, <2>1, UpdatedRows DEF Statuses
<1>4. QED
  BY <1>2, <1>3

\* Who explains a pending row goes on to explain it: a task that ends in order has
\* settled the row.
LEMMA PendingKept ==
  Tables /\ RowSettled /\ PendingIsExplained /\ [Next]_vars => PendingIsExplained'
<1> SUFFICES ASSUME Tables, RowSettled, PendingIsExplained, [Next]_vars,
                    NEW d \in Docs, rows'[d] = "pending"
             PROVE  \E r \in Requests : /\ doc'[r] = d
                                        /\ at'[r] \in Running \cup {"broken", "died", "lost"}
  BY DEF PendingIsExplained
<1>1. doc' = doc
  BY DEF Next, Task, Refuse, UploadDocument, CreateDocument, SetIngesting, ExtractAndEmbed,
         InsertChunks, MarkIndexed, SetIndexed, PublishIndexed, MarkFailed, SetFailed, Retrieve,
         HybridSearch, NoteIndexed, Shutdown, Exit, Start, vars
<1>2. CASE rows[d] = "pending"
  <2>1. PICK r \in Requests : doc[r] = d /\ at[r] \in Running \cup {"broken", "died", "lost"}
    BY <1>2 DEF PendingIsExplained
  <2>2. RowSettled'
    BY RowSettledKept
  <2>3. at'[r] # "finished"
    BY <1>1, <2>1, <2>2 DEF RowSettled
  <2>4. at'[r] \in Running \cup {"broken", "died", "lost"}
    BY <2>1, <2>3 DEF Next, Task, Refuse, UploadDocument, CreateDocument, SetIngesting,
         ExtractAndEmbed, InsertChunks, MarkIndexed, SetIndexed, PublishIndexed, MarkFailed,
         SetFailed, Retrieve, HybridSearch, NoteIndexed, Shutdown, Exit, Start, vars, Goes, Tables,
         TypeOK, Running
  <2>5. QED
    BY <1>1, <2>1, <2>4
<1>3. CASE rows[d] # "pending"
  <2>1. PICK r \in Requests : CreateDocument(r) /\ rows' = Inserted(doc[r]) /\ doc[r] = d
    <3>1. ASSUME NEW r \in Requests, MarkIndexed(r) \/ MarkFailed(r) PROVE FALSE
      <4>1. PICK status \in {"indexed", "failed"} :
              doc[r] \in Docs /\ (rows' = rows \/ rows' = Updated(doc[r], status))
        BY <3>1 DEF MarkIndexed, MarkFailed, Tables, TypeOK
      <4>2. QED
        BY <1>3, <4>1, UpdatedRows DEF Statuses
    <3>2. PICK r \in Requests : CreateDocument(r) /\ rows' = Inserted(doc[r])
      BY <1>3, <3>1 DEF Next, Task, Refuse, UploadDocument, CreateDocument, SetIngesting,
         ExtractAndEmbed, InsertChunks, SetIndexed, PublishIndexed, SetFailed, Retrieve,
         HybridSearch, NoteIndexed, Shutdown, Exit, Start, vars, tables
    <3>3. doc[r] = d
      BY <1>3, <3>2, InsertedRows DEF Tables, TypeOK
    <3>4. QED
      BY <3>2, <3>3
  <2>2. at'[r] \in {"starting", "broken"}
    BY <2>1 DEF CreateDocument, Goes, Tables, TypeOK
  <2>3. QED
    BY <1>1, <2>1, <2>2 DEF Running
<1>4. QED
  BY <1>2, <1>3

\* Events are never withdrawn, and a search ranks all that is stored.
LEMMA HeardKept ==
  Tables /\ Reported /\ Heard /\ AnnouncedIsFound /\ [Next]_vars => Heard' /\ AnnouncedIsFound'
<1> SUFFICES ASSUME Tables, Reported, Heard, AnnouncedIsFound, [Next]_vars
             PROVE  Heard' /\ AnnouncedIsFound'
  OBVIOUS
<1>1. announced \subseteq announced'
  BY DEF Next, Task, Refuse, UploadDocument, CreateDocument, SetIngesting, ExtractAndEmbed,
         InsertChunks, MarkIndexed, SetIndexed, PublishIndexed, MarkFailed, SetFailed, Retrieve,
         HybridSearch, NoteIndexed, Shutdown, Exit, Start, vars, redis
<1>2. CASE turn' = turn
  BY <1>1, <1>2 DEF Heard, AnnouncedIsFound
<1>3. CASE Retrieve
  BY <1>1, <1>3 DEF Retrieve, Heard, AnnouncedIsFound
<1>4. CASE HybridSearch
  <2>1. /\ turn'.known = turn.known
        /\ turn'.at = "searched" => turn'.ranked = {s.of : s \in stored}
    BY <1>4 DEF HybridSearch, Tables, TypeOK
  <2>2. \A d \in turn.known : Content[d] \in Blank \/ d \in {s.of : s \in stored}
    BY DEF Heard, Reported, Searchable, Tables, TypeOK
  <2>3. QED
    BY <1>1, <2>1, <2>2 DEF Heard, AnnouncedIsFound
<1>5. CASE turn' = NoTurn
  BY <1>5 DEF NoTurn, Heard, AnnouncedIsFound
<1>6. QED
  BY <1>2, <1>3, <1>4, <1>5 DEF Next, Task, Refuse, UploadDocument, CreateDocument, SetIngesting,
     ExtractAndEmbed, InsertChunks, MarkIndexed, SetIndexed, PublishIndexed, MarkFailed, SetFailed,
     NoteIndexed, Shutdown, Exit, Start, vars, asking

------------------------------------------------------------------------------
\* What another upload does leaves row and key of the document as they are, unless
\* it is the step that takes up a second upload of it.
LEMMA OthersLeaveAlone ==
  ASSUME Tables, NEW r \in Requests, Alone(r)', NEW q \in Requests, q # r,
         Refuse(q) \/ UploadDocument(q) \/ Task(q)
  PROVE  /\ at'[r] = at[r]
         /\ rows'[doc[r]] = rows[doc[r]]
         /\ cache'[doc[r]] = cache[doc[r]]
<1>1. /\ at'[r] = at[r] /\ doc' = doc
      /\ doc[q] \in Docs /\ doc[r] \in Docs
  BY DEF Task, Refuse, UploadDocument, CreateDocument, SetIngesting, ExtractAndEmbed,
         InsertChunks, MarkIndexed, SetIndexed, PublishIndexed, MarkFailed, SetFailed, Goes,
         Tables, TypeOK
<1>2. CASE Refuse(q) \/ UploadDocument(q)
  BY <1>1, <1>2 DEF Refuse, UploadDocument, tables, redis
<1>3. CASE Task(q)
  <2>1. doc[q] # doc[r]
    <3>1. at'[q] \notin {"new", "refused"}
      BY <1>3 DEF Task, CreateDocument, SetIngesting, ExtractAndEmbed, InsertChunks, MarkIndexed,
                  SetIndexed, PublishIndexed, MarkFailed, SetFailed, Goes, Tables, TypeOK
    <3>2. QED
      BY <1>1, <3>1 DEF Alone
  <2>2. /\ \/ rows' = rows \/ rows' = Inserted(doc[q])
           \/ \E status \in {"indexed", "failed"} : rows' = Updated(doc[q], status)
        /\ cache' = cache \/ \E status : cache' = [cache EXCEPT ![doc[q]] = status]
    BY <1>3 DEF Task, CreateDocument, SetIngesting, ExtractAndEmbed, InsertChunks, MarkIndexed,
                SetIndexed, PublishIndexed, MarkFailed, SetFailed, tables, redis, Cached
  <2>3. rows'[doc[r]] = rows[doc[r]]
    BY <1>1, <2>1, <2>2, InsertedRows, UpdatedRows DEF Statuses
  <2>4. cache'[doc[r]] = cache[doc[r]]
    BY <1>1, <2>1, <2>2 DEF Tables, TypeOK
  <2>5. QED
    BY <1>1, <2>3, <2>4
<1>4. QED
  BY <1>2, <1>3

\* The step of an only upload itself: the row is settled before the key, and a
\* task that marks a row it does not have has stored nothing.
LEMMA SoleStep ==
  ASSUME Tables, Reported, SoleUpload, NEW r \in Requests, Alone(r),
         Refuse(r) \/ UploadDocument(r) \/ Task(r)
  PROVE  Told(r)'
<1> DEFINE d == doc[r]
<1>1. d \in Docs /\ rows \in [Docs -> Statuses] /\ r \in DOMAIN at /\ d \in DOMAIN cache
      /\ doc' = doc
  BY DEF Task, Refuse, UploadDocument, CreateDocument, SetIngesting, ExtractAndEmbed,
         InsertChunks, MarkIndexed, SetIndexed, PublishIndexed, MarkFailed, SetFailed,
         Tables, TypeOK
<1>2. CASE \/ Refuse(r) \/ UploadDocument(r) \/ CreateDocument(r) \/ SetIngesting(r)
           \/ ExtractAndEmbed(r) \/ InsertChunks(r)
  <2>1. at'[r] \notin {"caching", "publishing", "reporting", "finished"}
    BY <1>1, <1>2 DEF Refuse, UploadDocument, CreateDocument, SetIngesting, ExtractAndEmbed,
                      InsertChunks, Goes
  <2>2. QED
    BY <1>1, <2>1 DEF Told
<1>3. CASE MarkIndexed(r)
  <2>1. at[r] = "marking" /\ at'[r] \in {"caching", "failing"}
    BY <1>1, <1>3 DEF MarkIndexed, Goes
  <2>2. at'[r] = "caching" => rows' = Updated(d, "indexed")
    BY <1>1, <1>3 DEF MarkIndexed, Goes
  \* Chunks that are stored have a row.
  <2>3. rows[d] = "none" => Content[d] \in Blank
    BY <2>1 DEF Reported, Searchable, Tables, TypeOK
  <2>4. QED
    BY <1>1, <2>1, <2>2, <2>3, UpdatedRows DEF Told, Rowless, Statuses
<1>4. CASE SetIndexed(r)
  <2>1. at[r] = "caching" /\ at'[r] \in {"publishing", "failing"} /\ rows' = rows
        /\ (at'[r] = "publishing" => cache'[d] = "indexed")
    BY <1>1, <1>4 DEF SetIndexed, Goes, Cached, tables
  <2>2. QED
    BY <1>1, <2>1 DEF SoleUpload, Told, Rowless
<1>5. CASE PublishIndexed(r)
  <2>1. at[r] = "publishing" /\ at'[r] \in {"finished", "failing"} /\ rows' = rows
        /\ cache' = cache
    BY <1>1, <1>5 DEF PublishIndexed, Goes, tables
  <2>2. QED
    BY <1>1, <2>1 DEF SoleUpload, Told, Rowless
<1>6. CASE MarkFailed(r)
  <2>1. at'[r] \in {"reporting", "died"} /\ (at'[r] = "reporting" => rows' = Updated(d, "failed"))
    BY <1>1, <1>6 DEF MarkFailed, Goes
  <2>2. QED
    BY <1>1, <2>1, UpdatedRows DEF Told, Statuses
<1>7. CASE SetFailed(r)
  <2>1. at[r] = "reporting" /\ at'[r] \in {"finished", "died"} /\ rows' = rows
        /\ (at'[r] = "finished" => cache'[d] = "failed")
    BY <1>1, <1>7 DEF SetFailed, Goes, Cached, tables
  <2>2. QED
    BY <1>1, <2>1 DEF SoleUpload, Told
<1>8. QED
  BY <1>2, <1>3, <1>4, <1>5, <1>6, <1>7 DEF Task

LEMMA SoleUploadKept == Tables /\ Reported /\ SoleUpload /\ [Next]_vars => SoleUpload'
<1> SUFFICES ASSUME Tables, Reported, SoleUpload, [Next]_vars, NEW r \in Requests, Alone(r)'
             PROVE  Told(r)'
  BY DEF SoleUpload
\* Who comes after the first is seen from then on.
<1>1. doc' = doc /\ Alone(r)
  <2>1. doc' = doc
    BY DEF Next, Task, Refuse, UploadDocument, CreateDocument, SetIngesting, ExtractAndEmbed,
           InsertChunks, MarkIndexed, SetIndexed, PublishIndexed, MarkFailed, SetFailed, Retrieve,
           HybridSearch, NoteIndexed, Shutdown, Exit, Start, vars
  <2>2. \A q \in Requests : at'[q] \in {"new", "refused"} => at[q] \in {"new", "refused"}
    BY DEF Next, Task, Refuse, UploadDocument, CreateDocument, SetIngesting, ExtractAndEmbed,
           InsertChunks, MarkIndexed, SetIndexed, PublishIndexed, MarkFailed, SetFailed, Retrieve,
           HybridSearch, NoteIndexed, Shutdown, Exit, Start, vars, Goes, Tables, TypeOK, Running
  <2>3. QED
    BY <2>1, <2>2 DEF Alone
<1>2. ASSUME NEW q \in Requests, Refuse(q) \/ UploadDocument(q) \/ Task(q), q # r
      PROVE  /\ at'[r] = at[r] /\ rows'[doc[r]] = rows[doc[r]] /\ cache'[doc[r]] = cache[doc[r]]
  BY <1>2, OthersLeaveAlone
<1>3. CASE Retrieve \/ HybridSearch \/ NoteIndexed \/ Shutdown \/ Exit \/ Start \/ UNCHANGED vars
  <2>1. /\ rows' = rows /\ cache' = cache
        /\ at'[r] = at[r] \/ at'[r] = "lost"
    BY <1>3 DEF Retrieve, HybridSearch, NoteIndexed, Shutdown, Exit, Start, vars, tables, redis,
                Tables, TypeOK
  <2>2. QED
    BY <1>1, <2>1 DEF SoleUpload, Told, Rowless
<1>4. CASE \E q \in Requests : q # r /\ (Refuse(q) \/ UploadDocument(q) \/ Task(q))
  <2>1. /\ at'[r] = at[r] /\ rows'[doc[r]] = rows[doc[r]] /\ cache'[doc[r]] = cache[doc[r]]
    BY <1>2, <1>4
  <2>2. QED
    BY <1>1, <2>1 DEF SoleUpload, Told, Rowless
<1>5. CASE Refuse(r) \/ UploadDocument(r) \/ Task(r)
  BY <1>1, <1>5, SoleStep
<1>6. QED
  BY <1>3, <1>4, <1>5 DEF Next

------------------------------------------------------------------------------
LEMMA Invariant == Spec => []Inv
<1>1. Inv /\ [Next]_vars => Inv'
  BY TablesKept, ReportedKept, RowSettledKept, PendingKept, HeardKept, SoleUploadKept DEF Inv
<1>2. QED
  BY <1>1, Initially, PTL DEF Spec

\* Tasks, rows, statuses and chunks stay well formed: no chunk without its row.
THEOREM TypeCorrect == Spec => []TypeOK
<1>1. Inv => TypeOK
  BY DEF Inv, Tables
<1>2. QED
  BY <1>1, Invariant, PTL

\* A row that says "indexed" has chunks that can be searched, for every
\* interleaving of uploads with errors and restarts.
THEOREM IndexedDocumentsAreSearchable == Spec => []IndexedIsSearchable
<1>1. Inv => IndexedIsSearchable
  BY DEF Inv, Reported, IndexedIsSearchable
<1>2. QED
  BY <1>1, Invariant, PTL

\* A search after an announcement ranks the announced document.
THEOREM AnnouncedDocumentsAreFound == Spec => []AnnouncedIsFound
<1>1. Inv => AnnouncedIsFound
  BY DEF Inv
<1>2. QED
  BY <1>1, Invariant, PTL

\* The unique key of the rows and the foreign key of the chunks leave a content
\* one id it can be found under.
THEOREM ContentsHaveOneId == Spec => []OneIdPerContent
<1>1. Inv => OneIdPerContent
  BY DEF Inv, Tables, TypeOK, RowPerContent, OneIdPerContent
<1>2. QED
  BY <1>1, Invariant, PTL

\* A pending row has an upload at work, or one that something went wrong with.
THEOREM PendingRowsAreExplained == Spec => []PendingIsExplained
<1>1. Inv => PendingIsExplained
  BY DEF Inv
<1>2. QED
  BY <1>1, Invariant, PTL

\* When the ingestion of a document uploaded once is finished, the row and the
\* status key tell the same: of the four writes that report it none is left out or
\* overtaken by another upload's.
THEOREM SettledUploadsAgree == Spec => []SettledAgree
<1>1. Inv => SettledAgree
  BY DEF Inv, SoleUpload, Told, Alone, Rowless, SettledAgree
<1>2. QED
  BY <1>1, Invariant, PTL

------------------------------------------------------------------------------
(* The shelf.  Each step of the uploads, the process and the retrieval node  *)
(* is a step of DocumentShelf or none.                                       *)

\* Steps that the shelf does not see.
LEMMA Unseen ==
  ASSUME UNCHANGED <<rows, stored, announced, turn>>
  PROVE  UNCHANGED Shelf!vars
BY DEF Shelf!vars, Shelved, Asked, Found

LEMMA InsertIsListing ==
  ASSUME Tables, NEW r \in Requests, CreateDocument(r)
  PROVE  Shelf!List(doc[r]) \/ UNCHANGED Shelf!vars
<1> DEFINE d == doc[r]
<1>1. /\ d \in Docs /\ rows' \in {rows, Inserted(d)}
      /\ UNCHANGED <<stored, announced, turn>>
  BY DEF CreateDocument, Tables, TypeOK, redis, asking
<1>2. CASE rows' = rows
  BY <1>1, <1>2, Unseen
<1>3. CASE rows' # rows
  <2>1. ~Taken(d) /\ rows' = [rows EXCEPT ![d] = "pending"]
    BY <1>1, <1>3 DEF Inserted, Taken
  <2>2. \A e \in Docs : Shelf!Listed(e) => Content[e] # Content[d]
    BY <2>1 DEF Taken, Shelf!Listed
  <2>3. QED
    BY <1>1, <2>1, <2>2 DEF Shelf!List, Shelved, Asked, Found
<1>4. QED
  BY <1>2, <1>3

LEMMA StoringIsShelving ==
  ASSUME Tables, NEW r \in Requests, InsertChunks(r)
  PROVE  Shelf!Shelve(doc[r]) \/ UNCHANGED Shelf!vars
<1> DEFINE d == doc[r]
           new == [by |-> r, of |-> d]
<1>1. UNCHANGED <<rows, announced, turn>>
  BY DEF InsertChunks, redis, asking
<1>2. CASE stored' = stored
  BY <1>1, <1>2, Unseen
<1>3. CASE Storable(d) /\ stored' = stored \cup {new}
  <2>1. Shelved' = Shelved \cup {d}
    <3>1. new.of = d
      OBVIOUS
    <3> HIDE DEF new
    <3>2. QED
      BY <1>3, <3>1 DEF Shelved
  <2>2. QED
    BY <1>1, <1>3, <2>1 DEF Shelf!Shelve, Shelf!Listed, Storable, Asked, Found
<1>4. QED
  BY <1>2, <1>3 DEF InsertChunks

LEMMA FindableIsSearchable ==
  ASSUME NEW d \in Docs
  PROVE  Shelf!Findable(d) <=> Searchable(d)
BY DEF Shelf!Findable, Searchable, Shelved

LEMMA MarkingIsSettling ==
  ASSUME Tables, Reported, NEW r \in Requests, MarkIndexed(r) \/ MarkFailed(r)
  PROVE  Shelf!Settle(doc[r]) \/ UNCHANGED Shelf!vars
<1> DEFINE d == doc[r]
<1>1. d \in Docs /\ UNCHANGED <<stored, announced, turn>>
  BY DEF MarkIndexed, MarkFailed, Tables, TypeOK, redis, asking
<1>2. CASE rows' = rows
  BY <1>1, <1>2, Unseen
<1>3. CASE rows' # rows /\ MarkIndexed(r)
  <2>1. rows[d] # "none" /\ rows' = [rows EXCEPT ![d] = "indexed"] /\ at[r] = "marking"
    BY <1>3 DEF MarkIndexed, Updated, Goes
  <2>2. Shelf!Findable(d)
    BY <1>1, <2>1, FindableIsSearchable DEF Reported
  <2>3. QED
    BY <1>1, <2>1, <2>2 DEF Shelf!Settle, Shelf!Listed, Shelved, Asked, Found
<1>4. CASE rows' # rows /\ MarkFailed(r)
  <2>1. rows[d] # "none" /\ rows' = [rows EXCEPT ![d] = "failed"]
    BY <1>4 DEF MarkFailed, Updated
  <2>2. QED
    BY <1>1, <2>1 DEF Shelf!Settle, Shelf!Listed, Shelved, Asked, Found
<1>5. QED
  BY <1>2, <1>3, <1>4

LEMMA PublishingIsAnnouncing ==
  ASSUME Tables, Reported, NEW r \in Requests, PublishIndexed(r)
  PROVE  Shelf!Announce(doc[r]) \/ UNCHANGED Shelf!vars
<1>1. /\ doc[r] \in Docs /\ at[r] = "publishing"
      /\ announced' \in {announced, announced \cup {doc[r]}}
      /\ UNCHANGED <<rows, stored, turn>>
  BY DEF PublishIndexed, Goes, Tables, TypeOK, tables, asking
<1>2. Shelf!Findable(doc[r])
  BY <1>1, FindableIsSearchable DEF Reported
<1>3. CASE announced' = announced
  BY <1>1, <1>3, Unseen
<1>4. CASE announced' = announced \cup {doc[r]}
  BY <1>1, <1>2, <1>4 DEF Shelf!Announce, Shelved, Asked, Found
<1>5. QED
  BY <1>1, <1>3, <1>4

LEMMA RetrievingIsAsking ==
  ASSUME Retrieve
  PROVE  Shelf!Ask \/ Shelf!NoAnswer
<1> DEFINE t(at_) == [at |-> at_, known |-> announced, ranked |-> {}]
<1>1. /\ turn.at # "asking"
      /\ turn' = t("asking") \/ turn' = t("skipped")
      /\ UNCHANGED <<rows, stored, announced>>
  BY DEF Retrieve, tables, redis
<1>2. Asked = {} /\ Shelved' = Shelved
  BY <1>1 DEF Asked, Shelved
<1>3. CASE turn' = t("asking")
  <2>1. Asked' = {announced} /\ Found' = {}
    BY <1>3 DEF Asked, Found
  <2>2. QED
    BY <1>1, <1>2, <2>1 DEF Shelf!Ask
<1>4. CASE turn' = t("skipped")
  <2>1. Asked' = {} /\ Found' = {}
    BY <1>4 DEF Asked, Found
  <2>2. QED
    BY <1>1, <1>2, <2>1 DEF Shelf!NoAnswer
<1>5. QED
  BY <1>1, <1>3, <1>4

\* The answer holds what was announced: events follow the chunks, and chunks stay.
LEMMA SearchingIsAnswering ==
  ASSUME Tables, Reported, Heard, HybridSearch
  PROVE  (\E known \in SUBSET Docs : Shelf!Answer(known)) \/ Shelf!NoAnswer
<1>1. /\ turn.at = "asking" /\ turn.known \in SUBSET Docs
      /\ UNCHANGED <<rows, stored, announced>>
  BY DEF HybridSearch, Tables, TypeOK, tables, redis
<1>2. Asked = {turn.known} /\ Shelved' = Shelved
  BY <1>1 DEF Asked, Shelved
<1>3. CASE turn' = [turn EXCEPT !.at = "searched", !.ranked = {s.of : s \in stored}]
  <2>1. Asked' = {} /\ Found' = Shelved
    BY <1>3 DEF Asked, Found, Shelved, Tables, TypeOK
  <2>2. \A d \in turn.known : Content[d] \in Blank \/ d \in Found'
    BY <2>1 DEF Heard, Reported, Searchable, Shelved, Tables, TypeOK
  <2>3. Shelf!Answer(turn.known)
    BY <1>1, <1>2, <2>1, <2>2 DEF Shelf!Answer
  <2>4. QED
    BY <1>1, <2>3
<1>4. CASE turn' = [turn EXCEPT !.at = "failed"]
  <2>1. Asked' = {} /\ Found' = {}
    BY <1>4 DEF Asked, Found, Tables, TypeOK
  <2>2. QED
    BY <1>1, <1>2, <2>1 DEF Shelf!NoAnswer
<1>5. QED
  BY <1>3, <1>4 DEF HybridSearch

LEMMA ExitIsSilence ==
  ASSUME Exit
  PROVE  Shelf!NoAnswer \/ UNCHANGED Shelf!vars
<1>1. UNCHANGED <<rows, stored, announced>>
  BY DEF Exit, tables, redis
<1>2. CASE turn' = NoTurn
  <2>1. Asked' = {} /\ Found' = {} /\ Shelved' = Shelved
    BY <1>1, <1>2 DEF Asked, Found, NoTurn, Shelved
  <2>2. QED
    BY <1>1, <2>1 DEF Shelf!NoAnswer
<1>3. CASE turn' = turn
  BY <1>1, <1>3, Unseen
<1>4. QED
  BY <1>2, <1>3 DEF Exit

LEMMA StepIsShelfStep ==
  ASSUME Tables, Reported, Heard, [Next]_vars
  PROVE  [Shelf!Next]_(Shelf!vars)
<1>1. ASSUME NEW r \in Requests, Task(r)
      PROVE  [Shelf!Next]_(Shelf!vars)
  <2>1. doc[r] \in Docs
    BY DEF Tables, TypeOK
  <2>2. CASE CreateDocument(r)
    BY <2>1, <2>2, InsertIsListing DEF Shelf!Next
  <2>3. CASE InsertChunks(r)
    BY <2>1, <2>3, StoringIsShelving DEF Shelf!Next
  <2>4. CASE MarkIndexed(r) \/ MarkFailed(r)
    BY <2>1, <2>4, MarkingIsSettling DEF Shelf!Next
  <2>5. CASE PublishIndexed(r)
    BY <2>1, <2>5, PublishingIsAnnouncing DEF Shelf!Next
  <2>6. CASE SetIngesting(r) \/ ExtractAndEmbed(r) \/ SetIndexed(r) \/ SetFailed(r)
    <3>1. UNCHANGED <<rows, stored, announced, turn>>
      BY <2>6 DEF SetIngesting, ExtractAndEmbed, SetIndexed, SetFailed, tables, redis, asking
    <3>2. QED
      BY <3>1, Unseen
  <2>7. QED
    BY <1>1, <2>2, <2>3, <2>4, <2>5, <2>6 DEF Task
<1>2. ASSUME NEW r \in Requests, Refuse(r) \/ UploadDocument(r)
      PROVE  UNCHANGED Shelf!vars
  <2>1. UNCHANGED <<rows, stored, announced, turn>>
    BY <1>2 DEF Refuse, UploadDocument, tables, redis, asking
  <2>2. QED
    BY <2>1, Unseen
<1>3. CASE Retrieve
  BY <1>3, RetrievingIsAsking DEF Shelf!Next
<1>4. CASE HybridSearch
  BY <1>4, SearchingIsAnswering DEF Shelf!Next
<1>5. CASE Exit
  BY <1>5, ExitIsSilence DEF Shelf!Next
<1>6. CASE NoteIndexed \/ Shutdown \/ Start \/ UNCHANGED vars
  <2>1. UNCHANGED <<rows, stored, announced, turn>>
    BY <1>6 DEF NoteIndexed, Shutdown, Start, vars, tables, redis, asking
  <2>2. QED
    BY <2>1, Unseen
<1>7. QED
  BY <1>1, <1>2, <1>3, <1>4, <1>5, <1>6 DEF Next

(* IngestDocument, IngestionPipeline.run and hybrid_search, for every number *)
(* of uploads, with errors, shutdowns, crashes and restarts between any two  *)
(* of their calls: tables and answers are those of a shelf in order.         *)
THEOREM IngestionImplementsShelf == Spec => ImplementsShelf
<1>1. Init => Shelf!Init
  BY DEF Init, NoTurn, Shelf!Init, Shelved, Asked, Found
<1>2. Inv /\ [Next]_vars => [Shelf!Next]_(Shelf!vars)
  BY StepIsShelfStep DEF Inv
<1>3. QED
  BY <1>1, <1>2, Invariant, PTL DEF Spec, ImplementsShelf, Shelf!Spec
=============================================================================
