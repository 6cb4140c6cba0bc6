--------------------------- MODULE DocumentChunks ---------------------------
(***************************************************************************)
(* What ingestion does to the text of one document: DocumentProcessor      *)
(* extracts pages, Chunker cuts them into overlapping windows, Embedder    *)
(* embeds the windows in batches, and the records pair the two by zip.     *)
(*                                                                         *)
(* A step is one iteration of one of the three loops.  A text is the       *)
(* number of its words; which words a window holds is an interval.         *)
(***************************************************************************)
EXTENDS Naturals, Sequences

CONSTANTS Size, Overlap, MinTokens,   \* chunk_size_tokens, chunk_overlap_tokens,
                                      \* min_chunk_tokens: 512, 64 and 50 as shipped
          BatchSize,                  \* embedding_batch_size
          Documents                   \* the documents that may come

Kinds == {"pdf", "docx", "text"}

\* A paragraph of a docx, a page of a pdf, or a text file as a whole.
Items == [heading : BOOLEAN, words : Nat]

ASSUME ChunkAssumption ==
  /\ Size \in Nat /\ Overlap \in Nat /\ MinTokens \in Nat
  /\ BatchSize \in Nat \ {0}
  /\ Overlap < Size
  /\ MinTokens <= Size
  /\ Documents \subseteq [kind : Kinds, items : Seq(Items)]

VARIABLES
  document,     \* the document that came
  phase,        \* the loop that runs
  next,         \* its loop variable: item, page, or chunks embedded so far
  buffer,       \* the paragraphs since the last heading (docx)
  section,      \* the paragraph current_section is from, 0 for None
  pages,        \* RawPages
  start,        \* first word of the next window of the page
  chunks,       \* TextChunks
  embeddings    \* what was embedded, in the order of the answers

vars == <<document, phase, next, buffer, section, pages, start, chunks, embeddings>>

------------------------------------------------------------------------------
Nothing == [text |-> <<>>, words |-> 0]

\* The text of a page is the items it is made of; `words' is what split() of
\* their joined text counts.
RawPage(b, s) == [text |-> b.text, words |-> b.words, section |-> s]

RawPages == [text : Seq(Nat), words : Nat, section : Nat]

\* page_number and section_title of a chunk are those of its page.
TextChunk(p, from, to) == [page |-> p, from |-> from, to |-> to]

TextChunks == [page : Nat, from : Nat, to : Nat]

Init ==
  /\ document \in Documents
  /\ phase = "extracting"
  /\ next = 1
  /\ buffer = Nothing
  /\ section = 0
  /\ pages = <<>>
  /\ start = 0
  /\ chunks = <<>>
  /\ embeddings = <<>>

Item == document.items[next]

Extracting(kinds) ==
  /\ phase = "extracting"
  /\ document.kind \in kinds
  /\ next <= Len(document.items)
  /\ next' = next + 1
  /\ UNCHANGED <<document, phase, start, chunks, embeddings>>

\* Blank pages of a pdf are left out, a blank text file is a page.
ExtractPage ==
  /\ Extracting({"pdf", "text"})
  /\ pages' = IF Item.words > 0 \/ document.kind = "text"
              THEN Append(pages, RawPage([text |-> <<next>>, words |-> Item.words], 0))
              ELSE pages
  /\ UNCHANGED <<buffer, section>>

Flush == IF buffer.text = <<>> THEN pages ELSE Append(pages, RawPage(buffer, section))

\* Mutated form: a blank heading takes the title away.
TitledAlways == next

\* A blank heading ends the page and keeps the section's title.
Titled == IF Item.words > 0 THEN next ELSE section

ExtractHeading ==
  /\ Extracting({"docx"})
  /\ Item.heading
  /\ pages' = Flush
  /\ buffer' = Nothing
  /\ section' = Titled

ExtractParagraph ==
  /\ Extracting({"docx"})
  /\ ~Item.heading
  /\ buffer' = IF Item.words > 0
               THEN [text |-> Append(buffer.text, next), words |-> buffer.words + Item.words]
               ELSE buffer
  /\ UNCHANGED <<section, pages>>

EndOfDocument ==
  /\ phase = "extracting"
  /\ next > Len(document.items)
  /\ pages' = IF Flush = <<>> THEN <<RawPage(Nothing, 0)>> ELSE Flush
  /\ buffer' = Nothing
  /\ phase' = "chunking"
  /\ next' = 1
  /\ UNCHANGED <<document, section, start, chunks, embeddings>>

------------------------------------------------------------------------------
(* Chunker.chunk: one window, or one page without words. *)

\* Mutated form: the last window is not cut at the end of the page.
WindowEndUncut == start + Size

WindowEnd ==
  IF start + Size < pages[next].words THEN start + Size ELSE pages[next].words

\* Mutated form: the minimum itself is too short.
KeepAbove(end) == end - start > MinTokens \/ chunks = <<>>

\* Mutated form: the first chunk is no exception.
KeepLong(end) == end - start >= MinTokens

\* A window under the minimum is dropped unless it would be the first chunk.
Keep(end) == end - start >= MinTokens \/ chunks = <<>>

\* Mutated form: the windows do not overlap.
NextStartAtEnd == WindowEnd

NextStart == WindowEnd - Overlap

\* Mutated form: the loop goes on until the start is at the end.
PageOverLate == start = pages[next].words

PageOver == WindowEnd = pages[next].words

Window ==
  /\ phase = "chunking"
  /\ next <= Len(pages)
  /\ start < pages[next].words
  /\ chunks' = IF Keep(WindowEnd) THEN Append(chunks, TextChunk(next, start, WindowEnd))
               ELSE chunks
  /\ \/ /\ PageOver
        /\ next' = next + 1
        /\ start' = 0
     \/ /\ ~PageOver
        /\ next' = next
        /\ start' = NextStart
  /\ UNCHANGED <<document, phase, buffer, section, pages, embeddings>>

SkipPage ==
  /\ phase = "chunking"
  /\ next <= Len(pages)
  /\ pages[next].words = 0
  /\ next' = next + 1
  /\ UNCHANGED <<document, phase, buffer, section, pages, start, chunks, embeddings>>

EndOfPages ==
  /\ phase = "chunking"
  /\ next > Len(pages)
  /\ phase' = "embedding"
  /\ next' = 0
  /\ UNCHANGED <<document, buffer, section, pages, start, chunks, embeddings>>

------------------------------------------------------------------------------
(* Embedder.embed_texts.  An embedding is known by the chunk it is of. *)

\* Mutated form: a batch is one text short.
BatchShort == SubSeq(chunks, next + 1,
                     IF next + BatchSize < Len(chunks) THEN next + BatchSize - 1 ELSE Len(chunks))

Batch == SubSeq(chunks, next + 1,
                IF next + BatchSize < Len(chunks) THEN next + BatchSize ELSE Len(chunks))

EmbedBatch ==
  /\ phase = "embedding"
  /\ next < Len(chunks)
  /\ embeddings' = embeddings \o Batch
  /\ next' = next + BatchSize
  /\ UNCHANGED <<document, phase, buffer, section, pages, start, chunks>>

EndOfChunks ==
  /\ phase = "embedding"
  /\ next >= Len(chunks)
  /\ phase' = "done"
  /\ UNCHANGED <<document, next, buffer, section, pages, start, chunks, embeddings>>

\* zip: chunk k goes with the k-th embedding, and the shorter list decides.
Records ==
  LET n == IF Len(chunks) < Len(embeddings) THEN Len(chunks) ELSE Len(embeddings)
  IN [k \in 1..n |-> [chunk |-> chunks[k], embedding |-> embeddings[k]]]

------------------------------------------------------------------------------
Next ==
  \/ ExtractPage \/ ExtractHeading \/ ExtractParagraph \/ EndOfDocument
  \/ Window \/ SkipPage \/ EndOfPages
  \/ EmbedBatch \/ EndOfChunks

\* The loops run on; the awaits of the embedding calls are taken to answer.
Spec == Init /\ [][Next]_vars /\ WF_vars(Next)

------------------------------------------------------------------------------
(* Properties. *)

\* Every variable stays in its type, and windows inside their page.
TypeOK ==
  /\ document \in Documents
  /\ phase \in {"extracting", "chunking", "embedding", "done"}
  /\ next \in Nat
  /\ buffer \in [text : Seq(Nat), words : Nat]
  /\ section \in Nat
  /\ pages \in Seq(RawPages)
  /\ start \in Nat
  /\ chunks \in Seq(TextChunks)
  /\ embeddings \in Seq(TextChunks)
  /\ \A k \in 1..Len(chunks) :
       /\ chunks[k].page \in 1..Len(pages)
       /\ chunks[k].from < chunks[k].to
       /\ chunks[k].to <= pages[chunks[k].page].words

Chunked(p) == \/ phase = "chunking" /\ p < next
              \/ phase \in {"embedding", "done"}

Covered(p, w) ==
  \E k \in 1..Len(chunks) :
    chunks[k].page = p /\ chunks[k].from <= w /\ w < chunks[k].to

\* Dropping a page's last window loses no word of a page that has min_tokens
\* words, but for its last min_tokens - overlap - 1: the windows before it reach
\* overlap words into it.  As shipped that is every word.
EnoughCovered ==
  \A p \in 1..Len(pages) :
    Chunked(p) /\ pages[p].words >= MinTokens =>
      \A w \in 0..(pages[p].words - 1) :
        w + MinTokens <= pages[p].words + Overlap => Covered(p, w)

\* Windows of one page that follow each other share exactly `overlap' words,
\* whatever was dropped, and pages come in order (T-CORR-02).
OverlapIsExact ==
  \A k \in 1..(Len(chunks) - 1) :
    \/ chunks[k + 1].page = chunks[k].page /\ chunks[k + 1].from + Overlap = chunks[k].to
    \/ chunks[k + 1].page > chunks[k].page /\ chunks[k + 1].from = 0

\* A document with any word keeps a chunk, however short its pages: it is not
\* indexed as if it were blank.
SomethingKept ==
  phase \in {"embedding", "done"} /\ (\E p \in 1..Len(pages) : pages[p].words > 0)
    => chunks # <<>>

LastHeading(i) ==
  LET titled == {h \in 1..(i - 1) : document.items[h].heading /\ document.items[h].words > 0}
  IN IF titled = {} THEN 0 ELSE CHOOSE h \in titled : \A g \in titled : g <= h

\* Every paragraph with text is on one page of the docx, under the last heading
\* before it that has a text: flushing late, or after the new title is set, puts
\* it under another (T-CORR-08).
UnderItsHeading ==
  phase # "extracting" /\ document.kind = "docx" =>
    \A i \in 1..Len(document.items) :
      ~document.items[i].heading /\ document.items[i].words > 0 =>
        \E p \in 1..Len(pages) :
          /\ \A q \in 1..Len(pages) :
               (\E j \in 1..Len(pages[q].text) : pages[q].text[j] = i) <=> q = p
          /\ pages[p].section = LastHeading(i)

\* The batches, put together, give every chunk its own embedding, and zip drops
\* none.
EveryChunkEmbedded ==
  phase = "done" =>
    /\ Len(Records) = Len(chunks)
    /\ \A k \in 1..Len(Records) : Records[k].embedding = Records[k].chunk

PhaseNumber == [extracting |-> 0, chunking |-> 1, embedding |-> 2, done |-> 3]

\* How far the loop variable of the phase can come.
LastNext == CASE phase = "extracting" -> Len(document.items) + 1
              [] phase = "chunking" -> Len(pages) + 1
              [] OTHER -> Len(chunks) + BatchSize

\* Every iteration takes its loop on, towards a bound that the loop does not move:
\* to the next phase, item, page or batch, or to a window that starts later in the
\* page.  In this order nothing goes on for ever, whatever is configured so long as
\* the overlap is smaller than the window, which the code takes for granted.
LoopsAdvance ==
  [][\/ PhaseNumber[phase'] > PhaseNumber[phase]
     \/ /\ phase' = phase /\ LastNext' = LastNext
        /\ \/ next < next' /\ next' <= LastNext
           \/ /\ next' = next /\ pages' = pages
              /\ start < start' /\ start' < pages[next].words]_vars

\* Ingestion of every document ends: each window starts after the one before it.
Ends == <>(phase = "done")
=============================================================================
