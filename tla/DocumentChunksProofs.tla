------------------------- MODULE DocumentChunksProofs -------------------------
(***************************************************************************)
(* What holds of DocumentChunks for every document, window size, overlap,  *)
(* minimum and batch size of the assumption.  The loop invariant of the    *)
(* chunker is Position: within a page the last chunk ends where the next   *)
(* window's overlap does, and everything before that is covered, for only  *)
(* the last window of a page can be short enough to be dropped.            *)
(***************************************************************************)
EXTENDS DocumentChunks, SequenceTheorems, TLAPS

\* Where the chunking of the pages stands.
Position ==
  /\ phase = "extracting" => next >= 1 /\ chunks = <<>> /\ start = 0 /\ embeddings = <<>>
  /\ phase = "chunking" =>
       /\ embeddings = <<>>
       /\ next >= 1
       /\ \A k \in 1..Len(chunks) : chunks[k].page <= next
       /\ start = 0 => \A k \in 1..Len(chunks) : chunks[k].page < next
       /\ start > 0 =>
            /\ next <= Len(pages)
            /\ start + Overlap < pages[next].words
            /\ chunks # <<>>
            /\ chunks[Len(chunks)].page = next
            /\ chunks[Len(chunks)].to = start + Overlap
            /\ \A w \in 0..(start + Overlap - 1) : Covered(next, w)

\* Only blank pages went by without a chunk.
BlankSoFar ==
  chunks = <<>> => \A p \in 1..Len(pages) : Chunked(p) => pages[p].words = 0

\* The embeddings are those of the first chunks.
Paired ==
  phase \in {"embedding", "done"} =>
    /\ Len(embeddings) = IF next < Len(chunks) THEN next ELSE Len(chunks)
    /\ \A k \in 1..Len(embeddings) : embeddings[k] = chunks[k]
    /\ phase = "done" => next >= Len(chunks)

Texts(page) == {page.text[j] : j \in 1..Len(page.text)}

IsParagraph(i) == ~document.items[i].heading /\ document.items[i].words > 0

\* One of the pages has paragraph i, and that one is under its heading.
OnOnePage(i, ps) ==
  \E p \in 1..Len(ps) : /\ \A q \in 1..Len(ps) : i \in Texts(ps[q]) <=> q = p
                        /\ ps[p].section = LastHeading(i)

\* While a docx is extracted a paragraph that was read is in the buffer, which is
\* under the current section, or on a page.
Headed ==
  document.kind = "docx" =>
    /\ phase = "extracting" =>
         /\ section = LastHeading(next)
         /\ \A i \in Texts(buffer) : i < next /\ LastHeading(i) = section
         /\ \A p \in 1..Len(pages) : \A i \in Texts(pages[p]) : i < next
         /\ \A i \in 1..Len(document.items) : i < next /\ IsParagraph(i) =>
              \/ i \in Texts(buffer) /\ \A p \in 1..Len(pages) : i \notin Texts(pages[p])
              \/ i \notin Texts(buffer) /\ OnOnePage(i, pages)
    /\ phase # "extracting" =>
         \A i \in 1..Len(document.items) : IsParagraph(i) => OnOnePage(i, pages)

Inv ==
  /\ TypeOK
  /\ Position
  /\ EnoughCovered
  /\ OverlapIsExact
  /\ BlankSoFar
  /\ Paired

LEMMA Initially == Init => Inv
<1> SUFFICES ASSUME Init PROVE Inv
  OBVIOUS
<1>1. TypeOK
  BY ChunkAssumption DEF Init, TypeOK, Nothing
<1>2. Position /\ EnoughCovered /\ OverlapIsExact /\ BlankSoFar /\ Paired
  BY DEF Init, Position, EnoughCovered, OverlapIsExact, BlankSoFar, Paired, Chunked
<1>3. QED
  BY <1>1, <1>2 DEF Inv

LEMMA ItemType ==
  ASSUME TypeOK, next <= Len(document.items), next >= 1
  PROVE  Item.words \in Nat
<1>1. document.items \in Seq(Items)
  BY ChunkAssumption DEF TypeOK
<1>2. document.items[next] \in Items
  BY <1>1, ElementOfSeq DEF TypeOK
<1>3. QED
  BY <1>2 DEF Item, Items

LEMMA FlushType == TypeOK => Flush \in Seq(RawPages)
<1> SUFFICES ASSUME TypeOK PROVE Flush \in Seq(RawPages)
  OBVIOUS
<1>1. RawPage(buffer, section) \in RawPages
  BY DEF TypeOK, RawPage, RawPages
<1>2. QED
  BY <1>1 DEF TypeOK, Flush

\* While pages are extracted there is no chunk, and every conjunct but the type
\* is about chunks.
LEMMA ExtractingKept ==
  Inv /\ (ExtractPage \/ ExtractHeading \/ ExtractParagraph \/ EndOfDocument) => Inv'
<1> SUFFICES ASSUME Inv, ExtractPage \/ ExtractHeading \/ ExtractParagraph \/ EndOfDocument
             PROVE  Inv'
  OBVIOUS
<1>1. /\ phase = "extracting" /\ next \in Nat /\ next >= 1
      /\ chunks = <<>> /\ start = 0 /\ embeddings = <<>>
      /\ UNCHANGED <<document, start, chunks, embeddings>>
      /\ phase' = "extracting" \/ (phase' = "chunking" /\ next' = 1)
      /\ phase' = "extracting" => next' = next + 1
  BY DEF Inv, TypeOK, Position, ExtractPage, ExtractHeading, ExtractParagraph, EndOfDocument,
         Extracting
<1>2. buffer' \in [text : Seq(Nat), words : Nat] /\ section' \in Nat
  <2>1. CASE ExtractPage
    BY <2>1 DEF ExtractPage, Inv, TypeOK
  <2>2. CASE ExtractHeading
    BY <2>2, <1>1 DEF ExtractHeading, Titled, Nothing, Inv, TypeOK
  <2>3. CASE ExtractParagraph
    <3>1. Item.words \in Nat
      BY <2>3, <1>1, ItemType DEF ExtractParagraph, Extracting, Inv
    <3>2. buffer.text \in Seq(Nat) /\ buffer.words \in Nat
      BY DEF Inv, TypeOK
    <3>3. [text |-> Append(buffer.text, next), words |-> buffer.words + Item.words]
            \in [text : Seq(Nat), words : Nat]
      BY <1>1, <3>1, <3>2
    <3>4. QED
      BY <2>3, <3>3 DEF ExtractParagraph, Inv, TypeOK
  <2>4. CASE EndOfDocument
    BY <2>4 DEF EndOfDocument, Nothing, Inv, TypeOK
  <2>5. QED
    BY <2>1, <2>2, <2>3, <2>4
<1>3. pages' \in Seq(RawPages)
  <2>1. CASE ExtractPage
    <3>1. Item.words \in Nat
      BY <2>1, <1>1, ItemType DEF ExtractPage, Extracting, Inv
    <3>2. RawPage([text |-> <<next>>, words |-> Item.words], 0) \in RawPages
      BY <1>1, <3>1 DEF RawPage, RawPages
    <3>3. QED
      BY <2>1, <3>2 DEF ExtractPage, Inv, TypeOK
  <2>2. CASE ExtractHeading
    BY <2>2, FlushType DEF ExtractHeading, Inv
  <2>3. CASE ExtractParagraph
    BY <2>3 DEF ExtractParagraph, Inv, TypeOK
  <2>4. CASE EndOfDocument
    <3>1. RawPage(Nothing, 0) \in RawPages
      BY DEF RawPage, RawPages, Nothing
    <3>2. QED
      BY <2>4, <3>1, FlushType DEF EndOfDocument, Inv
  <2>5. QED
    BY <2>1, <2>2, <2>3, <2>4
<1>4. TypeOK'
  BY <1>1, <1>2, <1>3 DEF TypeOK, Inv
<1>5. (Position /\ OverlapIsExact /\ Paired)'
  BY <1>1 DEF Position, OverlapIsExact, Paired
<1>6. \A p \in 1..Len(pages') : ~Chunked(p)'
  BY <1>1 DEF Chunked
<1>7. (EnoughCovered /\ BlankSoFar)'
  BY <1>6 DEF EnoughCovered, BlankSoFar
<1>8. QED
  BY <1>4, <1>5, <1>7 DEF Inv
------------------------------------------------------------------------------
\* What one window does: it lies in the page, and is short only where the page
\* ends.
LEMMA WindowShape ==
  ASSUME TypeOK, Position, Window
  PROVE  /\ next \in 1..Len(pages) /\ pages[next].words \in Nat
         /\ WindowEnd \in Nat /\ start < WindowEnd /\ WindowEnd <= pages[next].words
         /\ PageOver \/ (WindowEnd = start + Size /\ Keep(WindowEnd) /\ NextStart > 0
                          /\ NextStart \in Nat /\ NextStart + Overlap = WindowEnd
                          /\ WindowEnd < pages[next].words)
<1>1. next \in 1..Len(pages)
  BY DEF Window, Position, TypeOK
<1>2. pages[next] \in RawPages
  BY <1>1 DEF TypeOK
<1>3. pages[next].words \in Nat
  BY <1>2 DEF RawPages
<1>4. start \in Nat /\ start < pages[next].words
  BY DEF Window, TypeOK
<1>5. QED
  BY <1>1, <1>3, <1>4, ChunkAssumption DEF WindowEnd, PageOver, Keep, NextStart

\* The chunks after a window are those before it, and the window's if it is kept.
LEMMA WindowChunks ==
  ASSUME TypeOK, Position, Window
  PROVE  \/ Keep(WindowEnd) /\ chunks' = Append(chunks, TextChunk(next, start, WindowEnd))
            /\ Len(chunks') = Len(chunks) + 1
            /\ chunks'[Len(chunks) + 1] = TextChunk(next, start, WindowEnd)
            /\ \A k \in 1..Len(chunks) : chunks'[k] = chunks[k]
         \/ ~Keep(WindowEnd) /\ chunks' = chunks /\ chunks # <<>>
BY DEF Window, TypeOK, Keep

LEMMA WindowKept == Inv /\ Window => Inv'
<1> SUFFICES ASSUME Inv, Window PROVE Inv'
  OBVIOUS
<1> USE DEF Inv
<1>1. /\ phase = "chunking" /\ phase' = "chunking"
      /\ UNCHANGED <<document, buffer, section, pages, embeddings>>
      /\ \/ PageOver /\ next' = next + 1 /\ start' = 0
         \/ ~PageOver /\ next' = next /\ start' = NextStart
  BY DEF Window
<1> DEFINE end == WindowEnd
           chunk == TextChunk(next, start, end)
           Cov(p, w) == \E k \in 1..Len(chunks') :
             chunks'[k].page = p /\ chunks'[k].from <= w /\ w < chunks'[k].to
<1>2. /\ next \in 1..Len(pages) /\ pages[next].words \in Nat
      /\ end \in Nat /\ start < end /\ end <= pages[next].words
      /\ PageOver \/ (end = start + Size /\ Keep(end) /\ NextStart > 0
                       /\ NextStart \in Nat /\ NextStart + Overlap = end
                       /\ end < pages[next].words)
  BY WindowShape
<1>3. \/ Keep(end) /\ chunks' = Append(chunks, chunk) /\ Len(chunks') = Len(chunks) + 1
         /\ chunks'[Len(chunks) + 1] = chunk /\ \A k \in 1..Len(chunks) : chunks'[k] = chunks[k]
      \/ ~Keep(end) /\ chunks' = chunks /\ chunks # <<>>
  BY WindowChunks
<1>4. Len(chunks) \in Nat /\ start \in Nat /\ next \in Nat /\ Overlap \in Nat
      /\ chunk.page = next /\ chunk.from = start /\ chunk.to = end /\ chunk \in TextChunks
  BY <1>2, ChunkAssumption DEF TypeOK, TextChunk, TextChunks
<1> HIDE DEF end, chunk
<1>5. TypeOK'
  <2>1. chunks' \in Seq(TextChunks)
    <3>1. chunks \in Seq(TextChunks) /\ chunk \in TextChunks
      BY <1>4 DEF TypeOK
    <3>2. QED
      BY <1>3, <3>1
  <2>2. \A k \in 1..Len(chunks') :
          /\ chunks'[k].page \in 1..Len(pages)
          /\ chunks'[k].from < chunks'[k].to
          /\ chunks'[k].to <= pages[chunks'[k].page].words
    <3> TAKE k \in 1..Len(chunks')
    <3>1. CASE k \in 1..Len(chunks)
      BY <1>3, <1>4, <3>1 DEF TypeOK
    <3>2. CASE k \notin 1..Len(chunks)
      <4>1. chunks'[k] = chunk
        BY <1>3, <1>4, <3>2
      <4>2. QED
        BY <1>2, <1>4, <4>1
    <3>3. QED
      BY <3>1, <3>2
  <2>3. QED
    BY <1>1, <1>2, <1>4, <2>1, <2>2 DEF TypeOK
\* Every word covered before the window stays so, and a window that is kept
\* covers its own.
<1>6. \A p, w : Covered(p, w) => Cov(p, w)
  BY <1>3, <1>4 DEF Covered
<1>7. Keep(end) => \A w \in Nat : start <= w /\ w < end => Cov(next, w)
  <2> SUFFICES ASSUME Keep(end), NEW w \in Nat, start <= w, w < end
               PROVE  Cov(next, w)
    OBVIOUS
  <2>1. Len(chunks) + 1 \in 1..Len(chunks')
    BY <1>3, <1>4
  <2>2. QED
    BY <1>3, <1>4, <2>1
<1>8. start > 0 => \A w \in Nat : w < start + Overlap => Cov(next, w)
  <2> SUFFICES ASSUME start > 0, NEW w \in Nat, w < start + Overlap PROVE Cov(next, w)
    OBVIOUS
  <2>1. w \in 0..(start + Overlap - 1)
    BY <1>4
  <2>2. QED
    BY <1>1, <1>6, <2>1 DEF Position
<1>9. Position'
  <2>1. \A k \in 1..Len(chunks') : chunks'[k].page <= next
    BY <1>1, <1>3, <1>4 DEF Position
  <2>2. CASE PageOver
    <3>1. next' = next + 1 /\ start' = 0
      BY <1>1, <2>2
    <3>2. \A k \in 1..Len(chunks') : chunks'[k].page \in Nat
      BY <1>5, <1>1 DEF TypeOK
    <3>3. QED
      BY <1>1, <1>4, <2>1, <3>1, <3>2 DEF Position
  <2>3. CASE ~PageOver
    <3>1. next' = next /\ start' = NextStart /\ Keep(end) /\ start' > 0 /\ start' + Overlap = end
      BY <1>1, <1>2, <2>3
    <3>2. \A w \in 0..(end - 1) : Cov(next, w)
      <4> TAKE w \in 0..(end - 1)
      <4>1. w \in Nat /\ w < end
        BY <1>2
      <4>2. CASE start <= w
        BY <1>7, <3>1, <4>1, <4>2
      <4>3. CASE ~(start <= w)
        BY <1>4, <1>8, <4>1, <4>3
      <4>4. QED
        BY <4>2, <4>3
    <3>3. chunks' # <<>> /\ chunks'[Len(chunks')] = chunk
      BY <1>3, <1>4, <3>1
    <3>4. embeddings' = <<>> /\ next' >= 1
      BY <1>1, <1>2, <3>1 DEF Position
    <3>5. \A w \in 0..(end - 1) : Covered(next, w)'
      BY <3>1, <3>2 DEF Covered
    <3>6. start' \in Nat /\ start' + Overlap - 1 = end - 1
      BY <1>2, <1>4, <2>3, <3>1
    <3>7. chunks'[Len(chunks')].page = next' /\ chunks'[Len(chunks')].to = start' + Overlap
      BY <1>4, <3>1, <3>3
    <3>8. next' <= Len(pages') /\ start' + Overlap < pages'[next'].words
      BY <1>1, <1>2, <2>3, <3>1
    <3>9. QED
      BY <1>1, <2>1, <3>1, <3>3, <3>4, <3>5, <3>6, <3>7, <3>8 DEF Position
  <2>4. QED
    BY <2>2, <2>3
<1>10. EnoughCovered'
  <2> SUFFICES ASSUME NEW p \in 1..Len(pages), Chunked(p)', pages[p].words >= MinTokens,
                      NEW w \in 0..(pages[p].words - 1),
                      w + MinTokens <= pages[p].words + Overlap
               PROVE  Cov(p, w)
    BY <1>1 DEF EnoughCovered, Covered
  <2>1. CASE Chunked(p)
    BY <2>1, <1>6 DEF EnoughCovered
  <2>2. CASE ~Chunked(p)
    <3>1. p = next /\ PageOver
      BY <1>1, <1>4, <2>2 DEF Chunked
    <3>2. end = pages[next].words
      BY <3>1 DEF PageOver, end
    <3>3. CASE start > 0 /\ w < start + Overlap
      BY <1>8, <3>1, <3>3, <1>2
    <3>4. CASE ~(start > 0 /\ w < start + Overlap)
      <4>1. MinTokens \in Nat /\ w \in Nat /\ w < end
        BY <1>2, <3>1, <3>2, ChunkAssumption
      <4>2. start <= w
        BY <1>4, <3>4, <4>1
      <4>3. end - start >= MinTokens
        <5>1. /\ end \in Nat /\ start \in Nat /\ Overlap \in Nat
              /\ end >= MinTokens /\ w + MinTokens <= end + Overlap
          BY <1>2, <1>4, <3>1, <3>2
        <5>2. start = 0 \/ start + Overlap <= w
          BY <3>4, <4>1, <5>1
        <5>3. QED
          BY <4>1, <5>1, <5>2
      <4>4. Keep(end)
        BY <4>3 DEF Keep
      <4>5. QED
        BY <1>7, <3>1, <4>1, <4>2, <4>4
    <3>5. QED
      BY <3>3, <3>4
  <2>3. QED
    BY <2>1, <2>2
<1>11. OverlapIsExact'
  <2>1. CASE ~Keep(end)
    BY <1>3, <2>1 DEF OverlapIsExact
  <2>2. CASE Keep(end)
    <3> SUFFICES ASSUME NEW k \in 1..(Len(chunks') - 1)
                 PROVE  \/ /\ chunks'[k + 1].page = chunks'[k].page
                           /\ chunks'[k + 1].from + Overlap = chunks'[k].to
                        \/ /\ chunks'[k + 1].page > chunks'[k].page
                           /\ chunks'[k + 1].from = 0
      BY <1>1 DEF OverlapIsExact
    <3>1. CASE k < Len(chunks)
      <4>1. k \in 1..(Len(chunks) - 1) /\ k \in 1..Len(chunks) /\ k + 1 \in 1..Len(chunks)
        BY <1>4, <3>1
      <4>2. chunks'[k] = chunks[k] /\ chunks'[k + 1] = chunks[k + 1]
        BY <1>3, <4>1
      <4>3. QED
        BY <4>1, <4>2 DEF OverlapIsExact
    <3>2. CASE k = Len(chunks)
      <4>1. chunks'[k + 1] = chunk /\ chunks'[k] = chunks[k] /\ k \in 1..Len(chunks)
        BY <1>3, <1>4, <2>2, <3>2
      <4>2. CASE start = 0
        BY <1>1, <1>4, <4>1, <4>2 DEF Position, TypeOK
      <4>3. CASE start > 0
        BY <1>1, <1>4, <3>2, <4>1, <4>3 DEF Position
      <4>4. QED
        BY <1>4, <4>2, <4>3
    <3>3. QED
      BY <1>3, <1>4, <2>2, <3>1, <3>2
  <2>3. QED
    BY <2>1, <2>2
<1>12. BlankSoFar'
  <2>1. chunks' # <<>>
    BY <1>3, <1>4
  <2>2. QED
    BY <2>1 DEF BlankSoFar
<1>13. Paired'
  BY <1>1 DEF Paired
<1>14. QED
  BY <1>5, <1>9, <1>10, <1>11, <1>12, <1>13
------------------------------------------------------------------------------
LEMMA PagesKept == Inv /\ (SkipPage \/ EndOfPages) => Inv'
<1> SUFFICES ASSUME Inv, SkipPage \/ EndOfPages PROVE Inv'
  OBVIOUS
<1> USE DEF Inv
<1>1. /\ phase = "chunking" /\ next \in Nat
      /\ UNCHANGED <<document, buffer, section, pages, start, chunks, embeddings>>
  BY DEF SkipPage, EndOfPages, TypeOK
<1>2. CASE SkipPage
  <2>1. next \in 1..Len(pages) /\ pages[next].words = 0 /\ next' = next + 1 /\ phase' = phase
    BY <1>2, <1>1 DEF SkipPage, Position
  \* No window of a blank page was begun.
  <2>2. start = 0
    BY <1>1, <2>1, ChunkAssumption DEF Position, TypeOK
  <2>3. TypeOK' /\ OverlapIsExact' /\ Paired'
    BY <1>1, <2>1 DEF TypeOK, OverlapIsExact, Paired
  <2>4. Position'
    <3>1. \A k \in 1..Len(chunks) : chunks[k].page \in Nat /\ chunks[k].page < next
      <4>1. \A k \in 1..Len(chunks) : chunks[k].page \in 1..Len(pages)
        BY DEF TypeOK
      <4>2. \A k \in 1..Len(chunks) : chunks[k].page < next
        BY <1>1, <2>2 DEF Position
      <4>3. QED
        BY <4>1, <4>2
    <3>2. \A k \in 1..Len(chunks') : chunks'[k].page <= next' /\ chunks'[k].page < next'
      BY <1>1, <2>1, <3>1
    <3>3. start' = 0 /\ next' >= 1 /\ embeddings' = <<>> /\ phase' = "chunking"
      BY <1>1, <2>1, <2>2 DEF Position
    <3>4. QED
      BY <3>2, <3>3 DEF Position
  <2>5. \A p \in 1..Len(pages) : Chunked(p)' => Chunked(p) \/ p = next
    BY <1>1, <2>1 DEF Chunked
  <2>6. EnoughCovered' /\ BlankSoFar'
    <3>1. \A p, w : Covered(p, w)' <=> Covered(p, w)
      BY <1>1 DEF Covered
    <3>2. EnoughCovered'
      <4> SUFFICES ASSUME NEW p \in 1..Len(pages), Chunked(p)', pages[p].words >= MinTokens,
                          NEW w \in 0..(pages[p].words - 1),
                          w + MinTokens <= pages[p].words + Overlap
                   PROVE  Covered(p, w)
        BY <1>1, <3>1 DEF EnoughCovered
      <4>1. p # next
        BY <2>1
      <4>2. QED
        BY <2>5, <4>1 DEF EnoughCovered
    <3>3. BlankSoFar'
      BY <1>1, <2>1, <2>5 DEF BlankSoFar
    <3>4. QED
      BY <3>2, <3>3
  <2>7. QED
    BY <2>3, <2>4, <2>6
<1>3. CASE EndOfPages
  <2>1. next > Len(pages) /\ phase' = "embedding" /\ next' = 0
    BY <1>3 DEF EndOfPages
  <2>2. TypeOK' /\ OverlapIsExact' /\ Position'
    BY <1>1, <2>1 DEF TypeOK, OverlapIsExact, Position
  <2>3. Paired'
    BY <1>1, <2>1 DEF Position, Paired, TypeOK
  <2>4. \A p \in 1..Len(pages) : Chunked(p)
    BY <1>1, <2>1 DEF Chunked, TypeOK
  <2>5. EnoughCovered' /\ BlankSoFar'
    BY <1>1, <2>1, <2>4 DEF EnoughCovered, BlankSoFar, Covered
  <2>6. QED
    BY <2>2, <2>3, <2>5
<1>4. QED
  BY <1>2, <1>3

\* The next batch goes on where the embeddings end, and both loops stop at the
\* last chunk.
LEMMA EmbeddingKept == Inv /\ (EmbedBatch \/ EndOfChunks \/ UNCHANGED vars) => Inv'
<1> SUFFICES ASSUME Inv, EmbedBatch \/ EndOfChunks \/ UNCHANGED vars PROVE Inv'
  OBVIOUS
<1> USE DEF Inv
<1>1. CASE EmbedBatch
  <2> DEFINE upto == IF next + BatchSize < Len(chunks) THEN next + BatchSize ELSE Len(chunks)
  <2>1. /\ phase = "embedding" /\ next < Len(chunks) /\ next \in Nat
        /\ embeddings' = embeddings \o Batch /\ next' = next + BatchSize
        /\ UNCHANGED <<document, phase, buffer, section, pages, start, chunks>>
    BY <1>1 DEF EmbedBatch, TypeOK
  <2>2. chunks \in Seq(TextChunks) /\ embeddings \in Seq(TextChunks) /\ Len(embeddings) = next
        /\ Len(chunks) \in Nat /\ upto \in Nat /\ next <= upto /\ upto <= Len(chunks)
    BY <2>1, ChunkAssumption DEF TypeOK, Paired
  <2>3. Batch = SubSeq(chunks, next + 1, upto)
    BY DEF Batch
  <2> HIDE DEF upto
  <2>4. /\ Batch \in Seq(TextChunks) /\ Len(Batch) = upto - next
        /\ \A i \in 1..(upto - next) : Batch[i] = chunks[next + i]
    <3>1. /\ next + 1 \in Int /\ upto \in Int
          /\ \A i \in (next + 1)..upto : chunks[i] \in TextChunks
      BY <2>1, <2>2
    <3>2. /\ Batch \in Seq(TextChunks)
          /\ Len(Batch) = IF next + 1 <= upto THEN upto - (next + 1) + 1 ELSE 0
          /\ \A i \in 1..(upto - (next + 1) + 1) : Batch[i] = chunks[next + 1 + i - 1]
      BY <2>3, <3>1, SubSeqProperties
    <3>3. /\ upto - (next + 1) + 1 = upto - next
          /\ \A i \in 1..(upto - next) : next + 1 + i - 1 = next + i
          /\ IF next + 1 <= upto THEN upto - next = upto - (next + 1) + 1 ELSE upto - next = 0
      BY <2>1, <2>2
    <3>4. Len(Batch) = upto - next
      BY <3>2, <3>3
    <3>5. \A i \in 1..(upto - next) : Batch[i] = chunks[next + i]
      BY <3>2, <3>3
    <3>6. QED
      BY <3>2, <3>4, <3>5
  <2>5. embeddings' \in Seq(TextChunks) /\ Len(embeddings') = upto
    <3>1. /\ embeddings \o Batch \in Seq(TextChunks)
          /\ Len(embeddings \o Batch) = next + (upto - next)
      BY <2>2, <2>4, ConcatProperties
    <3>2. next + (upto - next) = upto
      BY <2>1, <2>2
    <3>3. QED
      BY <2>1, <3>1, <3>2
  <2>6. \A k \in 1..upto : embeddings'[k] = chunks[k]
    <3> TAKE k \in 1..upto
    <3>1. CASE k <= next
      BY <2>1, <2>2, <2>4, <3>1 DEF Paired
    <3>2. CASE k > next
      <4>1. k - next \in 1..(upto - next) /\ next + (k - next) = k
        BY <2>1, <2>2, <3>2
      <4>2. embeddings'[k] = Batch[k - next]
        BY <2>1, <2>2, <2>4, <3>2
      <4>3. QED
        BY <2>4, <4>1, <4>2
    <3>3. k <= next \/ k > next
      BY <2>1, <2>2
    <3>4. QED
      BY <3>1, <3>2, <3>3
  <2>7. Paired'
    BY <2>1, <2>5, <2>6 DEF Paired, upto
  <2>8. TypeOK'
    BY <2>1, <2>5, ChunkAssumption DEF TypeOK
  <2>9. Position' /\ EnoughCovered' /\ OverlapIsExact' /\ BlankSoFar'
    BY <2>1 DEF Position, EnoughCovered, OverlapIsExact, BlankSoFar, Chunked, Covered
  <2>10. QED
    BY <2>7, <2>8, <2>9
<1>2. CASE EndOfChunks
  BY <1>2 DEF EndOfChunks, TypeOK, Position, EnoughCovered, OverlapIsExact, BlankSoFar, Paired,
              Chunked, Covered
<1>3. CASE UNCHANGED vars
  BY <1>3 DEF vars, TypeOK, Position, EnoughCovered, OverlapIsExact, BlankSoFar, Paired,
              Chunked, Covered
<1>4. QED
  BY <1>1, <1>2, <1>3

------------------------------------------------------------------------------
(* Paragraphs and their headings. *)

\* LastHeading, one item at a time.
LEMMA HeadingNext ==
  /\ LastHeading(1) = 0
  /\ \A i \in Nat \ {0} :
       LastHeading(i + 1) = IF document.items[i].heading /\ document.items[i].words > 0
                            THEN i ELSE LastHeading(i)
<1> DEFINE Is(h) == document.items[h].heading /\ document.items[h].words > 0
           Before(i) == {h \in 1..(i - 1) : Is(h)}
           Latest(hs) == CHOOSE h \in hs : \A g \in hs : g <= h
<1>1. \A i : LastHeading(i) = IF Before(i) = {} THEN 0 ELSE Latest(Before(i))
  BY DEF LastHeading
<1> HIDE DEF Is
<1>2. Before(1) = {}
  OBVIOUS
<1>3. ASSUME NEW i \in Nat \ {0}, ~Is(i) PROVE Before(i + 1) = Before(i)
  BY <1>3
<1>4. ASSUME NEW i \in Nat \ {0}, Is(i) PROVE Before(i + 1) # {} /\ Latest(Before(i + 1)) = i
  <2>1. i \in Before(i + 1) /\ \A g \in Before(i + 1) : g <= i
    BY <1>4
  <2>2. \A h \in Before(i + 1) : (\A g \in Before(i + 1) : g <= h) => h = i
    BY <2>1
  <2> HIDE DEF Before
  <2>3. QED
    BY <2>1, <2>2
<1> HIDE DEF Before, Latest
<1>5. LastHeading(1) = 0
  BY <1>1, <1>2
<1>6. ASSUME NEW i \in Nat \ {0}
      PROVE  LastHeading(i + 1) = IF Is(i) THEN i ELSE LastHeading(i)
  BY <1>1, <1>3, <1>4
<1>7. QED
  BY <1>5, <1>6 DEF Is

LEMMA TextsAppended ==
  ASSUME NEW text \in Seq(Nat), NEW n \in Nat, NEW w, NEW v
  PROVE  Texts([text |-> Append(text, n), words |-> w])
           = Texts([text |-> text, words |-> v]) \cup {n}
<1> DEFINE more == Append(text, n)
<1>1. /\ Len(more) = Len(text) + 1 /\ Len(text) \in Nat
      /\ more[Len(text) + 1] = n /\ \A j \in 1..Len(text) : more[j] = text[j]
  OBVIOUS
<1>2. Texts([text |-> more, words |-> w]) = {more[j] : j \in 1..Len(more)}
  BY DEF Texts
<1>3. Texts([text |-> text, words |-> v]) = {text[j] : j \in 1..Len(text)}
  BY DEF Texts
<1> HIDE DEF more
<1>4. {more[j] : j \in 1..(Len(text) + 1)} = {text[j] : j \in 1..Len(text)} \cup {n}
  <2> DEFINE len == Len(text)
  <2>1. len + 1 \in 1..(len + 1) /\ \A j \in 1..len : j \in 1..(len + 1)
    BY <1>1
  <2>2. \A j \in 1..(len + 1) : j = len + 1 \/ j \in 1..len
    BY <1>1
  <2>3. more[len + 1] = n /\ \A j \in 1..len : more[j] = text[j]
    BY <1>1
  <2> HIDE DEF len
  <2>4. {more[j] : j \in 1..(len + 1)} = {text[j] : j \in 1..len} \cup {n}
    BY <2>1, <2>2, <2>3
  <2>5. QED
    BY <2>4 DEF len
<1>5. QED
  BY <1>1, <1>2, <1>3, <1>4 DEF more

LEMMA NothingHasNoText == Texts(Nothing) = {}
BY DEF Texts, Nothing

LEMMA ItemsType == TypeOK => Len(document.items) \in Nat
<1> SUFFICES ASSUME TypeOK PROVE Len(document.items) \in Nat
  OBVIOUS
<1>1. document.items \in Seq(Items)
  BY ChunkAssumption DEF TypeOK
<1>2. QED
  BY <1>1

LEMMA TextIsOfItems ==
  ASSUME TypeOK
  PROVE  /\ \A i \in Texts(buffer) : i \in Nat
         /\ \A p \in 1..Len(pages) : \A i \in Texts(pages[p]) : i \in Nat
         /\ \A p \in 1..Len(Flush) : \A i \in Texts(Flush[p]) : i \in Nat
<1>1. ASSUME NEW ps \in Seq(RawPages), NEW p \in 1..Len(ps), NEW i \in Texts(ps[p])
      PROVE  i \in Nat
  <2>1. ps[p] \in RawPages
    OBVIOUS
  <2>2. ps[p].text \in Seq(Nat)
    BY <2>1 DEF RawPages
  <2>3. PICK j \in 1..Len(ps[p].text) : i = ps[p].text[j]
    BY DEF Texts
  <2>4. QED
    BY <2>2, <2>3
<1>2. pages \in Seq(RawPages) /\ Flush \in Seq(RawPages) /\ buffer.text \in Seq(Nat)
  BY FlushType DEF TypeOK
<1>3. \A i \in Texts(buffer) : i \in Nat
  BY <1>2 DEF Texts
<1>4. QED
  BY <1>1, <1>2, <1>3

\* Flushing puts the buffer on a page of its own, if there is any text in it.
LEMMA Flushed ==
  ASSUME TypeOK
  PROVE  /\ Flush \in Seq(RawPages)
         /\ \A p \in 1..Len(pages) : Flush[p] = pages[p]
         /\ \/ Texts(buffer) = {} /\ Len(Flush) = Len(pages)
            \/ /\ Len(Flush) = Len(pages) + 1
               /\ Texts(Flush[Len(pages) + 1]) = Texts(buffer)
               /\ Flush[Len(pages) + 1].section = section
<1>1. pages \in Seq(RawPages) /\ Flush \in Seq(RawPages)
  BY FlushType DEF TypeOK
<1>2. CASE buffer.text = <<>>
  <2>1. Texts(buffer) = {}
    BY <1>2 DEF Texts
  <2>2. QED
    BY <1>1, <1>2, <2>1 DEF Flush
<1>3. CASE buffer.text # <<>>
  <2> DEFINE page == RawPage(buffer, section)
  <2>1. Flush = Append(pages, page)
    BY <1>3 DEF Flush
  <2>2. page.text = buffer.text /\ page.section = section
    BY DEF RawPage
  <2>3. Texts(page) = Texts(buffer)
    BY <2>2 DEF Texts
  <2> HIDE DEF page
  <2>4. /\ Len(Flush) = Len(pages) + 1 /\ Flush[Len(pages) + 1] = page
        /\ \A p \in 1..Len(pages) : Flush[p] = pages[p]
    BY <1>1, <2>1
  <2>5. QED
    BY <1>1, <2>2, <2>3, <2>4
<1>4. QED
  BY <1>2, <1>3

\* After a flush every paragraph that was read is on one page.
LEMMA FlushPlaces ==
  ASSUME TypeOK, Headed, document.kind = "docx", phase = "extracting",
         NEW i \in 1..Len(document.items), i < next, IsParagraph(i)
  PROVE  OnOnePage(i, Flush)
<1>1. Len(pages) \in Nat
  BY DEF TypeOK
<1>2. CASE i \in Texts(buffer) /\ \A p \in 1..Len(pages) : i \notin Texts(pages[p])
  <2>1. /\ Len(Flush) = Len(pages) + 1 /\ Texts(Flush[Len(pages) + 1]) = Texts(buffer)
        /\ Flush[Len(pages) + 1].section = section
        /\ \A p \in 1..Len(pages) : Flush[p] = pages[p]
    BY <1>2, Flushed
  <2>2. section = LastHeading(i)
    BY <1>2 DEF Headed
  <2>3. \A q \in 1..Len(Flush) : i \in Texts(Flush[q]) <=> q = Len(pages) + 1
    BY <1>1, <1>2, <2>1
  <2>4. Len(pages) + 1 \in 1..Len(Flush)
    BY <1>1, <2>1
  <2>5. QED
    BY <2>1, <2>2, <2>3, <2>4 DEF OnOnePage
<1>3. CASE i \notin Texts(buffer) /\ OnOnePage(i, pages)
  <2>1. PICK p \in 1..Len(pages) : /\ \A q \in 1..Len(pages) : i \in Texts(pages[q]) <=> q = p
                                   /\ pages[p].section = LastHeading(i)
    BY <1>3 DEF OnOnePage
  <2>2. p \in 1..Len(Flush) /\ Flush[p] = pages[p]
    BY <1>1, Flushed
  <2>3. \A q \in 1..Len(Flush) : i \in Texts(Flush[q]) <=> q = p
    BY <1>1, <1>3, <2>1, Flushed
  <2>4. QED
    BY <2>1, <2>2, <2>3 DEF OnOnePage
<1>4. QED
  BY <1>2, <1>3 DEF Headed

LEMMA HeadedAtFirst == Init => Headed
<1> SUFFICES ASSUME Init PROVE Headed
  OBVIOUS
<1>1. /\ phase = "extracting" /\ next = 1 /\ section = 0 /\ pages = <<>>
      /\ Texts(buffer) = {} /\ LastHeading(1) = 0
  BY NothingHasNoText, HeadingNext DEF Init
<1>2. QED
  BY <1>1 DEF Headed

LEMMA HeadedKept == Inv /\ Headed /\ [Next]_vars => Headed'
<1> SUFFICES ASSUME Inv, Headed, [Next]_vars, document'.kind = "docx" PROVE Headed'
  BY DEF Headed
<1>1. document' = document /\ document.kind = "docx" /\ TypeOK
  BY DEF Inv, Next, ExtractPage, ExtractHeading, ExtractParagraph, EndOfDocument, Extracting,
         Window, SkipPage, EndOfPages, EmbedBatch, EndOfChunks, vars
<1>2. /\ \A i : LastHeading(i)' = LastHeading(i)
      /\ \A i : IsParagraph(i)' <=> IsParagraph(i)
  BY <1>1 DEF LastHeading, IsParagraph
<1>3. \A i : OnOnePage(i, pages)' <=> OnOnePage(i, pages')
  BY <1>1, <1>2 DEF OnOnePage
<1>4. phase = "extracting" => next \in Nat \ {0}
  BY DEF Inv, TypeOK, Position
<1>5. CASE ExtractHeading
  <2>1. /\ phase = "extracting" /\ phase' = "extracting" /\ next' = next + 1
        /\ next <= Len(document.items) /\ document.items[next].heading
        /\ pages' = Flush /\ Texts(buffer') = {}
        /\ section' = IF document.items[next].words > 0 THEN next ELSE section
    BY <1>5, NothingHasNoText DEF ExtractHeading, Extracting, Item, Titled
  <2>2. section' = LastHeading(next')
    BY <1>4, <2>1, HeadingNext, <1>1 DEF Headed
  <2>3. \A p \in 1..Len(pages') : \A i \in Texts(pages'[p]) : i < next'
    <3> TAKE p \in 1..Len(pages')
    <3> TAKE i \in Texts(pages'[p])
    <3>1. i < next
      BY <1>1, <2>1, Flushed DEF Headed, TypeOK
    <3>2. i \in Nat
      BY <2>1, <1>1, Flushed, TextIsOfItems
    <3>3. QED
      BY <1>4, <2>1, <3>1, <3>2
  <2>4. ASSUME NEW i \in 1..Len(document.items), i < next', IsParagraph(i)
        PROVE  OnOnePage(i, pages')
    <3>1. i # next
      BY <2>1, <2>4 DEF IsParagraph
    <3>2. i < next
      BY <1>4, <2>1, <2>4, <3>1
    <3>3. QED
      BY <1>1, <2>1, <2>4, <3>2, FlushPlaces
  <2>5. QED
    BY <1>1, <1>2, <1>3, <2>1, <2>2, <2>3, <2>4 DEF Headed
<1>6. CASE ExtractParagraph
  <2>1. /\ phase = "extracting" /\ phase' = "extracting" /\ next' = next + 1
        /\ next <= Len(document.items) /\ ~document.items[next].heading
        /\ pages' = pages /\ section' = section
        /\ Texts(buffer') = IF IsParagraph(next) THEN Texts(buffer) \cup {next} ELSE Texts(buffer)
    <3>1. CASE Item.words > 0
      <4> DEFINE text == buffer.text
      <4>1. text \in Seq(Nat) /\ buffer = [text |-> text, words |-> buffer.words]
        BY <1>1 DEF TypeOK
      <4>2. \A w, v : Texts([text |-> Append(text, next), words |-> w])
                        = Texts([text |-> text, words |-> v]) \cup {next}
        BY <1>4, <1>6, <4>1, TextsAppended DEF ExtractParagraph, Extracting
      <4>3. buffer' = [text |-> Append(text, next), words |-> buffer.words + Item.words]
        BY <1>6, <3>1 DEF ExtractParagraph
      <4>4. Texts(buffer') = Texts(buffer) \cup {next}
        BY <4>1, <4>2, <4>3
      <4>5. QED
        BY <1>6, <3>1, <4>4 DEF ExtractParagraph, Extracting, Item, IsParagraph
    <3>2. CASE ~(Item.words > 0)
      BY <1>6, <3>2 DEF ExtractParagraph, Extracting, Item, IsParagraph
    <3>3. QED
      BY <3>1, <3>2
  <2>2. section = LastHeading(next) /\ section' = LastHeading(next')
    BY <1>1, <1>4, <2>1, HeadingNext DEF Headed
  <2>3. \A i \in Texts(buffer) : i \in Nat /\ i < next /\ LastHeading(i) = section
    BY <1>1, <2>1, TextIsOfItems DEF Headed
  <2>4. \A p \in 1..Len(pages) : \A i \in Texts(pages[p]) : i \in Nat /\ i < next
    BY <1>1, <2>1, TextIsOfItems DEF Headed
  <2>5. \A i \in Texts(buffer') : i < next' /\ LastHeading(i) = section'
    <3>1. \A i \in Texts(buffer') : i \in Texts(buffer) \/ i = next
      BY <2>1
    <3>2. \A i \in Texts(buffer') : i \in Nat /\ i <= next
      BY <1>4, <2>1, <2>3, <3>1
    <3>3. \A i \in Texts(buffer') : LastHeading(i) = section
      BY <2>2, <2>3, <3>1
    <3>4. QED
      BY <1>4, <2>1, <3>2, <3>3
  <2>6. \A p \in 1..Len(pages') : \A i \in Texts(pages'[p]) : i < next'
    <3> TAKE p \in 1..Len(pages')
    <3> TAKE i \in Texts(pages'[p])
    <3>1. i \in Nat /\ i < next
      BY <2>1, <2>4
    <3>2. next' = next + 1 /\ next \in Nat
      BY <1>4, <2>1
    <3>3. QED
      BY <3>1, <3>2
  <2>7. ASSUME NEW i \in 1..Len(document.items), i < next', IsParagraph(i)
        PROVE  \/ i \in Texts(buffer') /\ \A p \in 1..Len(pages') : i \notin Texts(pages'[p])
               \/ i \notin Texts(buffer') /\ OnOnePage(i, pages')
    <3>1. CASE i = next
      <4>1. i \in Texts(buffer')
        BY <2>1, <2>7, <3>1
      <4>2. \A p \in 1..Len(pages') : i \notin Texts(pages'[p])
        BY <1>4, <2>1, <2>4, <3>1
      <4>3. QED
        BY <4>1, <4>2
    <3>2. CASE i # next
      <4>1. i < next
        <5>1. i \in Nat /\ next \in Nat /\ i < next + 1
          BY <1>4, <2>1, <2>7
        <5>2. QED
          BY <3>2, <5>1
      <4>2. \/ i \in Texts(buffer) /\ \A p \in 1..Len(pages) : i \notin Texts(pages[p])
            \/ i \notin Texts(buffer) /\ OnOnePage(i, pages)
        BY <1>1, <2>1, <2>7, <4>1 DEF Headed
      <4>3. QED
        BY <2>1, <3>2, <4>2
    <3>3. QED
      BY <3>1, <3>2
  <2>8. QED
    BY <1>1, <1>2, <1>3, <2>1, <2>2, <2>5, <2>6, <2>7 DEF Headed
<1>7. CASE EndOfDocument
  <2>1. /\ phase = "extracting" /\ phase' # "extracting" /\ next > Len(document.items)
        /\ Flush # <<>> => pages' = Flush
    BY <1>7 DEF EndOfDocument
  <2>2. Len(document.items) \in Nat
    BY <1>1, ItemsType
  <2>3. ASSUME NEW i \in 1..Len(document.items), IsParagraph(i)
        PROVE  OnOnePage(i, pages')
    <3>1. i < next
      BY <1>4, <2>1, <2>2
    <3>2. OnOnePage(i, Flush)
      BY <1>1, <2>1, <2>3, <3>1, FlushPlaces
    <3>3. Flush # <<>>
      BY <3>2 DEF OnOnePage
    <3>4. QED
      BY <2>1, <3>2, <3>3
  <2>4. QED
    BY <1>1, <1>2, <1>3, <2>1, <2>3 DEF Headed
<1>8. CASE Window \/ SkipPage \/ EndOfPages \/ EmbedBatch \/ EndOfChunks
  <2>1. phase # "extracting" /\ phase' # "extracting" /\ pages' = pages
    BY <1>8 DEF Window, SkipPage, EndOfPages, EmbedBatch, EndOfChunks
  <2>2. QED
    BY <1>1, <1>2, <1>3, <2>1 DEF Headed
<1>9. CASE UNCHANGED vars
  BY <1>1, <1>2, <1>3, <1>9 DEF Headed, vars
<1>10. CASE ExtractPage
  BY <1>1, <1>10 DEF ExtractPage, Extracting
<1>11. QED
  BY <1>5, <1>6, <1>7, <1>8, <1>9, <1>10 DEF Next

------------------------------------------------------------------------------
LEMMA Invariant == Spec => []Inv
<1>1. Inv /\ [Next]_vars => Inv'
  BY ExtractingKept, WindowKept, PagesKept, EmbeddingKept DEF Next
<1>2. QED
  BY <1>1, Initially, PTL DEF Spec

\* Pages, windows and embeddings stay well formed, and no chunk reaches beyond
\* its page.
THEOREM TypeCorrect == Spec => []TypeOK
<1>1. Inv => TypeOK
  BY DEF Inv
<1>2. QED
  BY <1>1, Invariant, PTL

\* Dropping short windows loses no word of a page of min_tokens words but for the
\* last min_tokens - overlap - 1.
THEOREM EnoughIsCovered == Spec => []EnoughCovered
<1>1. Inv => EnoughCovered
  BY DEF Inv
<1>2. QED
  BY <1>1, Invariant, PTL

WholePagesCovered ==
  \A p \in 1..Len(pages) :
    Chunked(p) /\ pages[p].words >= MinTokens =>
      \A w \in 0..(pages[p].words - 1) : Covered(p, w)

\* With a minimum of at most overlap + 1 words, as in the shipped configuration
\* (50 and 64), no word of such a page is lost.
THEOREM NoWordIsLost ==
  ASSUME MinTokens <= Overlap + 1
  PROVE  Spec => []WholePagesCovered
<1>1. Inv => WholePagesCovered
  <2> SUFFICES ASSUME Inv, NEW p \in 1..Len(pages), Chunked(p), pages[p].words >= MinTokens,
                      NEW w \in 0..(pages[p].words - 1)
               PROVE  Covered(p, w)
    BY DEF WholePagesCovered
  <2>1. pages[p].words \in Nat
    <3>1. pages[p] \in RawPages
      BY DEF Inv, TypeOK
    <3>2. QED
      BY <3>1 DEF RawPages
  <2>2. w + MinTokens <= pages[p].words + Overlap
    BY <2>1, ChunkAssumption
  <2>3. QED
    BY <2>2 DEF Inv, EnoughCovered
<1>2. QED
  BY <1>1, Invariant, PTL

\* Neighbouring windows share exactly the overlap, dropped windows or not.
THEOREM OverlapsAreExact == Spec => []OverlapIsExact
<1>1. Inv => OverlapIsExact
  BY DEF Inv
<1>2. QED
  BY <1>1, Invariant, PTL

\* A document with a word keeps a chunk.
THEOREM WordsLeaveAChunk == Spec => []SomethingKept
<1>1. Inv => SomethingKept
  <2> SUFFICES ASSUME Inv, phase \in {"embedding", "done"},
                      NEW p \in 1..Len(pages), pages[p].words > 0
               PROVE  chunks # <<>>
    BY DEF SomethingKept
  <2>1. Chunked(p)
    BY DEF Chunked
  <2>2. QED
    BY <2>1 DEF Inv, BlankSoFar
<1>2. QED
  BY <1>1, Invariant, PTL

\* Every chunk is stored with its own embedding, whatever the batch size.
THEOREM ChunksAreEmbedded == Spec => []EveryChunkEmbedded
<1>1. Inv => EveryChunkEmbedded
  <2> SUFFICES ASSUME Inv, phase = "done" PROVE
        /\ Len(Records) = Len(chunks)
        /\ \A k \in 1..Len(Records) : Records[k].embedding = Records[k].chunk
    BY DEF EveryChunkEmbedded
  <2>1. Len(embeddings) = Len(chunks) /\ Len(chunks) \in Nat
        /\ \A k \in 1..Len(chunks) : embeddings[k] = chunks[k]
    BY DEF Inv, Paired, TypeOK
  <2>2. Records = [k \in 1..Len(chunks) |-> [chunk |-> chunks[k], embedding |-> embeddings[k]]]
    BY <2>1 DEF Records
  <2>3. Len(Records) = Len(chunks)
    BY <2>1, <2>2
  <2>4. QED
    BY <2>1, <2>2, <2>3
<1>2. QED
  BY <1>1, Invariant, PTL

\* Every paragraph of a docx is on one page, under the last titled heading before
\* it, for every order of headings, blank headings and paragraphs.
THEOREM ParagraphsKeepTheirHeading == Spec => []UnderItsHeading
<1>1. Inv /\ Headed /\ [Next]_vars => Headed'
  BY HeadedKept
<1>2. Init => Headed
  BY HeadedAtFirst
<1>3. Headed => UnderItsHeading
  <2> SUFFICES ASSUME Headed, phase # "extracting", document.kind = "docx",
                      NEW i \in 1..Len(document.items), IsParagraph(i)
               PROVE  \E p \in 1..Len(pages) :
                        /\ \A q \in 1..Len(pages) :
                             (\E j \in 1..Len(pages[q].text) : pages[q].text[j] = i) <=> q = p
                        /\ pages[p].section = LastHeading(i)
    BY DEF UnderItsHeading, IsParagraph
  <2>1. OnOnePage(i, pages)
    BY DEF Headed
  <2>2. QED
    BY <2>1 DEF OnOnePage, Texts
<1>4. QED
  BY <1>1, <1>2, <1>3, Invariant, PTL DEF Spec

\* Every iteration of the three loops comes closer to their end: a window is cut
\* short of the page's end only when it holds Size words, and Overlap is less.
THEOREM EveryLoopAdvances == Spec => LoopsAdvance
<1> DEFINE Step ==
      \/ PhaseNumber[phase'] > PhaseNumber[phase]
      \/ /\ phase' = phase /\ LastNext' = LastNext
         /\ \/ next < next' /\ next' <= LastNext
            \/ /\ next' = next /\ pages' = pages
               /\ start < start' /\ start' < pages[next].words
<1>1. ASSUME Inv, Next
      PROVE  Step
  <2>1. CASE ExtractPage \/ ExtractHeading \/ ExtractParagraph
    <3>1. /\ phase = "extracting" /\ phase' = phase /\ document' = document
          /\ next' = next + 1 /\ next <= Len(document.items)
      BY <2>1 DEF ExtractPage, ExtractHeading, ExtractParagraph, Extracting
    <3>2. LastNext = Len(document.items) + 1 /\ LastNext' = LastNext
      BY <3>1 DEF LastNext
    <3>3. next \in Nat /\ Len(document.items) \in Nat
      BY <1>1, ItemsType DEF Inv, TypeOK
    <3>4. QED
      BY <3>1, <3>2, <3>3
  <2>2. CASE EndOfDocument \/ EndOfPages \/ EndOfChunks
    BY <2>2 DEF EndOfDocument, EndOfPages, EndOfChunks, PhaseNumber
  <2>3. CASE Window \/ SkipPage
    <3>1. /\ phase = "chunking" /\ phase' = phase /\ pages' = pages
          /\ next <= Len(pages)
      BY <2>3 DEF Window, SkipPage
    <3>2. LastNext = Len(pages) + 1 /\ LastNext' = LastNext
      BY <3>1 DEF LastNext
    <3>3. next \in Nat /\ Len(pages) \in Nat
      BY <1>1 DEF Inv, TypeOK
    <3>4. CASE next' = next + 1
      BY <3>1, <3>2, <3>3, <3>4
    <3>5. CASE Window /\ ~PageOver /\ next' = next /\ start' = NextStart
      <4>1. /\ WindowEnd = start + Size /\ NextStart + Overlap = WindowEnd
            /\ NextStart \in Nat /\ WindowEnd < pages[next].words
            /\ pages[next].words \in Nat
        BY <1>1, <3>5, WindowShape DEF Inv
      <4>2. start \in Nat /\ Size \in Nat /\ Overlap \in Nat /\ Overlap < Size
        BY <1>1, ChunkAssumption DEF Inv, TypeOK
      <4>3. start < NextStart /\ NextStart < pages[next].words
        <5> HIDE DEF Step
        <5>1. \A e, n, w \in Nat : e = start + Size /\ n + Overlap = e /\ e < w =>
                start < n /\ n < w
          BY <4>2
        <5>2. WindowEnd \in Nat
          BY <4>1, <4>2
        <5>3. QED
          BY <4>1, <5>1, <5>2
      <4>4. QED
        BY <3>1, <3>2, <3>5, <4>3
    <3>6. QED
      BY <2>3, <3>4, <3>5 DEF Window, SkipPage
  <2>4. CASE EmbedBatch
    <3>1. /\ phase = "embedding" /\ phase' = phase /\ chunks' = chunks
          /\ next' = next + BatchSize /\ next < Len(chunks)
      BY <2>4 DEF EmbedBatch
    <3>2. LastNext = Len(chunks) + BatchSize /\ LastNext' = LastNext
      BY <3>1 DEF LastNext
    <3>3. next \in Nat /\ Len(chunks) \in Nat /\ BatchSize \in Nat \ {0}
      BY <1>1, ChunkAssumption DEF Inv, TypeOK
    <3>4. QED
      BY <3>1, <3>2, <3>3
  <2>5. QED
    BY <1>1, <2>1, <2>2, <2>3, <2>4 DEF Next
<1>2. QED
  BY <1>1, Invariant, PTL DEF Spec, LoopsAdvance
=============================================================================
