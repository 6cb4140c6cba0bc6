------------------------- MODULE IngestionRefinement -------------------------
(***************************************************************************)
(* Ingestion implements DocumentShelf: the status of a document is that of *)
(* its row, the shelf holds the documents with stored chunks, and a        *)
(* question is a retrieval that waits for hybrid_search.  The uploads, the *)
(* status key and the process are not mapped: the shelf must be in order   *)
(* whatever becomes of them.                                               *)
(***************************************************************************)
EXTENDS Ingestion

Shelved == {s.of : s \in stored}
Asked   == IF turn.at = "asking" THEN {turn.known} ELSE {}
Found   == IF turn.at = "searched" THEN turn.ranked ELSE {}

Shelf == INSTANCE DocumentShelf WITH
  Documents <- Docs,
  ContentOf <- Content,
  Textless  <- Blank,
  status    <- rows,
  shelf     <- Shelved,
  asked     <- Asked,
  found     <- Found

(* Of racing uploads, failed writes, shutdowns and crashes the documents     *)
(* table and the chunk store show nothing but a shelf in order: rows one per *)
(* content and never again pending, chunks that stay, success reported of    *)
(* what can be found, and answers that leave out nothing announced.          *)
ImplementsShelf == Shelf!Spec
=============================================================================
