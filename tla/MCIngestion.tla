----------------------------- MODULE MCIngestion -----------------------------
(* Instances of Ingestion for TLC. *)
EXTENDS IngestionRefinement

\* "a" and "b" are two ids of one content, the last is an id of a blank one.
MCContent == [d \in Docs |-> IF d \in {"a", "b"} THEN "text" ELSE "blank"]
=============================================================================
