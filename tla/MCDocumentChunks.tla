-------------------------- MODULE MCDocumentChunks --------------------------
(* Documents for TLC: every short pdf, docx and text file. *)
EXTENDS DocumentChunks, SequencesExt

Body(n) == [heading |-> FALSE, words |-> n]
Heading(n) == [heading |-> TRUE, words |-> n]

MCDocuments ==
       [kind : {"pdf"}, items : BoundedSeq({Body(n) : n \in {0, 1, 3, 4, 6, 8}}, 3)]
  \cup [kind : {"text"}, items : {<<Body(n)>> : n \in 0..13}]
  \cup [kind : {"docx"},
        items : BoundedSeq({Body(n) : n \in {0, 2, 5}} \cup {Heading(0), Heading(1)}, 4)]
=============================================================================
