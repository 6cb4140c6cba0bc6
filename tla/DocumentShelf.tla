---------------------------- MODULE DocumentShelf ----------------------------
(***************************************************************************)
(* What document ingestion promises to whoever asks the documents, with no *)
(* upload, task, process or status key in sight.  A document is listed,    *)
(* one per content; it goes on the shelf and stays there; it is called     *)
(* indexed and is announced when it can be found; and an answer leaves out *)
(* no document announced before the question.                              *)
(***************************************************************************)
CONSTANTS Documents,
          ContentOf,      \* of a document
          Textless        \* the contents with nothing to find

VARIABLES status,         \* of a document: none, pending, indexed or failed
          shelf,          \* the documents a search looks through
          announced,      \* those the world was told of
          asked,          \* the open question: what was announced before it
          found           \* the last answer

vars == <<status, shelf, announced, asked, found>>

Listed(d)   == status[d] # "none"
Findable(d) == ContentOf[d] \in Textless \/ d \in shelf

Init == /\ status = [d \in Documents |-> "none"]
        /\ shelf = {}
        /\ announced = {}
        /\ asked = {}
        /\ found = {}

List(d) ==
  /\ \A e \in Documents : Listed(e) => ContentOf[e] # ContentOf[d]
  /\ status' = [status EXCEPT ![d] = "pending"]
  /\ UNCHANGED <<shelf, announced, asked, found>>

Shelve(d) ==
  /\ Listed(d)
  /\ shelf' = shelf \cup {d}
  /\ UNCHANGED <<status, announced, asked, found>>

\* Whatever went wrong before, a document that is called indexed can be found.
Settle(d) ==
  /\ Listed(d)
  /\ \/ status' = [status EXCEPT ![d] = "failed"]
     \/ Findable(d) /\ status' = [status EXCEPT ![d] = "indexed"]
  /\ UNCHANGED <<shelf, announced, asked, found>>

Announce(d) ==
  /\ Findable(d)
  /\ announced' = announced \cup {d}
  /\ UNCHANGED <<status, shelf, asked, found>>

Ask ==
  /\ asked = {}
  /\ asked' = {announced}
  /\ found' = {}
  /\ UNCHANGED <<status, shelf, announced>>

Answer(known) ==
  /\ asked = {known}
  /\ asked' = {}
  /\ found' \subseteq shelf
  /\ \A d \in known : ContentOf[d] \in Textless \/ d \in found'
  /\ UNCHANGED <<status, shelf, announced>>

\* Nothing is searched, or the search breaks off.
NoAnswer ==
  /\ asked' = {}
  /\ found' = {}
  /\ UNCHANGED <<status, shelf, announced>>

Next ==
  \/ \E d \in Documents : List(d) \/ Shelve(d) \/ Settle(d) \/ Announce(d)
  \/ Ask \/ NoAnswer
  \/ \E known \in SUBSET Documents : Answer(known)

Spec == Init /\ [][Next]_vars
=============================================================================
