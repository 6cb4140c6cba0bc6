----------------------------- MODULE TurnStream -----------------------------
(***************************************************************************)
(* What the AI service promises a caller of RunPipeline, with no graph,    *)
(* queue, task or executor in sight.  A turn says its guidance token by    *)
(* token and concludes; its caller is given the tokens, in order, and then *)
(* the conclusion of this very turn, once, as the last event.  A caller    *)
(* may be cut off before that; its turn may then go on with nobody         *)
(* listening.                                                              *)
(***************************************************************************)
EXTENDS Naturals, Sequences

CONSTANTS Calls,
          MaxTokens,     \* the most a turn says
          Conclusions    \* the complete events, each of one call

VARIABLES standing,      \* of a call: new, open, complete or cut
          said,          \* tokens its turn has said
          conclusion,    \* what its turn came to, if it did
          stream         \* the events its caller was given

vars == <<standing, said, conclusion, stream>>

Pending == [of |-> "None"]

Given(c, e) == stream' = [stream EXCEPT ![c] = Append(@, e)]

Init == /\ standing = [c \in Calls |-> "new"]
        /\ said = [c \in Calls |-> 0]
        /\ conclusion = [c \in Calls |-> Pending]
        /\ stream = [c \in Calls |-> << >>]

Begin(c) ==
  /\ standing[c] = "new"
  /\ standing' = [standing EXCEPT ![c] = "open"]
  /\ UNCHANGED <<said, conclusion, stream>>

\* A turn under way, whether or not its caller still listens.
UnderWay(c) == standing[c] \in {"open", "cut"} /\ conclusion[c] = Pending

Say(c) ==
  /\ UnderWay(c)
  /\ said[c] < MaxTokens
  /\ said' = [said EXCEPT ![c] = @ + 1]
  /\ UNCHANGED <<standing, conclusion, stream>>

Conclude(c) ==
  /\ UnderWay(c)
  /\ LET e == conclusion'[c]
     IN  e \in Conclusions /\ e.of = c /\ conclusion' = [conclusion EXCEPT ![c] = e]
  /\ UNCHANGED <<standing, said, stream>>

Deliver(c) ==
  /\ standing[c] = "open"
  /\ Len(stream[c]) < said[c]
  /\ Given(c, [token |-> Len(stream[c]) + 1])
  /\ UNCHANGED <<standing, said, conclusion>>

Complete(c) ==
  /\ standing[c] = "open"
  /\ Len(stream[c]) = said[c]
  /\ conclusion[c] # Pending
  /\ Given(c, conclusion[c])
  /\ standing' = [standing EXCEPT ![c] = "complete"]
  /\ UNCHANGED <<said, conclusion>>

CutOff(c) ==
  /\ standing[c] = "open"
  /\ standing' = [standing EXCEPT ![c] = "cut"]
  /\ UNCHANGED <<said, conclusion, stream>>

Next == \E c \in Calls : \/ Begin(c) \/ Say(c) \/ Conclude(c)
                         \/ Deliver(c) \/ Complete(c) \/ CutOff(c)

Spec == Init /\ [][Next]_vars
=============================================================================
