----------------------- MODULE TurnPipelineRefinement -----------------------
(***************************************************************************)
(* The pipeline implements TurnStream: a turn says what guidance puts on   *)
(* its queue, its conclusion is the complete event of its result, and its  *)
(* caller is given what is streamed.  last_result, which all calls share,  *)
(* is not mapped: the stream must be right in spite of it.                 *)
(***************************************************************************)
EXTENDS TurnPipeline

\* How a call stands with its caller.
Standing(r) ==
  IF r = "Idle" THEN "new"
  ELSE IF r \in {"Pulling", "Joining"} THEN "open"
  ELSE IF r = "Completed" THEN "complete" ELSE "cut"

Completions == {TurnComplete(r) : r \in Results \ {NoResult}}

Conclusion(r) == IF r = NoResult THEN NoResult ELSE TurnComplete(r)

Stream == INSTANCE TurnStream WITH
  Conclusions <- Completions,
  standing    <- [c \in Calls |-> Standing(rpc[c])],
  said        <- made,
  conclusion  <- [c \in Calls |-> Conclusion(result[c])],
  stream      <- sent

(* "TurnComplete ... sent exactly once, after all tokens"                    *)
(* (ai_orchestration.proto), for every call of a service whose executor is   *)
(* shared: at every step a client is sent the next token of its own turn, or *)
(* once and last the result of its own turn, and nothing after it.           *)
ImplementsStream == Stream!Spec
=============================================================================
