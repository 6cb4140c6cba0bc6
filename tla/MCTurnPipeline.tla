--------------------------- MODULE MCTurnPipeline ---------------------------
(* Instances of TurnPipeline for TLC.  The calls are model values without      *)
(* symmetry: EveryCallEnds is a liveness property, which symmetry could hide.  *)
EXTENDS TurnPipelineRefinement
=============================================================================
