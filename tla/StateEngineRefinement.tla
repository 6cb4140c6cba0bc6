----------------------- MODULE StateEngineRefinement -----------------------
(***************************************************************************)
(* The state engine implements SignOffJourney: a project is a session in   *)
(* the map, its stage is current_phase, a stage is complete when its       *)
(* criteria report transition_ready, and its evidence is what the three    *)
(* artifact gates look at.                                                 *)
(***************************************************************************)
EXTENDS StateEngine

Journey == INSTANCE SignOffJourney WITH
  Projects <- SessionIds,
  Stages   <- <<"ProblemIntake", "StakeholderDiscovery", "RequirementElicitation",
                "ConstraintCapture", "ArchitectureAlignment", "ReviewAndSignOff",
                "SignedOff">>,
  Evidence <- GateFields,
  stage    <- [id \in live |-> sessions[id].current_phase],
  complete <- [id \in live |-> {p \in Phases : TransitionReady(p, sessions[id])}],
  onFile   <- [id \in live |-> sessions[id].fields \cap GateFields]

(* Every behaviour of the service is a journey: whatever the order of calls, *)
(* a project moves on only from a complete stage with all the evidence on    *)
(* file, and never enters the last stage any other way.                      *)
ImplementsJourney == Journey!Spec
=============================================================================
