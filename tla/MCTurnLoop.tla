----------------------------- MODULE MCTurnLoop -----------------------------
(* Instances of TurnLoop for TLC: all short lists of entities and updates. *)
EXTENDS TurnLoop, SequencesExt

MCEntities ==
  {[type |-> "actor", value |-> "decision_maker"],
   [type |-> "assumption", value |-> "n1"],
   [type |-> "gap", value |-> "n1"],
   [type |-> "unknown", value |-> "n1"]}

MCUpdates == [criterion : {<<1, "01">>, <<3, "U1">>}, met : BOOLEAN]

MCEntityBatches == BoundedSeq(MCEntities, 2)
MCUpdateBatches == BoundedSeq(MCUpdates, 3)

MCStart ==
  {NewSession,
   [NewSession EXCEPT !.ac_waived = {<<1, "01">>, <<3, "U1">>}],
   [NewSession EXCEPT !.ac_met = {<<1, "01">>}, !.ac_waived = {<<3, "U1">>},
                      !.assumptions = {"n1"}]}
=============================================================================
