--------------------------- MODULE MCStateEngine ---------------------------
(* Instances of StateEngine for TLC: the turn results the runs send. *)
EXTENDS StateEngineRefinement, SequencesExt

\* One update per criterion of phase number n.
Mark(n, met) == [i \in 1..5 |-> [criterion |-> <<n, <<"01", "02", "03", "04", "05">>[i]>>,
                                 met |-> met]]

Says(entities, updates) ==
  [entities |-> entities, ac_updates |-> updates, cost |-> 1, turn_count_delta |-> 1]

\* Two turns meet the numbered criteria of three phases each; a third captures
\* entities, retracts a criterion and meets the ungated AC-S3-U1.
MCTurns ==
  {Says(<<>>, Mark(1, TRUE) \o Mark(2, TRUE) \o Mark(3, TRUE)),
   Says(<<>>, Mark(4, TRUE) \o Mark(5, TRUE) \o Mark(6, TRUE)),
   Says(<<[type |-> "actor", value |-> "decision_maker"],
          [type |-> "unknown", value |-> "n1"],
          [type |-> "gap", value |-> "n1"]>>,
        <<[criterion |-> <<1, "01">>, met |-> FALSE],
          [criterion |-> <<3, "U1">>, met |-> TRUE]>>)}

MCWaivers == {<<1, "02">>, <<3, "U1">>}
=============================================================================
