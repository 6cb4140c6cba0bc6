----------------------------- MODULE MCTurnFlow -----------------------------
(* Instances of TurnFlow for TLC: the messages the requests carry. *)
EXTENDS TurnFlow, TLC

Actor(class) == [type |-> "actor", value |-> class]
Requirement(class) == [type |-> "requirement", value |-> class]
Constraint(class) == [type |-> "constraint", value |-> class]
Assumption(note) == [type |-> "assumption", value |-> note]

Says(mentions) == [mentions |-> mentions, back_to |-> "None"]

\* Half of what AC-S3-01 asks for and a little more, and all that AC-S4-01 to
\* AC-S4-04 ask for.
Wishes == <<Requirement("Functional"), Requirement("Functional"),
            Requirement("NonFunctional")>>

Limits == <<Constraint("Budget"), Constraint("Timeline"), Constraint("Technology"),
            Constraint("DataResidency")>>

\* One message completes ConstraintCapture, the other lacks the assumption of
\* AC-S4-05 and may ask to go back; two make up what AC-S2-01 and the extractor's count
\* of requirements ask for.
MCMessages ==
  {Says(<<Actor("decision_maker")>> \o Wishes \o Limits \o <<Assumption("n1")>>),
   [mentions |-> <<Actor("other")>> \o Wishes \o Limits, back_to |-> "StakeholderDiscovery"]}

OneMessage == {Says(<<Actor("decision_maker")>>)}

\* Five requirements, but only four functional ones.
FiveWishes ==
  {Says(<<Requirement("Functional"), Requirement("Functional"), Requirement("Functional"),
          Requirement("Functional"), Requirement("NonFunctional")>>)}

Asking == {[mentions |-> <<>>, back_to |-> "ProblemIntake"]}

Symmetry == Permutations(Requests)
=============================================================================
