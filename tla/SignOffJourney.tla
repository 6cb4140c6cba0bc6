--------------------------- MODULE SignOffJourney ---------------------------
(***************************************************************************)
(* What the state-machine kernel promises about a project, with no session *)
(* record, criterion or entity in sight.  A project stands at a stage; some *)
(* stages are complete; some of the sign-off evidence is on file.  It moves *)
(* on one stage at a time, from a complete stage, with all the evidence; it *)
(* may be sent to any stage but the last; and it disappears only when the   *)
(* process that holds it ends.                                              *)
(***************************************************************************)
EXTENDS Naturals, Sequences

CONSTANTS Projects,
          Stages,      \* the stages in order, a sequence
          Evidence     \* what must be on file before a project moves on

VARIABLES stage,       \* of every project that exists
          complete,    \* the stages of a project that are complete
          onFile       \* its evidence

vars == <<stage, complete, onFile>>

Existing == DOMAIN stage
Names    == {Stages[i] : i \in DOMAIN Stages}
Last     == Stages[Len(Stages)]

Init == /\ stage = << >>
        /\ complete = << >>
        /\ onFile = << >>

\* Both functions get the same new domain.
Extend(f, p, v) == [q \in DOMAIN f \cup {p} |-> IF q = p THEN v ELSE f[q]]

Open(p) ==
  /\ p \notin Existing
  /\ stage' = Extend(stage, p, Stages[1])
  /\ complete' = Extend(complete, p, {})
  /\ onFile' = Extend(onFile, p, {})

\* Work on a project: conversation completes stages, and reopens some;
\* evidence is only added.
Work(p) ==
  /\ p \in Existing
  /\ complete' \in [Existing -> SUBSET (Names \ {Last})]
  /\ onFile' \in [Existing -> SUBSET Evidence]
  /\ \A q \in Existing \ {p} : complete'[q] = complete[q] /\ onFile'[q] = onFile[q]
  /\ onFile[p] \subseteq onFile'[p]
  /\ UNCHANGED stage

MoveOn(p) ==
  /\ p \in Existing
  /\ stage[p] \in complete[p]
  /\ Evidence \subseteq onFile[p]
  /\ \E i \in 1..(Len(Stages) - 1) :
       /\ Stages[i] = stage[p]
       /\ stage' = [stage EXCEPT ![p] = Stages[i + 1]]
  /\ UNCHANGED <<complete, onFile>>

SendTo(p, s) ==
  /\ p \in Existing
  /\ s \notin {stage[p], Last}
  /\ stage' = [stage EXCEPT ![p] = s]
  /\ UNCHANGED <<complete, onFile>>

Lose == /\ stage' = << >>
        /\ complete' = << >>
        /\ onFile' = << >>

Next ==
  \/ Lose
  \/ \E p \in Projects :
       \/ Open(p)
       \/ Work(p)
       \/ MoveOn(p)
       \/ \E s \in Names : SendTo(p, s)

Spec == Init /\ [][Next]_vars
=============================================================================
