--------------------------- MODULE MCRolloutControl ---------------------------
(* Model values and symmetry for checking RolloutControl with TLC, and two    *)
(* casts in one run: two control-plane processes, or one of them and an        *)
(* admitter.                                                                  *)
EXTENDS RolloutControl, TLC

CONSTANTS a1, a2, r1, reason1

TwoActors == {a1, a2}
OneAdmitter == {r1}
OneReason == {reason1}
Symmetry == Permutations(Actors)

VARIABLE alone  \* the process that acts next to the admitter, or None

CastInit == Init /\ alone \in Actors \cup {None}
CastNext ==
  /\ Next
  /\ IF alone = None THEN UNCHANGED admitter
     ELSE \A a \in Actors \ {alone} : UNCHANGED actor[a]
  /\ UNCHANGED alone
CastSpec == CastInit /\ [][CastNext]_<<vars, alone>>
=============================================================================
