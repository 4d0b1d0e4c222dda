-------------------------- MODULE MCScopedAdmission --------------------------
(* Model values, symmetry and crash points for checking ScopedAdmission.     *)
EXTENDS ScopedAdmission, TLC

CONSTANTS j1, j2, j3, j4, w1, w2

TwoJobs == {j1, j2}
ThreeJobs == {j1, j2, j3}
FourJobs == {j1, j2, j3, j4}
OneWorker == {w1}
TwoWorkers == {w1, w2}
Symmetry == Permutations(Jobs) \cup Permutations(Workers)

NoCrash == {}
EveryStep == OpStep \ {"free"}
\* Between two writes of an operation, and before the first of them.
Writes == {"create", "admit", "readmit", "control", "queue", "cancel", "withdraw"}
=============================================================================
