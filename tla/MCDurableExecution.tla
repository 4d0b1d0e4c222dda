-------------------------- MODULE MCDurableExecution --------------------------
(* Model values and symmetry for checking DurableExecution with TLC.        *)
EXTENDS DurableExecution, TLC

CONSTANTS w1, w2

OneWorker == {w1}
TwoWorkers == {w1, w2}
\* The workers are interchangeable: no definition names one of them.
WorkerSymmetry == Permutations(Workers)

AllFailures == Failure
\* An engine that neither asks for semantic repair nor reports a stale step.
OperationalFailures == {"RETRYABLE", "NOT_RETRYABLE"}
=============================================================================
