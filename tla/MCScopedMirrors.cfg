\* A crash between the two mirror writes of a submission.
SPECIFICATION Spec
CONSTANTS
  j1 = j1
  j2 = j2
  j3 = j3
  j4 = j4
  w1 = w1
  w2 = w2
  None = None
  Jobs <- TwoJobs
  Workers <- OneWorker
  MaxQueued = 1
  MaxRevision = 5
  CrashPoints <- Writes
INVARIANTS
  MirrorsRecover
CHECK_DEADLOCK FALSE
