\* A second worker that was attached to a job when the first one completed it for
\* review.
SPECIFICATION Spec
CONSTANTS
  j1 = j1
  j2 = j2
  j3 = j3
  j4 = j4
  w1 = w1
  w2 = w2
  None = None
  Jobs <- TwoJobs
  Workers <- TwoWorkers
  MaxQueued = 1
  MaxRevision = 5
  CrashPoints <- NoCrash
INVARIANTS
  OneJobRunning
