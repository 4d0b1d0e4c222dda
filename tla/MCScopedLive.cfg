\* Two jobs, two polling workers that may die, and no crash of the service.
SPECIFICATION FairSpec
CONSTANTS
  j1 = j1
  j2 = j2
  j3 = j3
  j4 = j4
  w1 = w1
  w2 = w2
  None = None
  Jobs <- TwoJobs
  Workers <- TwoWorkers
  MaxQueued = 1
  MaxRevision = 4
  CrashPoints <- NoCrash
PROPERTIES
  WaitingJobsMoveOn
