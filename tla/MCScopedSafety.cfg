\* Four jobs, one worker, crashes between any two writes of an operation.
\* Two mirrors that disagree under one revision stop the scope for good.
SPECIFICATION Spec
CONSTANTS
  j1 = j1
  j2 = j2
  j3 = j3
  j4 = j4
  w1 = w1
  w2 = w2
  None = None
  Jobs <- FourJobs
  Workers <- OneWorker
  MaxQueued = 2
  MaxRevision = 3
  CrashPoints <- Writes
SYMMETRY Symmetry
INVARIANTS
  TypeOK
  SequencesAreUnique
  StatesAreReadable
  CapacityIsKept
  OneJobRunning
PROPERTIES
  StartsInOrder
  ResumesByClaim
  JobsKeepTheirContract
CHECK_DEADLOCK FALSE
