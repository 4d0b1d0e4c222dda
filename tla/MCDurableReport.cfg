\* Two workers: what a worker reports about a job that another one finished.
SPECIFICATION Spec
CONSTANTS
  w1 = w1
  w2 = w2
  Workers <- TwoWorkers
  Failures <- AllFailures
  MaxAttempts = 2
  MaxSteps = 1
  MaxCrashes = 0
SYMMETRY WorkerSymmetry
INVARIANTS
  FailureReportIsNotSemantic
