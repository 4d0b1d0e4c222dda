\* Two polling workers and an engine that raises operational failures only.
SPECIFICATION FairSpec
CONSTANTS
  w1 = w1
  w2 = w2
  Workers <- TwoWorkers
  Failures <- OperationalFailures
  MaxAttempts = 2
  MaxSteps = 1
  MaxCrashes = 1
PROPERTIES
  CancellationIsAcknowledged
  JobSettles
