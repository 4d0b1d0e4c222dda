\* Two workers, every kind of engine failure, crashes and a cancelling caller.
SPECIFICATION Spec
CONSTANTS
  w1 = w1
  w2 = w2
  Workers <- TwoWorkers
  Failures <- AllFailures
  MaxAttempts = 2
  MaxSteps = 2
  MaxCrashes = 1
SYMMETRY WorkerSymmetry
INVARIANTS
  TypeOK
  RetryBudget
  CancellationWins
  OutcomeFollowsCheckpoint
  MarkersFollowCheckpoint
  ReportedEndIsReal
PROPERTIES
  StepExtendsWhatWasRead
  EndIsFinal
  ImplementsLifecycle
