\* One deleter over either backend, a failed unlink or a crash, a hold that comes
\* and goes, a cleanup of old audits, and a run that is submitted anew once.
SPECIFICATION FairDeletionSpec
CONSTANTS
  c1 = c1
  d1 = d1
  k1 = k1
  None = None
  Backends <- BothBackends
  Deleters <- OneDeleter
  DeletionIds <- OneDeletion
  Cleanups <- OneCleanup
  MaxGenerations = 2
  MaxFaults = 1
INVARIANTS
  DeletionTypeOK
  CompleteMeansGone
PROPERTIES
  OnlyThePlannedGeneration
  HeldFilesSurvive
  RemovalIsFenced
  EndedRunIsDeleted
CHECK_DEADLOCK FALSE
