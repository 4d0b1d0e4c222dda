\* Two control-plane processes, or one and an admitter that reads without a lock;
\* a crash between any two writes.
SPECIFICATION CastSpec
CONSTANTS
  a1 = a1
  a2 = a2
  r1 = r1
  reason1 = reason1
  None = None
  Actors <- TwoActors
  Admitters <- OneAdmitter
  Category <- OneReason
  MaxRevision = 4
  MaxEvents = 2
  MaxCrashes = 1
SYMMETRY Symmetry
INVARIANTS
  TypeOK
  RevocationCloses
  LedgerAddsUp
PROPERTIES
  KeepsThePromise
  AdmissionReadsWhatIsInForce
\* The system stops at the bound.
CHECK_DEADLOCK FALSE
