\* One request, made over and over by one caller and read by another, while its
\* decision is revoked or expires, a cleanup and a deletion of the run; one crash
\* or failed unlink.
SPECIFICATION SupportSpec
CONSTANTS
  a = a
  m1 = m1
  r1 = r1
  None = None
  Copies <- OneCopy
  Makers <- OneMaker
  Readers <- OneReader
  Expiry = 2
  MaxFaults = 1
INVARIANTS
  NoBytesWithoutDecision
  CopiesAreAccountedFor
PROPERTIES
  ExpiredBytesGo
CHECK_DEADLOCK FALSE
