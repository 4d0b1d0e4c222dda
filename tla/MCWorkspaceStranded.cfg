\* A session that stops in the middle of next.
SPECIFICATION FairRunSpec
CONSTANTS
  UnitCount = 2
  MaxRepairs = 1
  MaxSetbacks = 1
PROPERTIES
  StoppedSessionsContinue
CHECK_DEADLOCK FALSE
