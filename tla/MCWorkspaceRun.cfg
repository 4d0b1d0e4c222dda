\* Two units, one automatic repair each, and one setback: a host that stops, a
\* translation that needs a review, or a contradiction between the units.
SPECIFICATION FairRunSpec
CONSTANTS
  UnitCount = 2
  MaxRepairs = 1
  MaxSetbacks = 1
INVARIANTS
  RunTypeOK
  VerdictIsEarned
PROPERTIES
  GoodWorkSurvives
  JobIsNotAhead
  TranslationEnds
  CompletionIsReported
\* A run may stop: rejected, failed, complete, or stranded by a dead call.
CHECK_DEADLOCK FALSE
