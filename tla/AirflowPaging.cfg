SPECIFICATION Spec
CONSTANTS
  PageSize = 2
  Limits = {0, 2, 3}
  Caps = {1, 2}
  MaxRecords = 5
  MaxChanges = 2
INVARIANTS
  ExactWhenStable
  NothingLostByInsertion
  NothingRepeatedByDeletion
PROPERTY FetchEnds
\* A fetch that has ended stays ended.
CHECK_DEADLOCK FALSE
