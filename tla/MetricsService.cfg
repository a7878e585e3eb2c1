SPECIFICATION Spec
CONSTANTS
  dagIds <- MCDagIds
  Scrapers <- MCScrapers
  MaxTime = 7
  StaleAfter = 2
INVARIANTS
  SnapshotConsistent
  CycleCoversAll
  OutageReported
PROPERTIES
  NobodyStarves
  AnswersNeverOlder
  ImplementsSnapshotRegister
\* The clock ends at MaxTime and the service stops.
CHECK_DEADLOCK FALSE
