SPECIFICATION PublishSpec
CONSTANTS
  Tasks <- MCTasks
  Graphs <- MCGraphs
  HandoffTables <- MCHandoffTables
  SignalSets <- MCSignalSets
  MaxTasksPerDag = 2
INVARIANTS
  OriginsExplainDrift
  PathsAreComplete
  PrimaryIsBestRoot
  CriticalIsVisible
  DocumentAddsUp
\* An analysis that was published is finished.
CHECK_DEADLOCK FALSE
