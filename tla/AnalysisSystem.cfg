SPECIFICATION SystemSpec
CONSTANTS
  extract = extract
  load = load
  NumRuns = 3
  Tasks <- MCTasks
  Graphs <- MCGraphs
  Stamps <- MCStamps
  Histories <- MCHistories
  HistoryLimit = 2
  MinimumHistory = 2
  BaselineWindow = 1
  MaxChanges = 1
INVARIANTS
  NewestSelected
  HistoriesComplete
  RunByRunKeepsOrder
\* An analysis that has ended stays ended.
CHECK_DEADLOCK FALSE
