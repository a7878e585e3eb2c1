SPECIFICATION SystemSpec
CONSTANTS
  extract = extract
  load = load
  NumRuns = 3
  Tasks <- MCTasks
  Graphs <- MCGraphs
  Stamps <- MCInOrder
  Histories <- MCWhole
  HistoryLimit = 2
  MinimumHistory = 2
  BaselineWindow = 1
  MaxChanges = 0
INVARIANT TargetIsCurrent
CHECK_DEADLOCK FALSE
