SPECIFICATION Spec
CONSTANTS
  extract = extract
  load = load
  NumRuns = 3
  Tasks <- MCTasks
  Graphs <- MCGraphs
  Shapes <- MCShapes
  MaxTaskRuns = 4
  MinimumHistory = 2
  BaselineWindow = 1
INVARIANTS
  DurationsAccounted
  HandoffsAccounted
  ComparesWithOlder
\* An analysis that is done stays done.
CHECK_DEADLOCK FALSE
