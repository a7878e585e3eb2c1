SPECIFICATION SeriesSpec
CONSTANTS
  Durations <- MCTwoLevels
  HistoryLimit = 7
  MinimumHistory = 5
  BaselineWindow = 4
  Thresholds <- MCThresholds
  RelativeDispersion = 10
  AbsoluteDispersion = 1
  SegmentSize = 3
  ChangeThreshold = 35
  TrendObservations = 5
  TrendThreshold = 35
  Consistency = 6
INVARIANT LocationIsTheShift
