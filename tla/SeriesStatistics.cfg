SPECIFICATION SeriesSpec
CONSTANTS
  Durations <- MCDurations
  HistoryLimit = 7
  MinimumHistory = 5
  BaselineWindow = 4
  Thresholds <- MCThresholds
  RelativeDispersion = 10
  AbsoluteDispersion = 1
  SegmentSize = 3
  ChangeThreshold = 35
  TrendObservations = 5
  TrendThreshold = 35
  Consistency = 6
INVARIANTS
  OneBadRunIsHarmless
  LevelShiftReported
  ReversalFlips
  SteadySeriesAgrees
  SeverityProportionate
