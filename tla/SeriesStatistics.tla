---------------------------- MODULE SeriesStatistics ----------------------------
(***************************************************************************)
(* What the engine says of one ordered series of observations (the         *)
(* durations of a task, or the delays of a handoff): the drift of the      *)
(* newest one, a change point, a trend.  Runs go on finishing, and each    *)
(* analysis sees the last HistoryLimit of them.                            *)
(*                                                                         *)
(* The code computes in floating point, the module exactly, in fractions   *)
(* of a second that make every median and slope an integer: quarters, and  *)
(* for trends the 480th part, which is divisible by every distance of up   *)
(* to seven runs and by the halvings of four medians taken in a row.       *)
(* Scores are compared by cross-multiplication.  Observations are finite   *)
(* (validate_finite_observations).                                         *)
(***************************************************************************)
EXTENDS Integers, FiniteSets, SequencesExt, Orderings

CONSTANTS Durations,            \* bound: observations, in seconds
          HistoryLimit,         \* history_run_limit
          MinimumHistory,       \* minimum_history
          BaselineWindow,       \* baseline_window, or NoWindow
          Thresholds,           \* medium, high and critical, in tenths
          RelativeDispersion,   \* minimum_relative_dispersion, in thousandths
          AbsoluteDispersion,   \* minimum_absolute_dispersion, in milliseconds
          SegmentSize,          \* change_point_minimum_segment_size
          ChangeThreshold,      \* change_point_score_threshold, in tenths
          TrendObservations,    \* trend_minimum_observations
          TrendThreshold,       \* trend_score_threshold, in tenths
          Consistency           \* trend_minimum_directional_consistency, in tenths

NoWindow == 0

\* AnalysisPolicy.__post_init__; seven runs are the bound of the exact fractions.
ASSUME PolicyAssumption ==
  /\ MinimumHistory \in Nat /\ MinimumHistory >= 2
  /\ BaselineWindow \in Nat
  /\ BaselineWindow = NoWindow \/ BaselineWindow >= MinimumHistory - 1
  /\ Thresholds \in [1..3 -> Nat]
  /\ 0 < Thresholds[1] /\ Thresholds[1] < Thresholds[2] /\ Thresholds[2] < Thresholds[3]
  /\ RelativeDispersion \in Nat \ {0} /\ AbsoluteDispersion \in Nat \ {0}
  /\ SegmentSize \in Nat /\ SegmentSize >= 2
  /\ ChangeThreshold \in Nat \ {0}
  /\ TrendObservations \in Nat /\ TrendObservations >= 3
  /\ TrendThreshold \in Nat \ {0}
  /\ Consistency \in 1..10
ASSUME DurationsAssumption == Durations \subseteq Nat
ASSUME LimitAssumption == HistoryLimit \in MinimumHistory..7

VARIABLES series,       \* the observations an analysis would see, oldest first
          driftResult,  \* drift_results of the subject, or Insufficient
          changePoint,  \* change_point_results of the subject, or NoChange
          trend         \* trend_results of the subject: its direction, or 0

results == <<driftResult, changePoint, trend>>
seriesVars == <<series, results>>

Pending == [severity |-> -2, direction |-> 0]
Insufficient == [severity |-> -1, direction |-> 0]
NoChange == [index |-> 0, direction |-> 0]

-------------------------------------------------------------------------------
(* Arithmetic.                                                             *)

Abs(x) == IF x < 0 THEN -x ELSE x
Sign(x) == IF x > 0 THEN 1 ELSE IF x < 0 THEN -1 ELSE 0
Largest(set) == CHOOSE x \in set : \A y \in set : y <= x
Quarters(s) == [i \in DOMAIN s |-> 4 * s[i]]

\* The k-th smallest of the values of f.
Smallest(f, k) ==
  CHOOSE x \in Range(f) : /\ Cardinality({i \in DOMAIN f : f[i] < x}) < k
                          /\ k <= Cardinality({i \in DOMAIN f : f[i] <= x})

\* Mutant of Median: the mean.
Mean(f) == FoldFunction(LAMBDA x, sum : x + sum, 0, f) \div Cardinality(DOMAIN f)

\* numpy.median of the values of f: the middle one, or the mean of the middle two,
\* whose sum is even in the units used.
Median(f) ==
  LET n == Cardinality(DOMAIN f)
      middle == Smallest(f, (n + 1) \div 2)
  IN  IF n % 2 = 1 THEN middle ELSE (middle + Smallest(f, n \div 2 + 1)) \div 2

Deviations(s, center) == [i \in DOMAIN s |-> Abs(s[i] - center)]

-------------------------------------------------------------------------------
(* drift.py.                                                               *)

\* durations[:-1], the last baseline_window of them.
Baseline(s) ==
  SubSeq(s, IF BaselineWindow = NoWindow THEN 1
            ELSE Largest({1, Len(s) - BaselineWindow}), Len(s) - 1)

\* Mutant of Dispersion: the floors are forgotten.
DispersionAlone(base) == 1000 * Median(Deviations(base, Median(base)))

\* effective_mad, in thousandths of a quarter of a second.
Dispersion(base) ==
  LET center == Median(base)
  IN  Largest({1000 * Median(Deviations(base, center)),
               RelativeDispersion * Abs(center), 4 * AbsoluteDispersion})

\* The severity is the number of thresholds that 0.6745 * distance / effective_mad
\* reaches.
Drift(s) ==
  LET q == Quarters(s)
      base == Baseline(q)
      distance == Last(q) - Median(base)
  IN  IF Len(s) < MinimumHistory THEN Insufficient
      ELSE [severity |-> Cardinality({k \in DOMAIN Thresholds :
                           6745 * Abs(distance) >= Thresholds[k] * Dispersion(base)}),
            direction |-> Sign(distance)]

-------------------------------------------------------------------------------
(* change_point.py.                                                        *)

Older(s, i) == SubSeq(s, 1, i)
Newer(s, i) == SubSeq(s, i + 1, Len(s))

Difference(s, i) == Median(Newer(s, i)) - Median(Older(s, i))

\* The median distance of each observation from the median of its segment.
Noise(s, i) ==
  LET older == Median(Older(s, i))
      newer == Median(Newer(s, i))
  IN  Median([k \in DOMAIN s |-> Abs(s[k] - IF k <= i THEN older ELSE newer)])

\* Mutant of CandidateScore: a split without noise scores 5.0, difference or not.
ScoreOfNoNoise(s, i) ==
  IF Noise(s, i) # 0 THEN [num |-> Abs(Difference(s, i)), den |-> Noise(s, i)]
  ELSE [num |-> 10000, den |-> 1349]

\* _candidate_score, as a fraction and without its factor 1349/2000 (0.6745):
\* without noise the code's 5.0, which is 10000/1349 of that factor.
CandidateScore(s, i) ==
  IF Noise(s, i) # 0 THEN [num |-> Abs(Difference(s, i)), den |-> Noise(s, i)]
  ELSE IF Difference(s, i) = 0 THEN [num |-> 0, den |-> 1]
  ELSE [num |-> 10000, den |-> 1349]

\* 0.6745 * fraction >= tenths / 10.
Reaches(a, tenths) == 1349 * a.num >= 200 * tenths * a.den

\* Mutant of Splits: the end of the range is left out twice.
SplitsShort(s) == SegmentSize..Len(s) - SegmentSize - 1

\* Every split that leaves SegmentSize observations on both sides.
Splits(s) == SegmentSize..Len(s) - SegmentSize

ChangeDirection(s, i) == IF Difference(s, i) > 0 THEN 1 ELSE -1

BestSplits(s) ==
  LET q == Quarters(s)
      scores == {CandidateScore(q, i) : i \in Splits(s)}
  IN  {i \in Splits(s) : \A x \in scores : AtLeast(CandidateScore(q, i), x)}

\* detect_change_point: the first of the best splits.
ChangePoint(s) ==
  LET q == Quarters(s)
      best == BestSplits(s)
      index == CHOOSE i \in best : \A j \in best : i <= j
  IN  IF Splits(s) = {} \/ ~Reaches(CandidateScore(q, index), ChangeThreshold)
      THEN NoChange
      ELSE [index |-> index, direction |-> ChangeDirection(q, index)]

-------------------------------------------------------------------------------
(* trend.py.                                                               *)

\* Two places of a series of n observations, the earlier one first.
Pairs(n) == {p \in (1..n) \X (1..n) : p[1] < p[2]}

\* _theil_sen_slope, in 480ths of a second per run.
Slope(s) ==
  Median([p \in Pairs(Len(s)) |-> (480 * (s[p[2]] - s[p[1]])) \div (p[2] - p[1])])

\* Steps from one run to the next that go the way of the slope.
Aligned(s, slope) == {i \in 1..Len(s) - 1 : Sign(s[i + 1] - s[i]) = Sign(slope)}

\* The median distance from the line through the median intercept.
ResidualMad(s, slope) ==
  LET levelled == [i \in DOMAIN s |-> 480 * s[i] - slope * (i - 1)]
  IN  Median(Deviations(levelled, Median(levelled)))

TrendScore(s, slope) ==
  LET mad == ResidualMad(s, slope)
  IN  IF mad = 0 THEN [num |-> 10000, den |-> 1349]
      ELSE [num |-> Abs(slope * (Len(s) - 1)), den |-> mad]

\* detect_trend.
Trend(s) ==
  LET slope == Slope(s)
  IN  IF /\ Len(s) >= TrendObservations
         /\ slope # 0
         /\ 10 * Cardinality(Aligned(s, slope)) >= Consistency * (Len(s) - 1)
         /\ Reaches(TrendScore(s, slope), TrendThreshold)
      THEN Sign(slope) ELSE 0

-------------------------------------------------------------------------------
SeriesInit == /\ series = <<>>
              /\ driftResult = Pending
              /\ changePoint = NoChange
              /\ trend = 0

\* external: a run succeeds; the oldest one leaves the window of the collection.
RunFinishes ==
  /\ \E d \in Durations :
       series' = Append(IF Len(series) < HistoryLimit THEN series ELSE Tail(series), d)
  /\ driftResult' = Pending
  /\ changePoint' = NoChange
  /\ trend' = 0

\* analyze_task_histories (or analyze_handoff_histories) for the subject.
Analyze == /\ series # <<>>
           /\ driftResult = Pending
           /\ changePoint' = ChangePoint(series)
           /\ trend' = Trend(series)
           /\ driftResult' = Drift(series)
           /\ UNCHANGED series

SeriesNext == RunFinishes \/ Analyze

SeriesSpec == SeriesInit /\ [][SeriesNext]_seriesVars

-------------------------------------------------------------------------------
(* Properties.                                                             *)

Analyzed == driftResult # Pending
Constant(s) == \A i, j \in DOMAIN s : s[i] = s[j]
Mended(s, i, d) == [s EXCEPT ![i] = d]

\* One bad run is no structure and spoils no baseline.  A series that is level
\* but for one observation has neither change point nor trend, if the policy takes
\* three observations for a segment and five for a trend (the defaults: of fewer,
\* one can be half); and where a baseline of three or more is level but for one
\* observation, the current one is judged as if that one had been level too: it
\* neither hides a drift nor is one.
OneBadRunIsHarmless ==
  Analyzed =>
    \A i \in DOMAIN series :
      LET others == RemoveAt(series, i)
          b == Len(series) - Len(Baseline(series))
      IN  /\ Constant(others) => /\ SegmentSize >= 3 => changePoint = NoChange
                                 /\ TrendObservations >= 5 => trend = 0
          /\ (i \in b..Len(series) - 1 /\ Len(series) - b >= 3) =>
                LET level == RemoveAt(Baseline(series), i - b + 1)
                IN  Constant(level) => driftResult = Drift(Mended(series, i, level[1]))

\* A level shift is seen at every moment.  With SegmentSize level observations on
\* either side it is a change point of that direction, unless the policy asks for
\* more than the 5.0 such a split scores; and from its first observation on, once
\* there is enough history, it is a drift or a change point, though the baseline
\* takes in the new level while the old one moves out, unless the baseline can
\* fill to one half before there is a segment.  The shift is one that a drift from
\* a level baseline would be called MEDIUM for.
LevelShiftReported ==
  (Analyzed /\ ChangeThreshold <= 50) =>
    \A i \in 1..Len(series) - 1 :
      LET before == series[1]
          after == Last(series)
          shift == after - before
      IN  (Constant(Older(series, i)) /\ Constant(Newer(series, i)) /\ shift # 0) =>
            /\ i \in Splits(series) => changePoint.direction = Sign(shift)
            /\ (/\ i >= SegmentSize
                /\ Len(series) >= MinimumHistory
                /\ BaselineWindow = NoWindow \/ BaselineWindow > 2 * (SegmentSize - 2)
                /\ 6745 * 4 * Abs(shift) >= Thresholds[1] * Dispersion(<<4 * before>>))
               => \/ driftResult.severity > 0 /\ driftResult.direction = Sign(shift)
                  \/ changePoint.direction = Sign(shift)

\* Read backwards, a series has the opposite change and the opposite trend: both
\* ends of the range of splits and of the steps are treated alike.  Only where the
\* best splits are of both directions, the first one decides, either way.
ReversalFlips ==
  Analyzed =>
    /\ LET Way(i) == ChangeDirection(Quarters(series), i)
       IN  (\A i, j \in BestSplits(series) : Way(i) = Way(j))
             => ChangePoint(Reverse(series)).direction = -changePoint.direction
    /\ Trend(Reverse(series)) = -trend

\* The three signals are computed apart and published side by side: of a series
\* that never steps back none of them points back, not the drift, which compares
\* with a baseline that moves along, and not the change point, though splits
\* without noise or difference are all among the candidates.
SteadySeriesAgrees ==
  Analyzed =>
    \A way \in {-1, 1} :
      (\A i \in 1..Len(series) - 1 : Sign(series[i + 1] - series[i]) # -way) =>
        /\ driftResult.direction # -way
        /\ changePoint.direction # -way
        /\ trend # -way

\* Severity is in proportion.  Noise that the relative dispersion covers at the
\* first threshold is NORMAL, however level the baseline; and of two observations
\* on the same side of the baseline, the one further out is not judged milder.
SeverityProportionate ==
  Analyzed =>
    /\ (\A i, j \in DOMAIN series :
          6745 * Abs(series[i] - series[j]) < Thresholds[1] * RelativeDispersion * series[i])
         => driftResult.severity <= 0
    /\ \A d \in Durations :
         LET other == Drift(Mended(series, Len(series), d))
         IN  (/\ driftResult.direction = other.direction
              /\ Sign(d - Last(series)) = other.direction)
               => other.severity >= driftResult.severity

\* What the README says of detected changes: they report their location.  Where
\* one level gives way to another, that is the first observation of the new one.
LocationIsTheShift ==
  Analyzed =>
    \A i \in Splits(series) :
      (Constant(Older(series, i)) /\ Constant(Newer(series, i)) /\ ~Constant(series))
        => changePoint.index = i
===============================================================================
