--------------------------- MODULE MCSeriesStatistics ---------------------------
(* An instance of SeriesStatistics for TLC: the default policy with a window of *)
(* four, over durations that a level of 100 s makes NORMAL (within the floor),  *)
(* MEDIUM, HIGH and CRITICAL.                                                   *)
EXTENDS SeriesStatistics

MCDurations == {100, 101, 104, 107, 118}

MCThresholds == <<20, 35, 50>>

\* The disagreement needs two levels only.
MCTwoLevels == {100, 200}
===============================================================================
