-------------------------- MODULE MCPublishedAnalysis --------------------------
(* An instance of PublishedAnalysis for TLC: every acyclic graph of four tasks *)
(* whose edges follow one order, an order that is not the alphabetical one, so *)
(* that ties between roots and descendants meet the alphabet both ways.        *)
EXTENDS PublishedAnalysis

MCTasks == 1..4

Rank == <<3, 1, 4, 2>>

MCGraphs == {g \in [MCTasks -> SUBSET MCTasks] :
               \A t \in MCTasks : \A n \in g[t] : Rank[t] < Rank[n]}

\* Each table mixes handoffs without a result with ones of every severity, differently
\* along every path, so that a critical one stands among milder and missing ones, and
\* first and last by name.
MCHandoffTables ==
  {[p \in MCTasks \X MCTasks |-> ((2 * p[1] + p[2] + k) % 5) - 1] : k \in {0, 1, 4}}

\* Two tasks have a trend, whether they have a drift or not.
MCSignalSets == {{1, 2}}
===============================================================================
