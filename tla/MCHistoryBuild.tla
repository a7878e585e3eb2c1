---------------------------- MODULE MCHistoryBuild ----------------------------
(* An instance of HistoryBuild for TLC: one dependency, three runs, up to four  *)
(* task runs in any order, whole or with one thing missing.                     *)
EXTENDS HistoryBuild

CONSTANTS extract, load

MCTasks == {extract, load}

MCGraphs == {(extract :> {load}) @@ (load :> {})}

\* Two that succeeded, at different times, one whose dates were not recorded, and
\* one that failed.
MCShapes == {[success |-> TRUE, start |-> 1, end |-> 3, timed |-> TRUE],
             [success |-> TRUE, start |-> 2, end |-> 2, timed |-> TRUE],
             [success |-> TRUE, start |-> None, end |-> None, timed |-> FALSE],
             [success |-> FALSE, start |-> 4, end |-> 5, timed |-> TRUE]}
===============================================================================
