--------------------------- MODULE MCAnalysisSystem ---------------------------
(* Instances of AnalysisSystem for TLC: three runs, two tasks that depend on    *)
(* each other; timestamps in creation order, out of it, and with a tie; runs    *)
(* that completed nothing, one task or both.                                    *)
EXTENDS AnalysisSystem, TLC

CONSTANTS extract, load

MCTasks == {extract, load}

MCGraphs == {(extract :> {load}) @@ (load :> {})}

MCStamps == {<<1, 2, 3>>, <<2, 3, 1>>, <<2, 1, 2>>}

MCHistories == {{}, {extract}, {extract, load}}

\* The disagreement needs no more than this: runs in order, nothing missing.
MCInOrder == {<<1, 2, 3>>}

MCWhole == {{extract, load}}
===============================================================================
