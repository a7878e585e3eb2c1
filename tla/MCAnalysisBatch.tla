---------------------------- MODULE MCAnalysisBatch ----------------------------
(* An instance of AnalysisBatch for TLC: up to three DAGs on up to three threads, with *)
(* duplicate and blank ids among the requests.                                 *)
EXTENDS AnalysisBatch

CONSTANTS a, b, c, blank

MCDags == {a, b, c, blank}

MCBlank == {blank}
===============================================================================
