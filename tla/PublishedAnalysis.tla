--------------------------- MODULE PublishedAnalysis ---------------------------
(***************************************************************************)
(* What leaves the analysis of a DAG.  When OriginAnalysis has selected    *)
(* the primary origin, the result is published three times: as the JSON    *)
(* document, as the tables of the report, and as Prometheus samples, of    *)
(* which alert rules look at the severities.  Every reader sees only what  *)
(* was published, so the properties compare that with the drifts.          *)
(*                                                                         *)
(* listed holds the tasks of the DAG's present version: a task that was    *)
(* removed may still have runs in the window, and then has results but no  *)
(* dependencies.  signalled holds the tasks with a change point or a trend *)
(* of their own, which take less history than a drift.                     *)
(***************************************************************************)
EXTENDS OriginAnalysis

CONSTANTS MaxTasksPerDag, \* --max-tasks-per-dag of serve-metrics
          SignalSets      \* tasks that may have a change point or a trend

ASSUME MaxTasksPerDagAssumption == MaxTasksPerDag \in Nat
ASSUME SignalSetsAssumption == SignalSets \subseteq SUBSET Tasks

VARIABLES listed,        \* keys of dependencies: the tasks Airflow lists
          signalled,     \* keys of change_point_results and trend_results
          document,      \* the analysis document
          report,        \* rows of the task and handoff tables
          samples        \* what the alert rules see of the scrape

published == <<document, report, samples>>

Nothing == [none |-> TRUE]

Linked == UNION {{e[1], e[2]} : e \in Edges}

PublishInit == /\ OriginInit
               /\ signalled \in SignalSets
               /\ \E removed \in SUBSET ((Drifted \cup signalled) \ Linked) :
                    listed = Tasks \ removed
               /\ document = Nothing
               /\ report = Nothing
               /\ samples = Nothing

AnalysisStep == OriginNext /\ UNCHANGED <<listed, signalled, published>>

-------------------------------------------------------------------------------
(* The result and its summary.                                             *)

Highest(severities) == CHOOSE s \in severities : \A r \in severities : r <= s

\* determine_overall_severity.
Overall == Highest({drift[t] : t \in Drifted} \cup {handoff[e] : e \in DriftedEdges}
                     \cup {Normal})

\* Mutant of AffectedTasks: each path counts its tasks.
AffectedOfPaths == FoldSet(LAMBDA p, n : n + Len(p) - 1, 0, propagation)

AffectedTasks == Cardinality(UNION {ToSet(Tail(p)) : p \in propagation})

AllTasks == listed \cup Linked \cup Drifted \cup signalled
              \cup UNION {ToSet(p) : p \in propagation}

\* DAGAnalysis.summary.
Summary == [total |-> Cardinality(AllTasks),
            analyzed |-> Cardinality(Drifted),
            tasks |-> [s \in Severities |-> Cardinality({t \in Tasks : drift[t] = s})],
            anomalousTasks |-> Cardinality({t \in Tasks : drift[t] >= Medium}),
            anomalousHandoffs |-> Cardinality({e \in Edges : handoff[e] >= Medium}),
            affected |-> AffectedTasks]

\* build_analysis_document, less what it copies unread: the policy, diagnostics, and
\* the statistics of each drift, change point and trend.
Document == [overall |-> Overall, summary |-> Summary, primary |-> primary,
             drifts |-> [t \in Drifted |-> drift[t]],
             handoffs |-> [e \in DriftedEdges |-> handoff[e]],
             signals |-> signalled,
             impacts |-> [t \in Drifted |-> impact[t]],
             paths |-> propagation,
             dependencies |-> [t \in listed |-> dependencies[t]]]

-------------------------------------------------------------------------------
(* The tables and the samples.                                             *)

\* Rows by descending severity, then by name.
Rows(subjects, severity, before(_, _)) ==
  Ordered(subjects,
          {p \in subjects \X subjects :
             \/ severity[p[1]] > severity[p[2]]
             \/ severity[p[1]] = severity[p[2]] /\ (p[1] = p[2] \/ before(p[1], p[2]))})

EdgeBefore(e, f) == e[1] < f[1] \/ (e[1] = f[1] /\ e[2] < f[2])

\* Mutant of Report: handoffs in the order of their names only.
ReportByName ==
  [tasks |-> Rows(Drifted, drift, <),
   handoffs |-> Rows(DriftedEdges, [e \in DriftedEdges |-> Normal], EdgeBefore)]

Report == [tasks |-> Rows(Drifted, drift, <),
           handoffs |-> Rows(DriftedEdges, handoff, EdgeBefore)]

\* The first MaxTasksPerDag of the tasks, in the order of their names.
Sampled == {t \in Drifted : Cardinality({u \in Drifted : u < t}) < MaxTasksPerDag}

Dropped == Cardinality(Drifted) - Cardinality(Sampled)

\* The gauges an alert looks at; the other ones repeat the summary.
Samples == [overall |-> Overall, severity |-> [t \in Sampled |-> drift[t]],
            dropped |-> Dropped]

Publish == /\ phase = "selected"
           /\ document' = Document
           /\ report' = Report
           /\ samples' = Samples
           /\ phase' = "published"
           /\ UNCHANGED <<given, impact, propagation, primary, listed, signalled>>

PublishNext == AnalysisStep \/ Publish

publishVars == <<originVars, listed, signalled, published>>

PublishSpec == PublishInit /\ [][PublishNext]_publishVars

-------------------------------------------------------------------------------
(* The alert rules.                                                        *)

CriticalDAG == samples.overall >= Critical
CriticalTasks == {t \in DOMAIN samples.severity : samples.severity[t] >= Critical}
TaskMetricsDropped == samples.dropped > 0

-------------------------------------------------------------------------------
(* Properties.                                                             *)

Published == phase = "published"

\* A critical drift cannot go unnoticed, also a single one among milder ones and
\* among tasks and handoffs without a result.  It raises the DAG's alert, of a task
\* and of a handoff alike; a critical task has an alert of its own unless the limit
\* dropped tasks, which has an alert too; and the first row of its table is
\* critical.  Nothing else raises the DAG's alert.
CriticalIsVisible ==
  Published =>
    /\ CriticalDAG = \/ \E t \in Tasks : drift[t] = Critical
                     \/ \E e \in Edges : handoff[e] = Critical
    /\ \A t \in Tasks : drift[t] = Critical =>
         /\ t \in CriticalTasks \/ TaskMetricsDropped
         /\ drift[report.tasks[1]] = Critical
    /\ \A e \in Edges : handoff[e] = Critical => handoff[report.handoffs[1]] = Critical

\* The document agrees with itself and with the graph: every task it names is counted
\* once, also one that was removed from the DAG or has a trend but no drift, and the
\* coverage is at most 100 %; the anomalous handoffs are those it lists; the affected tasks are those that a delay reaches from an origin;
\* whatever a path or the primary origin names has a drift of its own; a path scores
\* more than nothing, and the most exactly when all it affects is critical; and
\* without a primary origin an anomaly is one of handoffs.
DocumentAddsUp ==
  Published =>
    LET s == document.summary
        d == document.drifts
        named == DOMAIN document.dependencies \cup DOMAIN d \cup document.signals
                   \cup UNION Range(document.dependencies)
    IN  /\ s.total = Cardinality(named)
        /\ s.anomalousHandoffs = Cardinality({e \in DOMAIN document.handoffs :
                                                document.handoffs[e] > Normal})
        /\ s.analyzed = s.tasks[Normal] + s.anomalousTasks
        /\ s.anomalousTasks = s.tasks[Medium] + s.tasks[High] + s.tasks[Critical]
        /\ s.analyzed <= s.total
        /\ s.affected = Cardinality({t \in Delayed : Drifting(t)})
        /\ \A p \in document.paths : \A t \in ToSet(p) : t \in DOMAIN d /\ d[t] > Normal
        /\ \A p \in document.paths : LET x == Score(p) IN
             /\ 0 < x.num /\ x.num <= x.den
             /\ (x.num = x.den) = (\A t \in ToSet(Tail(p)) : d[t] = Critical)
        /\ document.primary # NoTask =>
             /\ d[document.primary] > Normal
             /\ document.impacts[document.primary] \in {"OWN_DRIFT", "COMBINED"}
        /\ document.primary = NoTask /\ document.overall > Normal =>
             s.anomalousTasks = 0 /\ s.anomalousHandoffs > 0
===============================================================================
