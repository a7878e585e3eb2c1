----------------------------- MODULE HistoryBuild -----------------------------
(***************************************************************************)
(* From task runs to comparisons: the part of                              *)
(* DefaultDAGAnalysisEngine.analyze that groups the collected task runs    *)
(* into one history per task and one per dependency, and decides which     *)
(* observation each is compared by, against which older ones, or with      *)
(* which diagnostic it is not.  The task runs come in any order and may be *)
(* incomplete; a mapped task has several per run.                          *)
(*                                                                         *)
(* A run is its number, oldest first; a time is a number or None.  How     *)
(* durations are aggregated and how far an observation has to drift is     *)
(* arithmetic: an observation of a task is the set of task runs it is made *)
(* of, and a comparison the runs of its two sides.                         *)
(***************************************************************************)
EXTENDS Integers, FiniteSets, SequencesExt, Orderings

CONSTANTS NumRuns,         \* bound: DAG runs
          Tasks,           \* task ids
          Graphs,          \* dependency graphs: task -> downstream tasks
          Shapes,          \* what a task run may look like, apart from its place
          MaxTaskRuns,     \* bound: task runs collected
          MinimumHistory,  \* minimum_history
          BaselineWindow   \* baseline_window, or NoWindow

None == -1
NoWindow == 0

Runs == 1..NumRuns

\* A dependency, a pair of tasks, is no task id.
ASSUME TasksAssumption == Tasks \cap (Tasks \X Tasks) = {}
ASSUME GraphsAssumption == Graphs \subseteq [Tasks -> SUBSET Tasks]
ASSUME ShapesAssumption ==
  Shapes \subseteq [success : BOOLEAN, start : Nat \cup {None},
                    end : Nat \cup {None}, timed : BOOLEAN]
ASSUME PolicyAssumption ==
  /\ MinimumHistory \in Nat /\ MinimumHistory >= 2
  /\ BaselineWindow \in Nat
  /\ BaselineWindow = NoWindow \/ BaselineWindow >= MinimumHistory - 1
ASSUME BoundsAssumption == NumRuns \in Nat /\ MaxTaskRuns \in Nat

TaskRun == [run : Runs, task : Tasks, shape : Shapes]

VARIABLES dependencies,    \* task -> downstream tasks
          taskRuns,        \* task_runs, in the order they were collected
          phase,           \* collect, tasks, handoffs, done
          durations,       \* duration_history, per task
          delays,          \* history of the handoffs, per edge
          drift,           \* drift_results: what each task is compared with
          handoffDrift,    \* handoff_drift_results: the same for the edges
          diagnostics,     \* those of the handoff history: code, edge and run
          insufficient,    \* tasks and edges diagnosed as too short
          current          \* current_dag_run_id, or None

given == <<dependencies, taskRuns>>
ofTasks == <<durations, drift>>
ofHandoffs == <<delays, handoffDrift, diagnostics>>
vars == <<given, phase, ofTasks, ofHandoffs, insufficient, current>>

Edges == {e \in Tasks \X Tasks : e[2] \in dependencies[e[1]]}

EmptyResults == [s \in {} |-> {}]

Init == /\ dependencies \in Graphs
        /\ taskRuns = <<>>
        /\ phase = "collect"
        /\ durations = [t \in Tasks |-> <<>>]
        /\ delays = [e \in Edges |-> <<>>]
        /\ drift = EmptyResults
        /\ handoffDrift = EmptyResults
        /\ diagnostics = {}
        /\ insufficient = {}
        /\ current = None

\* The data source returns one more task run.
Collect == /\ phase = "collect"
           /\ Len(taskRuns) < MaxTaskRuns
           /\ \E t \in TaskRun : taskRuns' = Append(taskRuns, t)
           /\ UNCHANGED <<dependencies, phase, ofTasks, ofHandoffs, insufficient,
                          current>>

-------------------------------------------------------------------------------
(* Grouping.                                                               *)

Earliest(set) == CHOOSE i \in set : \A j \in set : i <= j

Indices == DOMAIN taskRuns

\* tasks_in_run: the task runs of t in r, whatever their state.
Of(r, t) == {i \in Indices : taskRuns[i].run = r /\ taskRuns[i].task = t}

\* Mutant of Counted: failed task runs are timed too.
CountedAnyState(r, t) == {i \in Of(r, t) : taskRuns[i].shape.timed}

\* grouped_durations of t in r.
Counted(r, t) ==
  {i \in Of(r, t) : taskRuns[i].shape.success /\ taskRuns[i].shape.timed}

\* Dictionaries keep the order of first insertion: the keys of set, by the
\* earliest of the task runs group(key) that led to them.
ByFirst(set, group(_)) ==
  LET first == [k \in set |-> Earliest(group(k))]
  IN  Ordered(set, Lexicographic(set, first, first))

\* build_duration_history: one observation of t per run, in this order.
DurationHistory(t) ==
  LET counted(r) == Counted(r, t)
      runs == ByFirst({r \in Runs : counted(r) # {}}, counted)
  IN  [k \in DOMAIN runs |-> [run |-> runs[k], from |-> counted(runs[k])]]

RunsSeen == {taskRuns[i].run : i \in Indices}

\* runs_by_id.
RunOrder == LET of(r) == {i \in Indices : taskRuns[i].run = r}
            IN  ByFirst(RunsSeen, of)

Starts(set) == {taskRuns[i].shape.start : i \in set}
Ends(set) == {taskRuns[i].shape.end : i \in set}

\* What build_handoff_history_with_diagnostics makes of an edge in a run.  Its
\* INVALID_HANDOFF_TIMING cannot occur after these tests.
Verdict(r, e) ==
  LET up == Of(r, e[1])
      down == Of(r, e[2])
  IN  IF up = {} THEN "MISSING_UPSTREAM_TASK_RUN"
      ELSE IF None \in Ends(up) THEN "MISSING_UPSTREAM_END_DATE"
      ELSE IF down = {} THEN "MISSING_DOWNSTREAM_TASK_RUN"
      ELSE IF None \in Starts(down) THEN "MISSING_DOWNSTREAM_START_DATE"
      ELSE "measured"

\* Mutant of Delay: a mapped upstream is done with its first instance.
DelayFromFirst(r, e) ==
  Earliest(Starts(Of(r, e[2]))) - Earliest(Ends(Of(r, e[1])))

\* From the latest end of the upstream to the earliest start of the downstream.
Delay(r, e) ==
  LET ends == Ends(Of(r, e[1]))
      latest == CHOOSE t \in ends : \A u \in ends : t >= u
  IN  Earliest(Starts(Of(r, e[2]))) - latest

HandoffHistory(e) ==
  LET runs == Only(RunOrder, {r \in Runs : Verdict(r, e) = "measured"})
  IN  [k \in DOMAIN runs |-> [run |-> runs[k], delay |-> Delay(runs[k], e)]]

-------------------------------------------------------------------------------
(* The comparisons of calculate_drift.                                     *)

Enough(history) == Len(history) >= MinimumHistory

\* Mutant of Baseline: the window is cut at the old end.
BaselineOldest(history) ==
  LET older == [k \in 1..Len(history) - 1 |-> history[k].run]
      width == IF BaselineWindow = NoWindow \/ BaselineWindow > Len(older)
               THEN Len(older) ELSE BaselineWindow
  IN  SubSeq(older, 1, width)

\* durations[:-1][-baseline_window:], by their runs.
Baseline(history) ==
  LET older == [k \in 1..Len(history) - 1 |-> history[k].run]
      width == IF BaselineWindow = NoWindow \/ BaselineWindow > Len(older)
               THEN Len(older) ELSE BaselineWindow
  IN  SubSeq(older, Len(older) - width + 1, Len(older))

Compare(history) == [current |-> Last(history).run, baseline |-> Baseline(history)]

\* A drift result for every subject with enough history.
Compared(history) == [s \in {s \in DOMAIN history : Enough(history[s])} |->
                        Compare(history[s])]

\* A diagnostic for those with some, but too little.
TooShort(history) == {s \in DOMAIN history : history[s] # <<>> /\ ~Enough(history[s])}

\* build_duration_history, analyze_task_histories.
AnalyzeTasks == /\ phase = "collect"
                /\ durations' = [t \in Tasks |-> DurationHistory(t)]
                /\ drift' = Compared(durations')
                /\ insufficient' = TooShort(durations')
                /\ phase' = "tasks"
                /\ UNCHANGED <<given, ofHandoffs, current>>

Verdicts == {[code |-> Verdict(r, e), edge |-> e, run |-> r] : r \in RunsSeen, e \in Edges}

\* analyze_handoff_histories.
AnalyzeHandoffs == /\ phase = "tasks"
                   /\ delays' = [e \in Edges |-> HandoffHistory(e)]
                   /\ diagnostics' = {v \in Verdicts : v.code # "measured"}
                   /\ handoffDrift' = Compared(delays')
                   /\ insufficient' = insufficient \cup TooShort(delays')
                   /\ phase' = "handoffs"
                   /\ UNCHANGED <<given, ofTasks, current>>

\* The DAGAnalysis: the run of the last task run is called current.
Report == /\ phase = "handoffs"
          /\ current' = IF taskRuns = <<>> THEN None ELSE Last(taskRuns).run
          /\ phase' = "done"
          /\ UNCHANGED <<given, ofTasks, ofHandoffs, insufficient>>

Next == Collect \/ AnalyzeTasks \/ AnalyzeHandoffs \/ Report

Spec == Init /\ [][Next]_vars

-------------------------------------------------------------------------------
(* Properties.                                                             *)

Done == phase = "done"

\* No task run is lost or counted twice: the observations of a task divide its
\* successful timed task runs by DAG run, mapped instances together.  A task
\* with any is compared or reported as too short, never both.
DurationsAccounted ==
  Done => \A t \in Tasks :
    LET timed == {i \in Indices : /\ taskRuns[i].task = t
                                  /\ taskRuns[i].shape.success
                                  /\ taskRuns[i].shape.timed}
        seen == DOMAIN durations[t]
    IN  /\ \A i \in timed : \E k \in seen : i \in durations[t][k].from
        /\ \A k, l \in seen : \A i \in durations[t][k].from, j \in durations[t][l].from :
             /\ {i, j} \subseteq timed
             /\ taskRuns[i].run = taskRuns[j].run <=> k = l
        /\ timed # {} <=> t \in DOMAIN drift \cup insufficient
        /\ ~(t \in DOMAIN drift /\ t \in insufficient)

\* Every dependency is accounted for in every run: it is measured once, or there
\* is one diagnostic, and that only where a task run or a date is missing.  What
\* is measured is the tightest of all pairs of mapped instances.
HandoffsAccounted ==
  Done => \A e \in Edges, r \in Runs :
    LET up == {i \in Indices : taskRuns[i].run = r /\ taskRuns[i].task = e[1]}
        down == {i \in Indices : taskRuns[i].run = r /\ taskRuns[i].task = e[2]}
        gap(i, j) == taskRuns[j].shape.start - taskRuns[i].shape.end
        found == {k \in DOMAIN delays[e] : delays[e][k].run = r}
        reasons == {d \in diagnostics : d.edge = e /\ d.run = r}
        whole == /\ up # {} /\ \A i \in up : taskRuns[i].shape.end # None
                 /\ down # {} /\ \A j \in down : taskRuns[j].shape.start # None
    IN  /\ Cardinality(found) + Cardinality(reasons)
              = IF r \in RunsSeen THEN 1 ELSE 0
        /\ (found # {}) = whole
        /\ \A k \in found : /\ \A i \in up, j \in down : delays[e][k].delay <= gap(i, j)
                            /\ \E i \in up, j \in down : delays[e][k].delay = gap(i, j)

\* The order DAGDataSource promises.
OldestToNewest == \A i, j \in Indices : i < j => taskRuns[i].run <= taskRuns[j].run

\* The observation that is compared is the newest there is, and of the reported
\* current run if the subject was measured there; the baseline is the measured
\* runs just before it, as many as the window takes.
SoundComparison(sides, measured) ==
  LET older == {r \in measured : r < sides.current}
      base == ToSet(sides.baseline)
  IN  /\ sides.current \in measured
      /\ \A r \in measured : r <= sides.current
      /\ current \in measured => sides.current = current
      /\ base \subseteq older
      /\ \A r \in base, s \in older \ base : s < r
      /\ Len(sides.baseline) = IF BaselineWindow = NoWindow \/ Cardinality(older) < BaselineWindow
                               THEN Cardinality(older) ELSE BaselineWindow

\* If the data source keeps its promise of an order, every comparison is of the
\* newest observation with those before it, though each history is built in an
\* order of its own.
ComparesWithOlder ==
  (Done /\ OldestToNewest) =>
    /\ \A t \in DOMAIN drift :
         SoundComparison(drift[t], {durations[t][k].run : k \in DOMAIN durations[t]})
    /\ \A e \in DOMAIN handoffDrift :
         SoundComparison(handoffDrift[e], {delays[e][k].run : k \in DOMAIN delays[e]})
===============================================================================
