---------------------------- MODULE AnalysisSystem ----------------------------
(***************************************************************************)
(* One analysis from end to end, AnalyzeDAG.execute: the collection of     *)
(* RunCollection, then the dependencies, then the engine's HistoryBuild on *)
(* what was collected.  Neither module knows what the other one assumes:   *)
(* the engine takes the order of the task runs for the order of time, and  *)
(* the collection takes whatever the endpoint at hand returns.             *)
(***************************************************************************)
EXTENDS RunCollection

CONSTANTS Graphs,         \* dependency graphs: task -> downstream tasks
          MinimumHistory, \* minimum_history
          BaselineWindow  \* baseline_window

\* What HistoryBuild assumes, for the instance of it below.
ASSUME SubjectsAssumption == Tasks \cap (Tasks \X Tasks) = {}
ASSUME GraphsAssumption == Graphs \subseteq [Tasks -> SUBSET Tasks]
ASSUME PolicyAssumption ==
  /\ MinimumHistory \in Nat /\ MinimumHistory >= 2
  /\ BaselineWindow \in Nat
  /\ BaselineWindow = 0 \/ BaselineWindow >= MinimumHistory - 1

VARIABLES dependencies,   \* external until read: the DAG's structure
          enginePhase,    \* collect (not begun), tasks, handoffs, done
          durations,      \* duration_history
          delays,         \* history of the handoffs
          drift,          \* drift_results
          handoffDrift,   \* handoff_drift_results
          diagnostics,    \* of the handoff history
          insufficient,   \* tasks and edges with too little history
          current         \* current_dag_run_id

engine == <<dependencies, enginePhase, durations, delays, drift, handoffDrift,
            diagnostics, insufficient, current>>
systemVars == <<vars, engine>>

\* map_task_instance: an instance that was collected is successful and timed; the
\* times themselves decide nothing here.
Whole == [success |-> TRUE, start |-> 1, end |-> 2, timed |-> TRUE]

TaskRuns == [k \in DOMAIN collected |->
               [run |-> collected[k][1], task |-> collected[k][2], shape |-> Whole]]

Engine == INSTANCE HistoryBuild WITH taskRuns <- TaskRuns,
                                     phase <- enginePhase,
                                     Shapes <- {Whole},
                                     MaxTaskRuns <- 0

SystemInit == Init /\ Engine!Init

\* A step of collect_task_runs, or of Airflow.
CollectionStep == Next /\ UNCHANGED engine

\* get_dag_dependencies fails: nothing reaches the engine.
DependenciesFail == /\ phase = "done"
                    /\ enginePhase = "collect"
                    /\ phase' = "failed"
                    /\ UNCHANGED <<airflow, target, selected, pending, collected,
                                   changes, torn, engine>>

\* The stages of the engine, once the collection is complete.
EngineStep == /\ phase = "done"
              /\ UNCHANGED vars
              /\ Engine!AnalyzeTasks \/ Engine!AnalyzeHandoffs \/ Engine!Report

SystemNext == CollectionStep \/ DependenciesFail \/ EngineStep

SystemSpec == SystemInit /\ [][SystemNext]_systemVars

-------------------------------------------------------------------------------
(* Properties.                                                             *)

Reported == enginePhase = "done"

MeasuredRuns(t) == {durations[t][k].run : k \in DOMAIN durations[t]}

\* Whatever the server supports, the same tasks are compared: while Airflow
\* stands still, the history of a task is made of the window's runs that completed
\* it, each observed once and from one task run, and it is compared exactly if
\* these are minimum_history or more.  Otherwise it is diagnosed, if it has any.
HistoriesComplete ==
  (Reported /\ Stable) =>
    \A t \in Tasks :
      LET ran == {r \in ToSet(selected) : t \in completed[r]}
      IN  /\ MeasuredRuns(t) = ran
          /\ Len(durations[t]) = Cardinality(ran)
          /\ \A k \in DOMAIN durations[t] : Cardinality(durations[t][k].from) = 1
          /\ (t \in DOMAIN drift) = (Cardinality(ran) >= MinimumHistory)
          /\ t \in insufficient <=> ran # {} /\ t \notin DOMAIN drift

\* Fetched run by run, the order of the task runs is the order of time, all the way
\* to the comparisons: the reported current run is the newest one observed (the
\* target, if it completed anything), each task is compared by its newest
\* observation, and with older ones.  A run listed twice changes nothing of this.
RunByRunKeepsOrder ==
  (Reported /\ NoBatch /\ collected # <<>>) =>
    /\ \A r \in Observed : stamp[r] <= stamp[current]
    /\ (target \in Observed) => current = target
    /\ \A t \in DOMAIN drift :
         /\ \A r \in MeasuredRuns(t) : stamp[r] <= stamp[drift[t].current]
         /\ drift[t].current \notin ToSet(drift[t].baseline)
         /\ current \in MeasuredRuns(t) => drift[t].current = current
    /\ \A e \in DOMAIN handoffDrift : \A r \in ToSet(handoffDrift[e].baseline) :
         stamp[r] <= stamp[handoffDrift[e].current]

\* What the README says of --dag-run-id: the given run is selected as the current
\* observation, and newer ones are excluded.
TargetIsCurrent ==
  (Reported /\ target \in Observed) => current = target
===============================================================================
