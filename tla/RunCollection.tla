----------------------------- MODULE RunCollection -----------------------------
(***************************************************************************)
(* AirflowClient.collect_task_runs: which DAG runs an analysis is made of  *)
(* and in which order their task instances reach the engine.  The client   *)
(* lists the runs (filtered by the server, or all of them), selects a      *)
(* window, and fetches the instances of the window (in one batch, or run   *)
(* by run where the batch endpoint is not supported).  Airflow goes on     *)
(* running, clearing and deleting runs between two of these requests.      *)
(*                                                                         *)
(* A run is its number, in creation order; an instance <<r, t>> is the     *)
(* one of task t in run r.  Pages are abstracted to the list they add up   *)
(* to, which AirflowPaging shows may repeat or skip a record when the      *)
(* collection changed meanwhile.                                           *)
(***************************************************************************)
EXTENDS Integers, FiniteSets, SequencesExt, Orderings

CONSTANTS NumRuns,      \* bound: DAG runs
          Tasks,        \* task ids
          Stamps,       \* run timestamps to consider, functions of the runs
          Histories,    \* sets of tasks a run may have completed
          HistoryLimit, \* history_run_limit
          MaxChanges    \* bound: changes Airflow makes meanwhile

Runs == 1..NumRuns

\* __init__ and AnalysisRequest.validate: an analysis needs two runs at least.
ASSUME HistoryLimitAssumption == HistoryLimit \in Nat /\ HistoryLimit >= 2
ASSUME StampsAssumption == Stamps \subseteq [Runs -> Nat]
ASSUME TasksAssumption == IsFiniteSet(Tasks)
ASSUME HistoriesAssumption == Histories \subseteq SUBSET Tasks
ASSUME BoundsAssumption == NumRuns \in Nat /\ MaxChanges \in Nat

NoTarget == 0

\* full: every endpoint and filter works.  noRunFilter: the filtered run list is
\* answered with a status of UNSUPPORTED_FILTER_STATUS_CODES.  noBatch: so is the
\* instance batch.  bare: so are both.  lenient: the batch ignores its filters.
Servers == {"full", "noRunFilter", "noBatch", "bare", "lenient"}

VARIABLES server,       \* external: what the Airflow API supports
          stamp,        \* external: run_after, else logical_date, else queued_at
          state,        \* external: "success", "unfinished" or "gone"
          completed,    \* external: tasks of each run whose instances succeeded
          target,       \* target_dag_run_id
          phase,        \* next step of the client, or how it ended
          selected,     \* selected_run_ids
          pending,      \* runs the run-by-run fetch has still to visit
          collected     \* the task runs, in the order they will be returned

\* History variables.
VARIABLES changes,      \* changes Airflow made since the collection began
          torn          \* what paging did to the run list

NoRunFilter == server \in {"noRunFilter", "bare"}
NoBatch == server \in {"noBatch", "bare"}

airflow == <<server, stamp, state, completed>>
vars == <<airflow, target, phase, selected, pending, collected, changes, torn>>

Init == /\ server \in Servers
        /\ stamp \in Stamps
        /\ state \in [Runs -> {"success", "unfinished"}]
        /\ completed \in [Runs -> Histories]
        /\ target \in Runs \cup {NoTarget}
        /\ phase = "list"
        /\ selected = <<>>
        /\ pending = <<>>
        /\ collected = <<>>
        /\ changes = 0
        /\ torn = "no"

-------------------------------------------------------------------------------
(* The run list.                                                           *)

Existing == {r \in Runs : state[r] # "gone"}
Successful == {r \in Runs : state[r] = "success"}

\* Sequences of all elements of set, by non-increasing timestamp; the server
\* breaks ties as it likes.
NewestFirst(set) ==
  {s \in SetToSeqs(set) : \A i, j \in DOMAIN s : i < j => stamp[s[i]] >= stamp[s[j]]}

\* What paging makes of a list: a record that moved to a later page is received
\* twice, one that moved to an earlier page not at all.
Paged(list, tear) ==
  CASE tear = "no" -> {list}
    [] tear = "repeat" -> {InsertAt(list, i + 1, list[i]) : i \in DOMAIN list}
    [] tear = "skip" -> {RemoveAt(list, i) : i \in DOMAIN list}

Front1(seq, n) == SubSeq(seq, 1, IF n <= Len(seq) THEN n ELSE Len(seq))

\* Mutant of ByTimestamp: the list is taken as it came.
AsListed(list) == list

\* list.sort(key=run_timestamp): Python's sort is stable.
ByTimestamp(list) == SortedBy(list, stamp)

\* Mutant of Window: the limit is forgotten.
WindowUnbounded(runs, last) == SubSeq(runs, 1, last)

\* The last HistoryLimit runs that end at position last.
Window(runs, last) ==
  SubSeq(runs, (IF last > HistoryLimit THEN last - HistoryLimit ELSE 0) + 1, last)

\* Mutant of Select: the target is looked for among the newest runs only.
SelectNearby(list) ==
  LET sorted == ByTimestamp(list)
      runs == Window(sorted, Len(sorted))
      at == {i \in DOMAIN runs : runs[i] = target}
  IN  IF target # NoTarget /\ at = {}
      THEN phase' = "notFound" /\ UNCHANGED selected
      ELSE /\ selected' = IF target = NoTarget THEN runs
                          ELSE SubSeq(runs, 1, CHOOSE i \in at : TRUE)
           /\ phase' = IF runs = <<>> THEN "done" ELSE "fetch"

\* What Select keeps of a list of successful runs; without a target the window
\* ends at the newest run.
Select(list) ==
  LET runs == ByTimestamp(list)
      at == {i \in DOMAIN runs : runs[i] = target}
  IN  IF target = NoTarget
      THEN /\ selected' = Window(runs, Len(runs))
           /\ phase' = IF runs = <<>> THEN "done" ELSE "fetch"
      ELSE IF at = {}
           THEN phase' = "notFound" /\ UNCHANGED selected
           ELSE /\ selected' = Window(runs, CHOOSE i \in at : \A j \in at : i <= j)
                /\ phase' = "fetch"

Tear(tear) == /\ torn' = tear
              /\ tear # "no" => changes < MaxChanges
              /\ changes' = changes + (IF tear = "no" THEN 0 ELSE 1)

Tears == {"no", "repeat", "skip"}

\* _get_recent_successful_dag_runs, without a target: the server filters, sorts
\* and limits.
ListFiltered ==
  /\ phase = "list"
  /\ target = NoTarget
  /\ ~NoRunFilter
  /\ \E tear \in Tears, newest \in NewestFirst(Successful) :
       /\ Tear(tear)
       /\ \E list \in Paged(newest, tear) : Select(Front1(list, HistoryLimit))
  /\ UNCHANGED <<airflow, target, pending, collected>>

\* get_dag_runs, for a target or as the fallback: all runs, in creation order,
\* filtered here.
ListAll ==
  /\ phase = "list"
  /\ target # NoTarget \/ NoRunFilter
  /\ \E tear \in Tears :
       /\ Tear(tear)
       /\ \E list \in Paged(Ascending(Existing), tear) : Select(Only(list, Successful))
  /\ UNCHANGED <<airflow, target, pending, collected>>

-------------------------------------------------------------------------------
(* The task instances.                                                     *)

\* Some order of a set, as ranks of its elements.
Ranks(set) == Bijection(set, 1..Cardinality(set))

\* The batch endpoint's order of tasks, whichever it is.
TaskOrder == CHOOSE rank \in Ranks(Tasks) : TRUE

\* Those instances of these runs that succeeded.
Succeeded(runs) == {o \in runs \X Tasks : o[2] \in completed[o[1]]}

\* The batch endpoint orders instances by run or by task, and runs as it likes.
BatchOrders(found) ==
  LET runs == {o[1] : o \in found}
      task == [o \in found |-> TaskOrder[o[2]]]
      run(rank) == [o \in found |-> rank[o[1]]]
      by(f, g) == Ordered(found, Lexicographic(found, f, g))
  IN  UNION {{by(run(rank), task), by(task, run(rank))} : rank \in Ranks(runs)}

\* Mutant of InWindow: the answer is trusted to hold the runs asked for.
Trusted(answer) == Only(answer, Succeeded(Runs))

\* The last comprehension of collect_task_runs: what succeeded in the window.  An
\* instance has the state in which it was read, with its page.
InWindow(answer) == Only(answer, Succeeded(ToSet(selected)))

FetchBatch ==
  /\ phase = "fetch"
  /\ ~NoBatch
  /\ LET found == IF server = "lenient" THEN Existing \X Tasks ELSE Succeeded(ToSet(selected))
     IN  \E batch \in BatchOrders(found) : collected' = InWindow(batch)
  /\ phase' = "done"
  /\ UNCHANGED <<airflow, target, selected, pending, changes, torn>>

\* Mutant of FallBack: the oldest run is left out.
FallBackLate == /\ phase = "fetch"
                /\ NoBatch
                /\ pending' = Tail(selected)
                /\ phase' = IF Len(selected) = 1 THEN "done" ELSE "runByRun"
                /\ UNCHANGED <<airflow, target, selected, collected, changes,
                               torn>>

\* The batch is answered with an unsupported status: fetch run by run instead.
FallBack == /\ phase = "fetch"
            /\ NoBatch
            /\ pending' = selected
            /\ phase' = "runByRun"
            /\ UNCHANGED <<airflow, target, selected, collected, changes, torn>>

\* get_task_instances of the next run, whatever their state; the run is stamped on them.
FetchRun ==
  /\ phase = "runByRun"
  /\ pending # <<>>
  /\ state[Head(pending)] # "gone"
  /\ collected' = collected \o InWindow(SetToSeq({Head(pending)} \X Tasks))
  /\ pending' = Tail(pending)
  /\ phase' = IF Tail(pending) = <<>> THEN "done" ELSE phase
  /\ UNCHANGED <<airflow, target, selected, changes, torn>>

\* The run was deleted since it was listed: its 404 is not caught a second time.
RunGone == /\ phase = "runByRun"
           /\ pending # <<>>
           /\ state[Head(pending)] = "gone"
           /\ phase' = "failed"
           /\ UNCHANGED <<airflow, target, selected, pending, collected,
                          changes, torn>>

\* A request raises any other error or a record does not validate: the
\* collection is abandoned.
Fail == /\ phase \in {"list", "fetch", "runByRun"}
        /\ phase' = "failed"
        /\ UNCHANGED <<airflow, target, selected, pending, collected, changes,
                       torn>>

-------------------------------------------------------------------------------
(* Airflow between two requests.                                           *)

Change == /\ phase \in {"fetch", "runByRun"}
          /\ changes < MaxChanges
          /\ changes' = changes + 1
          /\ UNCHANGED <<server, stamp, target, phase, selected, pending,
                         collected, torn>>

Finish == /\ Change
          /\ \E r \in Existing \ Successful, done \in Histories :
               /\ state' = [state EXCEPT ![r] = "success"]
               /\ completed' = [completed EXCEPT ![r] = done]

\* A finished run is cleared: some of its instances go back to the queue.
Clear == /\ Change
         /\ \E r \in Successful, left \in Histories :
              /\ left \subseteq completed[r]
              /\ state' = [state EXCEPT ![r] = "unfinished"]
              /\ completed' = [completed EXCEPT ![r] = left]

Delete == /\ Change
          /\ \E r \in Existing :
               /\ state' = [state EXCEPT ![r] = "gone"]
               /\ completed' = [completed EXCEPT ![r] = {}]

Next == \/ ListFiltered \/ ListAll
        \/ FetchBatch \/ FallBack \/ FetchRun \/ RunGone \/ Fail
        \/ Finish \/ Clear \/ Delete

Spec == Init /\ [][Next]_vars

-------------------------------------------------------------------------------
(* Properties.                                                             *)

Stable == changes = 0

Observed == {collected[i][1] : i \in DOMAIN collected}

Eligible ==
  {r \in Successful : \/ target = NoTarget
                      \/ stamp[r] < stamp[target]
                      \/ stamp[r] = stamp[target] /\ r <= target}

\* Whatever the batch endpoint returns and Airflow does meanwhile, the engine
\* sees runs of the window only, at most HistoryLimit of them, and none that is
\* newer than a requested target.  And the window is the newest history there is:
\* while Airflow stands still, no successful run (up to the target, where there is
\* one) is left out that is newer than one selected, and none at all unless the
\* window is full.  A target is reported missing only if it is not a successful
\* run, or paging skipped it.
NewestSelected ==
  /\ Observed \subseteq ToSet(selected)
  /\ Cardinality(Observed) <= HistoryLimit
  /\ target # NoTarget =>
        \A r \in Observed : target \in ToSet(selected) /\ stamp[r] <= stamp[target]
  /\ (Stable /\ phase \in {"fetch", "runByRun", "done"}) =>
       LET chosen == ToSet(selected)
       IN  /\ chosen \subseteq Eligible
           /\ \A r \in chosen, s \in Eligible \ chosen : stamp[s] <= stamp[r]
           /\ chosen # Eligible => Cardinality(chosen) = HistoryLimit
  /\ phase = "notFound" => target \notin Successful \/ torn = "skip"
===============================================================================
