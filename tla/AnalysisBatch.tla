----------------------------- MODULE AnalysisBatch -----------------------------
(***************************************************************************)
(* AnalyzeDAGBatch.execute: one analysis per DAG, by the calling thread or *)
(* by a thread pool, the outcomes gathered in request order.  Every        *)
(* analysis (AnalyzeDAG.execute) opens its own data source, collects the   *)
(* task runs, then the dependencies, analyses them, and closes the source. *)
(*                                                                         *)
(* A step of an analysis may raise a FlowSenseError, which analyze_one     *)
(* turns into a value, or anything else (a defect), which it lets through. *)
(* What is collected and computed is abstracted to how each analysis ends. *)
(***************************************************************************)
EXTENDS Integers, FiniteSets, Sequences

CONSTANTS Dags,         \* DAG ids
          Blank,        \* those that are empty or all spaces
          MaxSize,      \* bound: DAGs in a batch
          MaxWidth      \* bound: max_concurrency

ASSUME DagsAssumption == Blank \subseteq Dags
ASSUME BoundsAssumption == MaxSize \in Nat /\ MaxWidth \in Nat

Positions == 1..MaxSize
Workers == 1..MaxWidth

Requests == UNION {[1..n -> Dags] : n \in 0..MaxSize}

VARIABLES dagIds,       \* normalized_dag_ids
          limitOk,      \* history_run_limit is not below minimum_history
          width,        \* max_concurrency
          main,         \* the calling thread: validate, gather, shutdown, or its end
          cursor,       \* position whose outcome it takes next
          future,       \* per position: what has become of its analysis
          job,          \* per worker: the position it works on, 0 for none
          stage,        \* per worker: the step it is at
          ending,       \* per worker: how its analysis will end, once closed
          source,       \* per position: its data source
          analyses,     \* dict of the result: DAG id to position analysed
          failures      \* dict of the result: DAG id to position that failed

\* History variables.
VARIABLES raisedAt      \* position whose exception execute() raised, 0 for none

vars == <<dagIds, limitOk, width, main, cursor, future, job, stage, ending,
          source, analyses, failures, raisedAt>>

request == <<dagIds, limitOk, width>>
threads == <<job, stage, ending>>
result == <<analyses, failures>>

Init == /\ dagIds \in Requests
        /\ limitOk \in BOOLEAN
        /\ width \in 0..MaxWidth
        /\ main = "validate"
        /\ cursor = 1
        /\ future = [i \in Positions |-> "none"]
        /\ job = [w \in Workers |-> 0]
        /\ stage = [w \in Workers |-> "idle"]
        /\ ending = [w \in Workers |-> "none"]
        /\ source = [i \in Positions |-> "none"]
        /\ analyses = {}
        /\ failures = {}
        /\ raisedAt = 0

Size == Len(dagIds)
Smaller(a, b) == IF a <= b THEN a ELSE b

-------------------------------------------------------------------------------
(* execute: validation and the choice of a strategy.                       *)

\* Mutant of Valid: duplicates are let through.
ValidButForDuplicates ==
  /\ width >= 1
  /\ Size > 0
  /\ \A i \in 1..Size : dagIds[i] \notin Blank
  /\ limitOk

Valid == /\ width >= 1
         /\ Size > 0
         /\ \A i \in 1..Size : dagIds[i] \notin Blank
         /\ limitOk
         /\ \A i, j \in 1..Size : dagIds[i] = dagIds[j] => i = j

Serial == width = 1 \/ Size = 1

\* Mutant of PoolSize: as many threads as max_concurrency and one to spare.
PoolSizePlusOne == IF Serial THEN 1 ELSE Smaller(width + 1, Size)

\* Threads that run analyses: the calling one, or those of the pool.
PoolSize == IF Serial THEN 1 ELSE Smaller(width, Size)

Reject == /\ main = "validate"
          /\ ~Valid
          /\ main' = "rejected"
          /\ UNCHANGED <<request, cursor, future, threads, source, result,
                         raisedAt>>

\* The pool's map() queues every analysis at once; the built-in map() runs each
\* when its outcome is asked for.
Begin == /\ main = "validate"
         /\ Valid
         /\ main' = "gather"
         /\ future' = [i \in Positions |-> IF i <= Size THEN "queued" ELSE "none"]
         /\ UNCHANGED <<request, cursor, threads, source, result, raisedAt>>

-------------------------------------------------------------------------------
(* One analysis, on worker w.                                              *)

\* The position at the head of the queue, or the one the serial map is asked for.
Ready(i) == /\ future[i] = "queued"
            /\ Serial => i = cursor /\ main = "gather"
            /\ \A j \in 1..i-1 : future[j] # "queued"

Take(w) == /\ w <= PoolSize
           /\ job[w] = 0
           /\ \E i \in 1..Size :
                /\ Ready(i)
                /\ job' = [job EXCEPT ![w] = i]
                /\ future' = [future EXCEPT ![i] = "running"]
           /\ stage' = [stage EXCEPT ![w] = "open"]
           /\ UNCHANGED <<request, main, cursor, ending, source, result,
                          raisedAt>>

\* source_factory(request): builds the client, of the environment's configuration or
\* of one that the program gave.
Open(w) == /\ stage[w] = "open"
           /\ source' = [source EXCEPT ![job[w]] = "open"]
           /\ stage' = [stage EXCEPT ![w] = "collect"]
           /\ UNCHANGED <<request, main, cursor, future, job, ending, result,
                          raisedAt>>

\* AirflowClient.__init__ finds a credential missing when it has its HTTP client
\* already, and nobody closes that.  load_airflow_config would have refused such a
\* configuration; one given to create_airflow_data_source_factory may be so.
Abandon(w) == /\ stage[w] = "open"
              /\ source' = [source EXCEPT ![job[w]] = "abandoned"]
              /\ ending' = [ending EXCEPT ![w] = "failure"]
              /\ stage' = [stage EXCEPT ![w] = "finish"]
              /\ UNCHANGED <<request, main, cursor, future, job, result, raisedAt>>

Following == [collect |-> "depend", depend |-> "analyze"]

\* collect_task_runs, then get_dag_dependencies, succeed.
Fetch(w) == /\ stage[w] \in DOMAIN Following
            /\ stage' = [stage EXCEPT ![w] = Following[stage[w]]]
            /\ UNCHANGED <<request, main, cursor, future, job, ending, source,
                           result, raisedAt>>

Analyze(w) == /\ stage[w] = "analyze"
              /\ ending' = [ending EXCEPT ![w] = "analysis"]
              /\ stage' = [stage EXCEPT ![w] = "close"]
              /\ UNCHANGED <<request, main, cursor, future, job, source, result, raisedAt>>

\* Mutant of AfterError: an exception skips the exit of the with statement.
AfterErrorFinish(w) == "finish"

\* Where an exception in the step of w leads: out of the with statement, if the
\* source is open.
AfterError(w) == IF stage[w] = "open" THEN "finish" ELSE "close"

Break(w) == /\ stage[w] \in {"open", "collect", "depend", "analyze"}
            /\ \E e \in {"failure", "defect"} : ending' = [ending EXCEPT ![w] = e]
            /\ stage' = [stage EXCEPT ![w] = AfterError(w)]
            /\ UNCHANGED <<request, main, cursor, future, job, source, result, raisedAt>>

Close(w) == /\ stage[w] = "close"
            /\ source' = [source EXCEPT ![job[w]] = "closed"]
            /\ stage' = [stage EXCEPT ![w] = "finish"]
            /\ UNCHANGED <<request, main, cursor, future, job, ending, result, raisedAt>>

\* Mutant of Finish: the thread does not let go of its analysis.
FinishKeepingJob(w) == /\ stage[w] = "finish"
                       /\ future' = [future EXCEPT ![job[w]] = ending[w]]
                       /\ stage' = [stage EXCEPT ![w] = "idle"]
                       /\ ending' = [ending EXCEPT ![w] = "none"]
                       /\ UNCHANGED <<request, main, cursor, job, source,
                                      result, raisedAt>>

\* analyze_one returns its value or lets the defect through; the thread is free.
Finish(w) == /\ stage[w] = "finish"
             /\ future' = [future EXCEPT ![job[w]] = ending[w]]
             /\ job' = [job EXCEPT ![w] = 0]
             /\ stage' = [stage EXCEPT ![w] = "idle"]
             /\ ending' = [ending EXCEPT ![w] = "none"]
             /\ UNCHANGED <<request, main, cursor, source, result, raisedAt>>

Work(w) == \/ Take(w) \/ Open(w) \/ Abandon(w) \/ Fetch(w) \/ Analyze(w)
           \/ Break(w) \/ Close(w) \/ Finish(w)

-------------------------------------------------------------------------------
(* _build_result, on the calling thread.                                   *)

\* Mutant of Outcome: outcomes are taken as they come, not in request order.
OutcomeAsItCame == {i \in 1..Size : future[i] \in {"analysis", "failure", "defect"}}

\* The outcome zip() waits for.
Outcome == {i \in {cursor} : future[i] \in {"analysis", "failure", "defect"}}

Gather == /\ main = "gather"
          /\ cursor <= Size
          /\ \E i \in Outcome :
               /\ future[i] # "defect"
               /\ IF future[i] = "failure"
                  THEN /\ failures' = failures \cup {<<dagIds[cursor], i>>}
                       /\ UNCHANGED analyses
                  ELSE /\ analyses' = analyses \cup {<<dagIds[cursor], i>>}
                       /\ UNCHANGED failures
          /\ cursor' = cursor + 1
          /\ UNCHANGED <<request, main, future, threads, source, raisedAt>>

\* Mutant of Cancelled: queued analyses are left in the queue.
NotCancelled == future

\* The result iterator cancels what has not started when it is abandoned.
Cancelled == [i \in Positions |-> IF future[i] = "queued" /\ ~Serial
                                  THEN "cancelled" ELSE future[i]]

GatherDefect == /\ main = "gather"
                /\ cursor <= Size
                /\ \E i \in Outcome : /\ future[i] = "defect"
                                      /\ raisedAt' = i
                /\ future' = Cancelled
                /\ main' = "shutdown"
                /\ UNCHANGED <<request, cursor, threads, source, result>>

GatheredAll == /\ main = "gather"
               /\ cursor > Size
               /\ main' = "shutdown"
               /\ UNCHANGED <<request, cursor, future, threads, source, result, raisedAt>>

\* Mutant of Drained: the pool is left without waiting.
NotDrained == TRUE

\* Leaving the executor's with statement waits for its threads: those at work,
\* and whatever is still queued for them.
Drained == /\ \A w \in Workers : job[w] = 0
           /\ Serial \/ \A i \in 1..Size : future[i] # "queued"

Shutdown == /\ main = "shutdown"
            /\ Drained
            /\ main' = IF raisedAt = 0 THEN "returned" ELSE "raised"
            /\ UNCHANGED <<request, cursor, future, threads, source, result, raisedAt>>

Main == Reject \/ Begin \/ Gather \/ GatherDefect \/ GatheredAll \/ Shutdown

Next == Main \/ \E w \in Workers : Work(w)

\* The operating system schedules every thread; every step of an analysis ends.
Spec == /\ Init /\ [][Next]_vars
        /\ WF_vars(Main)
        /\ \A w \in Workers : WF_vars(Work(w))

-------------------------------------------------------------------------------
(* Properties.                                                             *)

Ended == main \in {"rejected", "returned", "raised"}

TypeOK == /\ dagIds \in Requests
          /\ limitOk \in BOOLEAN
          /\ width \in 0..MaxWidth
          /\ main \in {"validate", "gather", "shutdown", "rejected", "returned",
                      "raised"}
          /\ cursor \in 1..MaxSize + 1
          /\ future \in [Positions -> {"none", "queued", "running", "analysis",
                                      "failure", "defect", "cancelled"}]
          /\ job \in [Workers -> 0..MaxSize]
          /\ \A w \in Workers : job[w] = 0 <=> stage[w] = "idle"
          /\ stage \in [Workers -> {"idle", "open", "collect", "depend",
                                   "analyze", "close", "finish"}]
          /\ ending \in [Workers -> {"none", "analysis", "failure", "defect"}]
          /\ source \in [Positions -> {"none", "open", "closed", "abandoned"}]
          /\ analyses \subseteq Dags \X Positions
          /\ failures \subseteq Dags \X Positions
          /\ raisedAt \in 0..MaxSize

\* At no time are more analyses running, or more Airflow clients open, than
\* max_concurrency allows; and when execute() has returned or raised, none is,
\* whatever failed: no thread is at work and every source that was opened is closed.
\* (A client whose construction fails is no source yet: see Abandon.)
ResourcesBounded ==
  LET allowed == IF Ended THEN 0 ELSE width
  IN  /\ Cardinality({i \in Positions : future[i] = "running"}) <= allowed
      /\ Cardinality({i \in Positions : source[i] = "open"}) <= allowed
      /\ Cardinality({w \in Workers : job[w] # 0}) <= allowed

\* Once execute() has stopped gathering, after a defect or at the end, no analysis
\* is begun: what had not started is cancelled.
NoStartInShutdown ==
  [][main = "shutdown" =>
       \A i \in Positions : future'[i] = "running" => future[i] = "running"]_vars

\* The threads implement the sequential contract, in whatever order the analyses
\* finish: a position is decided once and for good, a result names every requested
\* DAG under the outcome of its own analysis, an exception is that of the first
\* defect in request order, and every batch replies.
Contract == INSTANCE BatchContract WITH
  requested <- dagIds,
  accepted <- Valid,
  verdict <- [i \in Positions |->
                IF future[i] \in {"analysis", "failure", "defect"}
                THEN future[i] ELSE "none"],
  answer <- IF main = "returned"
            THEN [analyses |-> analyses, failures |-> failures]
            ELSE [analyses |-> {}, failures |-> {}],
  blame <- IF Ended THEN raisedAt ELSE 0,
  reply <- IF Ended THEN main ELSE "none"

ImplementsContract == Contract!Spec
===============================================================================
