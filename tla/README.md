# FlowSense Engine: a TLA+ model

FlowSense analyses the latency of Apache Airflow DAGs: it collects the task
runs of a DAG over the Airflow REST API, compares the newest run with the
recent ones, follows the drifts it finds along the DAG's dependencies, and names
the task they start from. It runs as a command (`analyze`, `analyze-batch`), as a
Prometheus exporter (`serve-metrics`), as an MCP tool and as a Python library;
`dags` and `doctor` help to set it up.

This directory holds TLA+ modules translated from that code, TLC configurations
that check them on small instances, and theorems about them whose proofs TLAPS
checks for every value of the constants.

    tlc -workers 2 -config AirflowTransport.cfg AirflowTransport
    tlc -workers 2 -config AnalysisSystem.cfg MCAnalysisSystem
    tlapm AirflowTransport_proofs.tla

`PROJECT.json` lists the runs, which definition stands for which source lines
(`map`), a mutation of the code that breaks each property (`mutants`), the
theorems, and the hazards the properties are aimed at. Paths below are relative
to `src/src/flowsense/`.

## 1. Inventory

| Component | State it keeps | Operations | Modelled by |
|---|---|---|---|
| Requests, retries, login (`infrastructure/airflow/client.py`, `auth.py`) | the cached token; per call: the auth attempt, the request attempt | `_request`, `_authenticated_request`, `_get_token` | `AirflowTransport`, `AuthorizedCall` |
| Pagination (`client.py`) | records received, offset | `_get_paginated`, `_post_paginated` | `AirflowPaging` |
| Collection of task runs (`client.py`) | window of runs, runs still to visit, task runs | `collect_task_runs`, `_get_recent_successful_dag_runs`, `_get_successful_task_instances` | `RunCollection`, `AnalysisSystem` |
| Single-DAG use case (`application/use_cases.py`, `request.py`) | one open data source | `AnalyzeDAG.execute` | `AnalysisSystem`; per-worker part of `AnalysisBatch` |
| Batch analysis (`application/batch.py`) | futures, threads, results | `AnalyzeDAGBatch.execute`, `_build_result` | `AnalysisBatch`, `BatchContract` |
| History and handoffs (`engine/history.py`, `timing.py`, `application/pipeline.py`, `analysis_engine.py`) | none (pure) | grouping, comparison, diagnostics | `HistoryBuild` |
| Drift, change point, trend (`engine/drift.py`, `change_point.py`, `trend.py`) | none (pure, floating point) | robust z-scores, candidate splits, Theil-Sen slopes | `SeriesStatistics`; the slicing in `HistoryBuild` |
| Impact, propagation, origin (`engine/impact.py`, `propagation.py`, `root_cause.py`) | none (pure, recursive) | classification, path search, ranking | `OriginAnalysis` |
| Metrics service (`observability/service.py`, `prometheus.py`) | `_analyses`, `_runtime`, a lock, an HTTP server | `collect_metrics_once`, `record_*`, `render`, shutdown | `MetricsService`, `SnapshotRegister` |
| Published result (`domain/results.py`, `application/serialization.py`, `cli/report.py`, samples of `prometheus.py`, `deploy/observability/alerts.yml`) | none (pure) | summary, document, tables, samples, alert rules | `PublishedAnalysis`; failed and stale rules in `MetricsService` |
| Commands and MCP tool (`cli/main.py`, `cli/policy.py`, `cli/doctor.py`, `mcp/server.py`, `domain/policy.py`, `infrastructure/airflow/config.py`) | exit code, checks, output file | `analyze`, `analyze-batch`, `dags`, `doctor`, the tool; `load_airflow_config` | `CliDelivery` |
| Facade, deprecated modules, schemas | none | | not modelled, see section 7 |

How they interact. A command or the metrics loop builds a request and calls
`AnalyzeDAG.execute`, directly or through `AnalyzeDAGBatch`. That opens a data
source (an `AirflowClient`), calls `collect_task_runs` and
`get_dag_dependencies`, closes it, and hands both results to the engine. In the
client, collecting is a sequence of paginated fetches, each page is one
authenticated request, and each of these is a retry loop in a refresh loop that
may contain a login with a retry loop of its own. In a batch, several of these
stacks run on the threads of a pool and share nothing but the result list; in
the service, one stack runs on the main thread while HTTP handler threads read
the exporter under its lock. Outside the program, Airflow goes on: runs finish,
are cleared and deleted, tokens expire.

What is hard, and what each component has to get right:

* *Nested loops against an unreliable server.* Retry, refresh and login must
  not multiply, must end, must never send a refused token again in the same
  call, and a token that merely went stale must not fail a call.
* *Offset paging over a changing collection.* Nothing lost, nothing repeated, as
  far as offsets can promise it; progress at the limit's boundary.
* *Several requests that are not one snapshot.* The window of runs is chosen
  first and its instances are fetched later; the runs may change between. No run
  outside the window may reach the engine, whichever endpoint was available.
* *Threads.* Outcomes are attributed by position while analyses finish in any
  order; a defect cancels what has not started, waits for the rest, leaves no
  client open, and which error the caller sees is deterministic.
* *A snapshot made of two writes.* A scrape must not see half a record or wait
  for ever, whenever the service is interrupted; and whoever reads old
  measurements must be told that they are.
* *Three detectors over one short series.* A bad run must neither be a structure
  nor spoil a baseline, a shift must be seen although the baseline follows it,
  and the signals must not point back where the series never does.
* *Histories with an order of their own.* Tasks and dependencies are compared by
  the last entry of lists that are built by first appearance, from task runs
  that may be missing, repeated, undated or failed. Nothing may be lost without a
  diagnostic, and what is compared must be newer than what it is compared with.
* *Recursive searches over the graph.* Every strong drift is an origin or on the
  path of one; the primary origin does not depend on the order of reading.
* *A result that is read in parts.* Samples are cut off at a limit, tables are
  sorted, counts come from overlapping paths and from tasks that were removed:
  a critical drift has to be visible in each part, and the counts have to agree.
* *One exit code for everything.* Failures of the selection, the policy, the
  analysis and the output share three codes and a file that may be left over
  from the last run; what a CI job reads must not look better than it is.

## 2. The modules

`X.tla` is a component, `MCX.tla` gives its constants values for TLC, `X.cfg` is
its main run, `X_proofs.tla` its theorems; those of `MetricsService`, `OriginAnalysis`,
`PublishedAnalysis` and `SeriesStatistics` are in `Results_proofs.tla`. In every module the variables the
code does not have are declared apart and called *history* variables (they
record, and no guard of the code's actions depends on them, except where a
bound is counted), variables of the outside world are marked `external`, and
the operators called "Mutant of ..." are the plausible bugs each property is
tried against; no specification uses them.

**AirflowTransport** is one `AirflowClient` over any number of calls. `StartCall`
is the entry into `_authenticated_request`; `UseCredential` takes the cached or
the configured credential, `StartLogin` finds the cache empty; `LoginRetry`,
`LoginSucceeds`, `LoginFails` and `RequestRetry`, `RequestSucceeds`,
`RequestFails` are the outcomes of one HTTP attempt in `_request`, called for the
login and for the API request; `RenewCredential` is the 401 that drops the token
and goes round the outer loop, `CredentialRefused` the 401 that is reported. A
token is the number of the login that issued it. `Revoke` is the server's.
What an attempt ends with is one of the errors the code distinguishes;
statuses, bodies and delays are left out.

**AuthorizedCall** is what that is for its callers: acquire a credential, use
it, renew it at most once and only after a refusal, return or report one error.
`AirflowTransport!ImplementsAuthorizedCall` is the refinement: every retry and
the login's attempts are stutters.

**AirflowPaging** is one call of `_get_paginated` (or of `_post_paginated`, the
same loop). `FetchPage` is one turn of the loop with everything it does: append,
test the limit, truncate, test for the end, advance. Between turns `Insert` and
`Delete` change the collection anywhere.

**RunCollection** is `collect_task_runs` against five kinds of server:
everything supported, run filters not supported, batch endpoint not supported,
neither, and one that ignores the filters of the batch, so that instances of other
runs and unfinished ones come back and only the client's own filter (`InWindow`)
keeps them from the engine. `ListFiltered` and `ListAll` are
the two ways to list runs, with the sort, the target and the window that
follow at once in the code (`Select`); `FetchBatch`, or `FallBack` and `FetchRun`
for each run, collect the instances; `RunGone` and `Fail` are the exceptions.
`Finish`, `Clear` and `Delete` are Airflow's. It composes with paging by
abstraction: a list may come with one record repeated or skipped (`Paged`),
which is what a fetch over a changing collection can do: `AirflowPaging` shows that
insertions lose nothing and deletions repeat nothing, and no more.

**AnalysisSystem** is `AnalyzeDAG.execute`: it extends `RunCollection` and puts an
instance of `HistoryBuild` behind it. What was collected is, observation for
observation, the engine's list of task runs (`TaskRuns`), so its properties speak
of what the order and the completeness of the collection do to the comparisons.
`DependenciesFail` is the third request, `EngineStep` the engine.

**AnalysisBatch** is `AnalyzeDAGBatch.execute`. The caller's thread goes through
`Reject` or `Begin`, `Gather` for each outcome in request order, `GatherDefect`
or `GatheredAll`, `Shutdown`. Each worker goes through `Take`, `Open`, `Fetch`
twice, `Analyze`, `Close`, `Finish`, with `Break` at any step; `Abandon` is the
construction of a client that fails when its HTTP client is open already, which
nobody closes (only a configuration given by a program gets there, one from the
environment was checked before). The built-in `map`
(one thread) and the pool's `map` differ in when an analysis becomes `Ready` and
in what is `Cancelled` and `Drained`. **BatchContract** is the sequential promise:
positions are decided, each once; then there is one reply, which lists every DAG
with the outcome of its own position, or raises the defect that analysing one
after the other would have met first. `ImplementsContract` is the refinement; it
contains the attribution of outcomes and the choice of the error, which are
therefore not stated again as invariants.

**HistoryBuild** is the engine from the collected task runs to the comparisons:
`Collect` is the data source (any task run, in any order), `AnalyzeTasks`,
`AnalyzeHandoffs` and `Report` are the stages of `DefaultDAGAnalysisEngine.analyze`.
Dictionaries keep the order of first insertion (`ByFirst`). An observation is the
set of task runs it is made of and a comparison the runs of its two sides: what
is lost, doubled or out of order shows there, and the arithmetic does not matter.
`INVALID_HANDOFF_TIMING` is left out, since the tests before it exclude it.

**OriginAnalysis** is the engine from severities on: `Classify`, `Propagate`,
`Select` are its three stages and change state only as they hand on their result.
The algorithms are recursive functions of the code's visited set, which answer for
all tasks at once (`found[visited]` is the set of tasks for which the search succeeds,
`paths[visited][t]` the ways on from `t`). Each handoff is judged by its own
history, so `OriginInit` takes its severity, or none for want of a history, from one
of `HandoffTables`. The loop over a path's hops is a
recursive function too; the properties compare them with a least closed set (`Delayed`: what a strong drift
reaches) and with what a path is.

**PublishedAnalysis** extends it with what leaves the analysis: `Overall` and
`Summary` of the result, the `Document`, the rows of the `Report`, the `Samples` of
the exporter and the alert rules that read them. All are published in one step
(`Publish`), since they are views of one immutable result. `listed` are the tasks
of the DAG's present version: a removed task may still have a drift, or a change
point or a trend without one (`signalled`), and then counts among all tasks.

**SeriesStatistics** is `drift.py`, `change_point.py` and `trend.py` over one growing
series: `RunFinishes` appends an observation and drops the oldest one beyond the
window of the collection, `Analyze` runs the three detectors as
`analyze_task_histories` does. The arithmetic is exact, in fractions of a second
for which every median and slope of up to seven observations is an integer; the
factor 0.6745 and the thresholds are those of the code, compared by
cross-multiplication. A median is taken as an order statistic (`Smallest`: fewer
than k values are below it, at least k up to it) and not out of a sorted list, which
is the same value and can be reasoned about.

**MetricsService** is the collector (`StartAnalysis`, `EndAnalysis`, `Write`,
`Update`, `Sleep`, `Interrupt`, `StopServer`, and `Exit`, with which the process and
its daemon threads are gone) and one process per HTTP handler
thread (`Request`, `CopyAnalyses`, `CopyRuntime`, `Respond`). The two assignments
under the lock are two steps on either side, so that a property about the
snapshot is one about the lock. `Stale` and `Failed` are the alert rules, read off
a response. **SnapshotRegister** is what all that is for a reader: one register of
records, each written in one step (`Succeed`, `Fail`) and later than all before; a
response is the register as it was at one moment since the request (`Ask`, `Read`,
`Reply`); only the end of the service (`End`) may leave the measurements of one
DAG ahead of their record, and only its disappearance (`Vanish`) a request without
a response. `ImplementsSnapshotRegister` is the refinement: a record
is written with its second assignment, since the lock hides the first, and read
with the second copy.

**Orderings** has the orders several modules use: Python's `sorted` and stable
`list.sort` by a key (`SortedBy`), an ascending listing (`Ascending`), a list
comprehension with a condition (`Only`), and the enumeration of a set in any total
order (`Ordered`), which is also what a dictionary's order of first insertion is; and
the comparison of scores as fractions (`AtLeast`).

**CliDelivery** is one invocation of `analyze`, `analyze-batch`, `dags`, `doctor` or
the MCP tool. The environment is part of the arguments: `Loads` is
`load_airflow_config`, `Opens` adds what `AirflowClient.__init__` checks. From there
an analysis goes through selection, policy, validation, analysis, writing and the
threshold to the exit code, with a failure or a kill at each; `List` and `ListFails`
are the two short commands and `Checked` the doctor's verdicts. An environment may
hold an address or a token of which httpx makes no request (`sendable`); what it
raises then is no FlowSenseError, and the commands end with a traceback and code 1
(`ListEscapes`, `DiscoveryFails`, `AnalysisRaises`). What Airflow listed for `--all-dags`
is kept (`listed`, a history variable), so that the selection can be compared
with it. The output file starts with what a previous run left in it.

## 3. The runs

| Run | Asks | Result |
|---|---|---|
| `transport` | Do the nested loops stay in their budgets, end, renew once, spare logins, never resend a refused credential, and never report a merely stale token? | holds |
| `paging` | Does a fetch advance, end, return exactly the collection while it is stable, lose nothing by insertions and repeat nothing by deletions? | holds |
| `analysis_system` | Is the window the newest history there is, does only the window reach the engine, are histories complete whichever way they were fetched, and is the order of time kept where runs are fetched one by one? | holds |
| `target_is_current` | Is the run given by `--dag-run-id` the current observation, as the repository's README says? | violated: the engine takes the last task run, in the order of the batch endpoint, which is not the one `ports.py:8` promises |
| `analysis_batch` | Are threads and open clients bounded and released, does nothing start during shutdown, and is the batch the sequential contract in every schedule? | holds |
| `history_build` | Is every task run in one observation, every dependency of every run measured or diagnosed, and every comparison of the newest with the ones before it? | holds |
| `published_analysis` | Are origins, paths and the primary origin what the domain says, on every graph; is every critical drift visible to every reader; does the document add up? | holds |
| `series_statistics` | Is one bad run harmless, every level shift reported from its first observation on, a reversed series judged alike; do the signals of a series that never steps back point its way; is severity in proportion? | holds |
| `change_location` | Do detected changes report their location (`README.md:483` of the repository)? | violated: of splits without median noise, which all score 5.0, the first is reported, and it can be before the shift |
| `metrics_service` | Is every scrape a snapshot, answered, and never older than one before; is the exporter a register; does every cycle cover every DAG; does an alert rule tell of every outage? | holds |
| `cli_delivery` | Does exit code 0 mean complete success, do outcomes reach the caller, are policy and run limit the ones asked for, does discovery select the first of the wanted DAGs in whatever order they are listed, do the doctor's checks name what is wrong? | holds |
| `env_limit` | Is a run limit below `minimum_history` always rejected (`README.md:251` of the repository)? | violated: one from the environment is not compared |

The violated properties state sentences of the repository, quoted in
`PROJECT.json` under `findings` with the line of code that decides otherwise. In
each case the weaker statement that does hold is a property of a passing run:
`RunByRunKeepsOrder` for the order, `LevelShiftReported` for the existence and the
direction of a change, `PolicyAsAsked` for a limit that was given.

`DoctorTruthful` shows one more weakness of the code: where httpx cannot make a
request of `AIRFLOW_BASE_URL` (`http://localhost:port`), `httpx.InvalidURL` passes
`client.py:126` and `doctor.py:73`, and the doctor ends with a traceback and code 1, its
checks not shown. The property allows missing checks only with a configuration that
was accepted; a fault of that always shows in a check.

`AnalysisBatch` lists a type invariant, because it ties the ranges of workers and jobs
together; those of `AirflowTransport` and `AirflowPaging` are theorems that the proofs
need, and what a run could break in them breaks `AttemptsBounded` and
`ExactWhenStable` too. The other modules have none: their values come from records
and sets written out in the actions.

### Bounds, and why they are enough

* `transport`: three calls, two retries. A call can be affected by an earlier one
  only through the cached token, which is absent, live or stale: two calls reach
  all three, the third starts from what a second call left. With two retries
  there is a first, a middle and a last attempt. The theorems remove both bounds.
* `paging`: pages of two, up to five records, limits 0 (none), 2 (one page) and
  3 (a page and a half), servers that cap at one or at the page, two changes. There
  are full, partial, exact and empty last pages, a shrinking last request, and an
  insertion with a deletion. The theorems remove all of these but the limit's type.
* `analysis_system`: three runs with a window of two, so that one run is outside;
  two tasks with one dependency, each run completing none, one or both; every kind of server; timestamps
  in creation order, out of it, and tied; one change or one page shift. A minimum
  history of two makes one missing run decide between a comparison and a
  diagnostic. `target_is_current` needs whole runs in order only.
* `analysis_batch`: three positions, up to three threads and three valid ids with a
  blank one: more DAGs than threads, fewer, equal, duplicates, and every
  combination of failures and defects, of the construction of a client among others.
* `history_build`: three runs, two tasks with one dependency, up to four task runs
  of four shapes: mapped instances, a run without one of its ends, a history of
  three with a window of one. Tasks and edges are treated one by one, so more of
  them add nothing.
* `published_analysis`: all graphs over four tasks along one order that is not the
  alphabetical one, all severities, no history included, any unlinked task removed,
two tasks with a trend. Three tables give neighbouring dependencies different
severities, none included, so that a critical handoff stands among milder and missing
ones, first and last by name; the theorem has every table.
  Four tasks give the diamond, two competing roots and paths of three hops. Up to
  there equal scores are also equal in floating point; beyond, rounding may decide
  a tie, and the exact fractions of the model no longer speak for the code. The
  sample limit of two drops up to two tasks.
* `series_statistics`: seven runs are one more than two segments of three, so there
  are two candidate splits; a baseline window of four slides twice. The five
  durations are, from a level of 100 s, within the floor, MEDIUM, HIGH and
  CRITICAL, and a baseline may mix them. Longer series would need finer fractions
  and add splits of the same kind. `change_location` needs two levels.
* `metrics_service`: two DAGs, two scrapers (one may hold the lock while the other
  waits), seven clock readings: two whole cycles and a third that has begun.
* `cli_delivery`: three DAG ids, severities 0 to 2, listings of up to three with
  duplicates; command lines vary one part (environment, selection, policy, delivery)
  in all combinations while the others are plain, since the parts meet only in
  `stage`. Environments have every mode with every set of credentials, and a limit
  that no client accepts, one below the default minimum history and one above, and
with and without an address that requests can be made of.

### Fairness

`transport`: weak fairness of the client's own steps. Every request is answered
or times out (`connect_timeout` and `read_timeout` are positive) and every delay
between attempts is finite; calls need not be made and the server need not revoke.
`paging`: weak fairness of fetching a page, for the same reason; changes are
finite by their bound, which is what "the collection changes slower than it is
read" becomes in a finite model. `analysis_batch`: weak fairness of the caller's
thread and of each worker, which the operating system schedules; every step of an
analysis ends because its requests do. `metrics_service`: strong fairness of the
steps that take the lock, because a lock that is released again and again is
acquired in the end by a waiting thread, but only while the process lives: after
`Exit` no step of a thread is enabled, and a request that is still open is never
answered (`NobodyStarves` and the register say so). Weak fairness of `StopServer` and
`Exit` is the main thread on its way out. Nothing forces an analysis to end or a
scrape to come. The other modules state no liveness and assume no fairness.

## 4. What is proved

`AirflowTransport_proofs`, for every `MaxRetries` and `MaxCalls` in the naturals
(`MaxRetriesAssumption`, `MaxCallsAssumption`):

* `TypeCorrect`, `AttemptsAreBounded`, `RejectedIsNotResent`,
  `UnauthorizedIsReported`, `EveryLoginIsEarned`: the type invariant and the four
  invariants of the run.
* `TransportRefinesCall`: initial states and steps of `AuthorizedCall`.

None of the five is inductive. What a call may still send depends on which
auth attempt it is in and whether it is logging in, so `Counting` says, phase by
phase, how much of the budget has gone. Why no refused credential is sent again
depends on where the credential came from, so `Provenance` says that in the
second attempt of a call the cache was emptied and what it carries was issued
after the call began. `Earned` counts the tokens issued against the refusals and
the cached one. `IInv` is their conjunction with the type invariant; `StepIInv`
has one case per action.

`AirflowPaging_proofs`, for every page size, set of limits and caps, number of
records and of changes:

* `TypeCorrect`, `InsertionLosesNothing`, `DeletionRepeatsNothing`,
  `StableFetchIsExact`: the type invariant and the three invariants of the run. `PagesDoAdvance` besides: no
  request asks for nothing, and the limit is never passed.

That nothing is lost by insertions says nothing about the records that are still
to be read. The invariant does: the offset splits the collection, the first
records are among those received or at a position past the offset, and with
insertions only they never move to before it (`Covered`). With deletions only,
whatever stands past the offset is larger than whatever was received
(`Ordered`). While nothing changes, what was received is the collection's prefix
of length offset (`Prefix`). `PageFacts`, `ReceivedFacts`, `FetchPageFacts`,
`InsertFacts` and `DeleteFacts` are the lemmas on sequences these rest on.

`AnalysisBatch_proofs`, for every request, any number of DAGs and any
`max_concurrency`:

* `TypeCorrect`, `ResourcesAreBounded`, `NothingStartsInShutdown` (an action
  property): what the run checks of threads and clients.
* `BatchRefinesContract`: initial states and steps of `BatchContract`.

What is known of a position is spread over its job, the stage of the worker that
has it, its future and its source. The invariant ties them together: a position
is queued, with one worker, or done, and which of these the future says
(`Admitted`, `Staffed`); an open source belongs to a worker in a stage between
opening and closing (`Attended`); what was gathered is a prefix in request order
(`Gathered`); and once gathering has stopped nothing is queued (`Stopped`). The
bound on sources follows by an injection from open sources to threads. In the
refinement each step decides at most one position or gives the reply; `Mapping`
and `Stutter` are the lemmas it is made of.

`Results_proofs`, first about `MetricsService`, for any sequence of DAG ids and any number of scrapers, except that the
collector is no scraper (`ScrapersAssumption`):

* `SnapshotIsConsistent`, `CycleDoesCoverAll`, `OutageIsReported`; `ResponsesNeverOlder`
  (an action property).
* `ExporterIsRegister`: initial states and steps of `SnapshotRegister`.

The invariant is mutual exclusion (`Locked`), what is written under the lock
(`Written`), a consistent pair of registers whenever the collector is not between
its writes (`Whole`), and a consistent copy of the first register while a scraper
holds the lock (`Copied`). `Covered` follows a cycle DAG by DAG; the
clock only grows (`Past`), and the server is closed exactly when the process is on
its way out or gone (`Shut`). All of these about a snapshot hold until the service is
cut off between two writes; the last two theorems speak of that end too. For them
`NotAhead` says, cut or not, that a scraper which holds the lock has the exporter's
present analyses and that no response is ahead of the exporter, which itself never
goes back (`ExporterGrows`). In the refinement the register's write is the second
assignment (`WriteIsHidden`, `UpdateWrites`), its read the second copy (`SecondCopy`,
`ScraperRefines`), and its end an interrupt, which may uncover the first assignment
(`InterruptEnds`).

then about `PublishedAnalysis`, and with it `OriginAnalysis`, for any finite set of tasks,
any graphs without a cycle, any severities of tasks, any table of those of handoffs
(`HandoffTablesAssumption` is its type), any tasks with a trend (`SignalSetsAssumption`)
and any limit of samples:

* `OriginsDoExplainDrift`, `PathsAreTheWays`, `PrimaryIsTheBestRoot`, `CriticalShows`,
  `DocumentDoesAddUp`: the five invariants of the run.

`AcyclicAssumption` says that the tasks can be numbered along the dependencies, as
in every DAG that Airflow accepts; the code's visited sets also cope with cycles, and
of that nothing is said here. The inductive invariant (`ResultIInv`) is that each
result is, from its phase on, the one of the drifts; the work is to say what the
recursive definitions are. Each search is a function that satisfies an equation
(`StrongSearch`, `CandidateSearch`, `PathSearch`, `SumsOf`), and the definition chooses one;
so first comes that there is one (`StrongSearchEnds`, `PathSearchEnds`, `SumsEnd`): an
answer for a part of the arguments can be extended to one more, and the largest part
that has an answer is all of them. No induction theorem is needed for this, nor for the rest,
since of any set of tasks of a graph without cycles there is one that no other
feeds and one that feeds none (`HasFirstAndLast`), and a counterexample is always
contradicted by the first or the last of its kind. From there:

* an upstream anomaly is found exactly for the tasks of the least closed set `Delayed`
  (`AnomalousIsDelayed`), and these are the tails of the paths (`AffectedFacts`);
* the paths from a task are all chains of hops that cannot be continued, and there
  are finitely many (`PathsFromFacts`, `ChainsFinite`, `PropagationIsFinite`);
* scores are fractions of positive denominator, at most one, and one exactly for
  critical drifts only (`ScoreFacts`); comparing them is total and transitive
  (`FractionsCompare`), so that finitely many have a greatest and the ranking of roots
  has a best (`HasGreatest`, `RankingFacts`, `BestFacts`);
* the tables and samples are enumerations of a finite set in a total order
  (`ReportFacts`, `SampleFacts`), and the counts are of disjoint sets (`CountFacts`).

and at last about `SeriesStatistics`, for any durations and every policy that
`AnalysisPolicy` accepts (`PolicyAssumption`):

* `SeverityIsProportionate`, `BadRunsAreHarmless`, `LevelShiftsAreReported`,
  `ReversalFlipsResults`, `SteadySeriesDoAgree`: the five invariants of the run.

The inductive invariant (`SeriesIInv`) only says that the results are those of the
series; what is hard is to say anything of a median. `SmallestFacts` shows that there
is one k-th smallest value, by counting; from there every fact about medians is about
how many places hold what:

* a value that most places hold is the median (`Majority`), and of three or more
  places all but one are most (`AllButOne`); of the pairs of five or more, most avoid any
  given one (`MostPairsAvoid`). That is why one bad run is harmless, and why the property
  needs three observations for a segment and five for a trend;
* the median is within the bounds of the values (`MedianBounds`), so that no split
  of a clean shift differs the other way (`ShiftHasOneWay`), and the one at the shift,
  which has no noise, scores at least as much as the threshold asks (`ShiftIsChange`).
  Before there are two segments, the old level still fills most of the baseline, or the
  part of it that decides (`ShiftIsDrift`). In the same way, of a series that never
  steps back (`StepsAddUp`: none of its values is above a later one, by at most six
  steps) the value before a split separates the medians of its two sides
  (`SteadySplit`), and a split without a difference reaches no threshold
  (`LevelSplitIsLow`), whichever direction the code would give it;
* values that are moved have their median moved, in whichever order they stand
  (`MedianMoved`), and opposite ones have the opposite median (`MedianNegated`). With the
  bijections between a series, its segments and its pairs and those of the reversed
  series (`MirroredSplit`, `PairBackFacts`), every score and slope of the one is one of the
  other. Halving rounds down, so the opposite of an odd sum has another half: this is
  where the units of the module matter, 480 being divisible by twice each distance of
  up to seven runs (`ExactSlopes`).

The length of the series is bounded by `LimitAssumption` (seven), since beyond it the
integers of the module would no longer be the fractions of the code.

`CliDelivery_proofs`, for every set of DAG ids, listing, environment and command
line (`InvocationsAssumption` and `AllDagsAssumption` say what the argument parser
lets through):

* `SuccessIsCompleteAlways`, `OutcomesAreDelivered`, `PolicyIsAsAsked`,
  `DiscoveryIsOrdered`, `DoctorIsTruthful`.

The properties are about the end of a command; the invariant says, stage by
stage, which of its inputs have become what (`Chosen`: the selected ids, which begin the
ascending list of the wanted ones, `Asked`:
policy and limit, `Accepted`: what was validated, `Delivered`: outcomes, file and
code), and that nothing is selected before (`Unknown`).

`AnalysisSystem_proofs`, for any number of runs and changes, any finite set of tasks
and any timestamps; first about `RunCollection` alone:

* `SelectsTheNewest`. The window is fixed once the runs are listed, and what
  listing, page shifts, sorting and the window do to a list is in the lemmas
  (`PagedFacts`, `SortedFacts`, `WindowFacts`, `FilteredIsNewest`, `WindowIsNewest`). The
  invariant adds what is still to be visited (`InLimit`) and that the window ends
  at the target (`UpToTarget`), which remains true while Airflow changes.

then about `AnalysisSystem`, for any graph, minimum history and window of the policy:

* `SystemSelectsTheNewest`, `HistoriesAreComplete`, `RunByRunIsInOrder`: the three
  invariants of its run.

None follows from the collection or from the engine alone. `SystemIInv` says what
the one leaves for the other: while Airflow stands still, `collected` has each
instance that the window completed exactly once (`Complete`; run by run, for the
runs already visited); and on the run-by-run route the runs of what was fetched,
followed by those still to visit, are in the order of time, with the
target last and with a run that paging repeated in one block (`InTime`). The last of
these is why a repeated run does no harm: it is fetched twice, but in one place,
and counts as one observation. `Analyzed` says that the engine's results are
functions of `collected`. What paging, sorting and the window do to an order is
one lemma, `FollowsKeeps`: they only drop elements or repeat them on the spot
(`Follows`), and so does the replacement of a run by its instances
(`RouteFollows`). The engine's lists are then read off its own definitions
(`HistoryFacts`, `DelayFacts`, `CompareFacts`); theorems of an instantiated module
cannot be cited, so these repeat, for whole task runs only, a part of what
`HistoryBuild_proofs` shows in general. `SubjectsAssumption`, `GraphsAssumption`
and `PolicyAssumption` are what `HistoryBuild` assumes of the same constants.

`HistoryBuild_proofs`, for any number of task runs in any order, any graph, shapes,
minimum history and window:

* `DurationsAreAccounted`, `HandoffsAreAccounted`, `ComparedWithOlder`: the three
  invariants of the run.

Nothing in the engine is kept from step to step but results, so the invariant
only says of which task runs they are the results; the work is in the lemmas about
the histories (`DurationFacts`, `RunOrderFacts`, `HandoffFacts`: one entry for each run
that has something, in the order of its first task run), about the measured delay
(`DelayFacts`) and about the baseline (`BaselineFacts`, `ComparisonFacts`). That tasks
are told from dependencies in the one set of diagnostics needs
`TasksAssumption`: a pair of task ids is no task id.

`Orderings_proofs` has what these share, for every finite set, list and rank:
`OrderedEnumerates`, `AscendingEnumerates`, `SortedByRank` and `OnlyKeeps`. The library's
sorting and filtering operators are recursive or take operators as arguments,
and the provers cannot look into them; `Orderings` defines both by the place of
each element, the number of elements it is not before, which counting arguments
about finite sets can reach without an induction.

All the invariants these proofs use were first checked by TLC.

## 5. What is only model-checked

Every invariant and action property of the passing runs is also a theorem; TLC alone
checks the liveness parts (`FetchEnds`, `NobodyStarves`, and the fairness half of
`ImplementsAuthorizedCall`, `ImplementsContract` and `ImplementsSnapshotRegister`):
ENABLED and fairness are out of the prover's reach.

That a change point and a trend of one series have the same direction is not among
the properties, since it is not so: 42, 46, 52, 58, 64, 10, 16 have, under the default
policy, an increasing trend (five of six steps go up, and the median slope with them)
and a decrease as their change point, of which both are published. It takes a step
back; `SteadySeriesAgrees` is what remains true, under every policy.

## 6. Plan

Done: `AirflowTransport` with `AuthorizedCall`, `AirflowPaging`, `RunCollection`,
`AnalysisBatch` with `BatchContract`, `MetricsService` with `SnapshotRegister`,
`CliDelivery`, `HistoryBuild`, each with its proofs; `AnalysisSystem` (collection and engine composed), `OriginAnalysis` and
`PublishedAnalysis` (result, document, tables, samples, alerts), with theirs;
`SeriesStatistics` (the three detectors), with theirs; and in
`CliDelivery` the environment, `dags`, `doctor` and the MCP tool.

Next modules:

1. `RetryDelays`: Retry-After and exponential backoff, total delay of a call.
2. `DagDiscovery`: paging composed with the selection of `analyze-batch` and the
   batch's duplicate check, in place of the abstraction in `CliDelivery.Discover`.

Next theorems: an abstract read of a collection that `AirflowPaging` implements while
nothing changes; and of `SeriesStatistics`, how far the newest observations of a
series can be from the trend that is reported of it.

## 7. What is not modelled, and why

* The length of delays, message wording, HTTP headers and bodies beyond the
  distinctions the code makes: they decide nothing the properties speak of. An
  unbounded `Retry-After` is listed as a hazard.
* Floating-point rounding: `SeriesStatistics` and `OriginAnalysis` compute exactly.
  The percentages and scores that are only reported, and the switches that turn a
  detector off, are left out.
* Validation of API records (`dto.py`): one failure, in `RunCollection.Fail` and
  `AnalysisSystem.DependenciesFail`.
* The start-up of `serve-metrics` (checks of its arguments), `schema`, the summary
  box of the report and its tables of change points, trends, propagation and
  diagnostics, pydantic schemas, the frame of the batch document, the Prometheus
  text format: formatting of what the modules already have.
* The Python facade and the deprecated modules: re-exports and delegation.
* Benchmarks, examples, deployment files other than the alert rules; of those, how
  long a condition has to last, and the rules for a dead exporter and a slow
  analysis, which query single samples.

Two deliberate exclusions inside the properties: `SnapshotConsistent` does not
speak of a service interrupted between the two writes of `record_success` (`cut`),
since the code can then serve half a record until the server stops (how much of it,
`SnapshotRegister!End` says); and the paging
guarantees are for servers that report `total_entries` or fill pages to the
requested size (`Candid`), since a short page is otherwise the end for the client.
