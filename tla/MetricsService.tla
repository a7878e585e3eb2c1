---------------------------- MODULE MetricsService ----------------------------
(***************************************************************************)
(* flowsense serve-metrics: the collector thread analyses the configured   *)
(* DAGs one after the other, cycle after cycle, and records how each went  *)
(* in a PrometheusExporter; the HTTP server's threads render the exporter's*)
(* snapshot for Prometheus at any moment.  The exporter's lock is all that *)
(* orders them.                                                            *)
(*                                                                         *)
(* An analysis is abstracted to the time it was recorded; 0 means never.   *)
(* The interrupt (KeyboardInterrupt in the collector) and a defect of an   *)
(* analysis end the service, and soon after it the process, with whatever  *)
(* its daemon threads were doing.                                          *)
(***************************************************************************)
EXTENDS Integers, Sequences

CONSTANTS dagIds,       \* the sequence of configured DAG ids
          Scrapers,     \* handler threads of the HTTP server
          MaxTime,      \* bound: clock readings
          StaleAfter    \* threshold of the FlowSenseAnalysisStale rule

ASSUME DagIdsAssumption == dagIds \in Seq(STRING) /\ dagIds # <<>>
ASSUME BoundsAssumption == MaxTime \in Nat /\ StaleAfter \in Nat

Dags == {dagIds[i] : i \in 1..Len(dagIds)}
Collector == "collector"
Nobody == "nobody"

ASSUME ScrapersAssumption == Collector \notin Scrapers /\ Nobody \notin Scrapers

VARIABLES now,          \* the wall clock, in steps of the model
          analyses,     \* _analyses: time of the analysis kept for each DAG
          runtime,      \* _runtime: per DAG success, last success, last failure
          lock,         \* holder of _lock
          step,         \* the collector: pick, analyze, write, update, sleep,
                        \* stopping, stopped, exited
          current,      \* index of the DAG it is at
          outcome,      \* how the analysis of that DAG ended
          cycleStart,   \* when the current cycle began
          server,       \* "serving" or "closed"
          scrape,       \* per scraper: idle, request, copy, build, served
          body          \* per scraper: what it has copied of the snapshot

\* History variables.
VARIABLES cut           \* the collector was interrupted between two writes

exporter == <<analyses, runtime>>
collector == <<step, current, outcome, cycleStart>>
scraping == <<scrape, body>>
vars == <<now, exporter, lock, collector, server, scraping, cut>>

NoRun == [success |-> 0, lastSuccess |-> 0, lastFailure |-> 0]

EmptyBody == [analyses |-> [d \in Dags |-> 0], runtime |-> [d \in Dags |-> NoRun]]

Init == /\ now = 1
        /\ analyses = [d \in Dags |-> 0]
        /\ runtime = [d \in Dags |-> NoRun]
        /\ lock = Nobody
        /\ step = "pick"
        /\ current = 1
        /\ outcome = "none"
        /\ cycleStart = 1
        /\ server = "serving"
        /\ scrape = [s \in Scrapers |-> "idle"]
        /\ body = [s \in Scrapers |-> EmptyBody]
        /\ cut = FALSE

-------------------------------------------------------------------------------
(* The collector: collect_metrics_once in the loop of run_metrics_service. *)

dag == dagIds[current]

\* Mutant of AfterRecord: a failed DAG ends the cycle.
AfterFailureSleep ==
  IF current < Len(dagIds) /\ outcome = "success"
  THEN step' = "pick" /\ current' = current + 1
  ELSE step' = "sleep" /\ UNCHANGED current

\* The next DAG of the cycle, or the sleep after the last.
AfterRecord ==
  IF current < Len(dagIds)
  THEN step' = "pick" /\ current' = current + 1
  ELSE step' = "sleep" /\ UNCHANGED current

StartAnalysis == /\ step = "pick"
                 /\ now < MaxTime
                 /\ step' = "analyze"
                 /\ UNCHANGED <<now, exporter, lock, current, outcome,
                                cycleStart, server, scraping, cut>>

\* The analysis returns or raises a FlowSenseError; the clock is read.
EndAnalysis == /\ step = "analyze"
               /\ now' = now + 1
               /\ outcome' \in {"success", "failure"}
               /\ step' = "write"
               /\ UNCHANGED <<exporter, lock, current, cycleStart, server,
                              scraping, cut>>

\* Mutant of LockFree: the lock is not waited for.
LockIgnored == TRUE

LockFree == lock = Nobody

\* Mutant of Released: the lock is taken and not given back.
LockKept == lock

\* The lock after the with statement.
Released == Nobody

\* Mutant of KeptAnalysis: a failure drops the analysis of the last success.
DroppedOnFailure == IF outcome = "success" THEN now ELSE 0

\* What _analyses holds for the DAG after recording the outcome.
KeptAnalysis == IF outcome = "success" THEN now ELSE analyses[dag]

\* record_success writes _analyses first, under the lock; record_failure leaves
\* it alone.
Write == /\ step = "write"
         /\ LockFree
         /\ lock' = Collector
         /\ analyses' = [analyses EXCEPT ![dag] = KeptAnalysis]
         /\ step' = "update"
         /\ UNCHANGED <<now, runtime, current, outcome, cycleStart, server,
                        scraping, cut>>

Recorded(entry) == IF outcome = "success"
                   THEN [entry EXCEPT !.success = 1, !.lastSuccess = now]
                   ELSE [entry EXCEPT !.success = 0, !.lastFailure = now]

\* Both update _runtime and release the lock.
Update == /\ step = "update"
          /\ runtime' = [runtime EXCEPT ![dag] = Recorded(@)]
          /\ lock' = Released
          /\ AfterRecord
          /\ outcome' = "none"
          /\ UNCHANGED <<now, analyses, cycleStart, server, scraping, cut>>

Sleep == /\ step = "sleep"
         /\ now < MaxTime
         /\ now' = now + 1
         /\ cycleStart' = now + 1
         /\ current' = 1
         /\ step' = "pick"
         /\ UNCHANGED <<exporter, lock, outcome, server, scraping, cut>>

\* The collector is in its loop.
Running == step \notin {"stopping", "stopped", "exited"}

\* KeyboardInterrupt anywhere in the loop, or a defect in the analysis: leaving
\* the with statement releases the lock, even between the two writes.
Interrupt == /\ Running
             /\ cut' = (step = "update" /\ outcome = "success")
             /\ lock' = IF lock = Collector THEN Nobody ELSE lock
             /\ step' = "stopping"
             /\ UNCHANGED <<now, exporter, current, outcome, cycleStart, server,
                            scraping>>

\* The finally block: shutdown, server_close, join.  Handler threads are daemons
\* and are not waited for.
StopServer == /\ step = "stopping"
              /\ server' = "closed"
              /\ step' = "stopped"
              /\ UNCHANGED <<now, exporter, lock, current, outcome, cycleStart,
                             scraping, cut>>

\* The command returns and the process ends, and with it every handler thread,
\* wherever it is.
Exit == /\ step = "stopped"
        /\ step' = "exited"
        /\ UNCHANGED <<now, exporter, lock, current, outcome, cycleStart, server,
                       scraping, cut>>

-------------------------------------------------------------------------------
(* A handler thread: do_GET and PrometheusExporter.render.                 *)

Request(s) == /\ server = "serving"
              /\ scrape[s] \in {"idle", "served"}
              /\ scrape' = [scrape EXCEPT ![s] = "request"]
              /\ UNCHANGED <<now, exporter, lock, collector, server, body, cut>>

\* The process still runs its threads.
Alive == step # "exited"

CopyAnalyses(s) == /\ Alive
                   /\ scrape[s] = "request"
                   /\ LockFree
                   /\ lock' = s
                   /\ body' = [body EXCEPT ![s].analyses = analyses]
                   /\ scrape' = [scrape EXCEPT ![s] = "copy"]
                   /\ UNCHANGED <<now, exporter, collector, server, cut>>

CopyRuntime(s) == /\ Alive
                  /\ scrape[s] = "copy"
                  /\ body' = [body EXCEPT ![s].runtime = runtime]
                  /\ lock' = Released
                  /\ scrape' = [scrape EXCEPT ![s] = "build"]
                  /\ UNCHANGED <<now, exporter, collector, server, cut>>

\* _build_metrics and the response work on the copies, outside the lock.
Respond(s) == /\ Alive
              /\ scrape[s] = "build"
              /\ scrape' = [scrape EXCEPT ![s] = "served"]
              /\ UNCHANGED <<now, exporter, lock, collector, server, body, cut>>

Handle(s) == CopyAnalyses(s) \/ CopyRuntime(s) \/ Respond(s)

Record == Write \/ Update

Next == \/ StartAnalysis \/ EndAnalysis \/ Record \/ Sleep
        \/ Interrupt \/ StopServer \/ Exit
        \/ \E s \in Scrapers : Request(s) \/ Handle(s)

\* While the process lives its threads are scheduled, and a lock that is released
\* again and again is acquired in the end; once the service is interrupted, the
\* process ends.  Nothing forces an analysis to end or Prometheus to scrape.
Spec == /\ Init /\ [][Next]_vars
        /\ SF_vars(Record) /\ WF_vars(StopServer) /\ WF_vars(Exit)
        /\ \A s \in Scrapers : SF_vars(Handle(s))

-------------------------------------------------------------------------------
(* Properties.                                                             *)

Rendered(s) == scrape[s] \in {"build", "served"}

\* Every response is a snapshot: the measurements of a DAG are those of the
\* success its timestamp tells of, also when a later analysis failed.  (Unless
\* the service was interrupted between the two writes of record_success.)
SnapshotConsistent ==
  ~cut => \A s \in Scrapers : Rendered(s) =>
            \A d \in Dags :
              LET r == body[s].runtime[d]
              IN  /\ body[s].analyses[d] = r.lastSuccess
                  /\ r.success = 1 => r.lastSuccess > r.lastFailure
                  /\ r.success = 0 => r.lastFailure >= r.lastSuccess

\* At the end of a cycle every DAG has a fresh record, however the analyses of
\* the others went: failures are independent.
CycleCoversAll ==
  step = "sleep" =>
    \A d \in Dags : \/ runtime[d].lastSuccess > cycleStart
                    \/ runtime[d].lastFailure > cycleStart

\* The lock starves nobody: a request that was accepted is answered, and an ended
\* analysis is recorded, unless the process ends before.
NobodyStarves ==
  /\ \A s \in Scrapers : scrape[s] = "request" ~> scrape[s] = "served" \/ ~Alive
  /\ step = "write" ~> step \in {"pick", "sleep"} \/ ~Alive

\* The rules FlowSenseAnalysisStale and FlowSenseAnalysisFailed on a response: a
\* DAG that never succeeded has no timestamp for the first.
Stale(s, d) == /\ body[s].runtime[d].lastSuccess # 0
               /\ now - body[s].runtime[d].lastSuccess > StaleAfter

Known(s, d) == body[s].runtime[d].lastSuccess # 0 \/ body[s].runtime[d].lastFailure # 0

\* Mutant of Failed: the rule compares the two timestamps.
FailedByTimestamps(s, d) == /\ body[s].runtime[d].lastSuccess # 0
                            /\ body[s].runtime[d].lastFailure > body[s].runtime[d].lastSuccess

Failed(s, d) == Known(s, d) /\ body[s].runtime[d].success = 0

\* A DAG that was tried and has had no success for longer than the threshold is
\* reported, by one rule or the other, also one that never had any; so whoever sees
\* measurements that old sees that they are.
OutageReported ==
  ~cut => \A s \in Scrapers, d \in Dags :
    (Rendered(s) /\ Known(s, d) /\ now - body[s].analyses[d] > StaleAfter)
      => Stale(s, d) \/ Failed(s, d)

\* A response rendered after another one is never older than it, in no part and
\* for no DAG, whichever scrapers the two went to: what Prometheus stores does not
\* jump back.
AnswersNeverOlder ==
  [][\A s, t \in Scrapers, d \in Dags :
       Rendered(s) /\ ~Rendered(t) /\ Rendered(t)' =>
         /\ body'[t].analyses[d] >= body[s].analyses[d]
         /\ body'[t].runtime[d].lastSuccess >= body[s].runtime[d].lastSuccess
         /\ body'[t].runtime[d].lastFailure >= body[s].runtime[d].lastFailure]_vars

\* The exporter is a register written and read in one step: a record is written
\* with its second write (until then the first is hidden by the lock), and a
\* response is read with its second copy.
HalfRecorded == step = "update" /\ outcome = "success"

Measured == IF HalfRecorded THEN [analyses EXCEPT ![dag] = runtime[dag].lastSuccess]
                            ELSE analyses

Status == [s \in Scrapers |-> CASE scrape[s] = "idle" -> "idle"
                                [] scrape[s] \in {"request", "copy"} -> "asked"
                                [] scrape[s] = "build" -> "read"
                                [] scrape[s] = "served" -> "answered"]

Answer == [s \in Scrapers |-> IF Rendered(s) THEN body[s] ELSE EmptyBody]

Snapshot == INSTANCE SnapshotRegister WITH
              time <- now,
              measured <- Measured,
              run <- runtime,
              recording <- Running,
              service <- IF Alive THEN server ELSE "gone",
              status <- Status,
              answer <- Answer

ImplementsSnapshotRegister == Snapshot!Spec
===============================================================================
