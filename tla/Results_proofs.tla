---------------------------- MODULE Results_proofs ----------------------------
(***************************************************************************)
(* Proofs about the results of an analysis: the exporter that serves them  *)
(* (MetricsService); the selection of origins, paths and the primary       *)
(* origin with all that is published of them (OriginAnalysis,              *)
(* PublishedAnalysis); and the drift, change point and trend found in one  *)
(* series of observations (SeriesStatistics).                              *)
(***************************************************************************)
EXTENDS MetricsService, PublishedAnalysis, SeriesStatistics, Orderings_proofs,
        SequenceTheorems, TLAPS

-------------------------------------------------------------------------------
(***************************************************************************)
(* MetricsService, for any sequence of DAG ids (repeated ones too), any    *)
(* number of scrapers and any threshold: what a scrape shows is a          *)
(* consistent record, an outage shows in it, and a cycle leaves out no     *)
(* DAG.  The lock makes the collector's two writes one for every scraper,  *)
(* and the exporter one register.                                          *)
(***************************************************************************)

\* A runtime record of one DAG.
Entries == [success : {0, 1}, lastSuccess : Nat, lastFailure : Nat]

Typed ==
  /\ now \in Nat
  /\ analyses \in [Dags -> Nat]
  /\ runtime \in [Dags -> Entries]
  /\ lock \in {Nobody, Collector} \cup Scrapers
  /\ step \in {"pick", "analyze", "write", "update", "sleep", "stopping", "stopped",
              "exited"}
  /\ current \in 1..Len(dagIds)
  /\ outcome \in {"none", "success", "failure"}
  /\ cycleStart \in Nat
  /\ scrape \in [Scrapers -> {"idle", "request", "copy", "build", "served"}]
  /\ body \in [Scrapers -> [analyses : [Dags -> Nat], runtime : [Dags -> Entries]]]
  /\ cut \in BOOLEAN

\* The two parts of a snapshot tell the same story of every DAG.
Agree(a, r) ==
  \A d \in Dags : /\ a[d] = r[d].lastSuccess
                  /\ r[d].success = 1 => r[d].lastSuccess > r[d].lastFailure
                  /\ r[d].success = 0 => r[d].lastFailure >= r[d].lastSuccess

\* The lock is held exactly between the two writes of the collector and between
\* the two copies of a scraper.
Locked ==
  /\ lock = Collector <=> step = "update"
  /\ \A s \in Scrapers : lock = s <=> scrape[s] = "copy"

\* No record is of the future, and those of the DAG being recorded are of the past.
Past ==
  /\ cycleStart <= now
  /\ \A d \in Dags : runtime[d].lastSuccess <= now /\ runtime[d].lastFailure <= now
  /\ step \in {"write", "update"} =>
       /\ outcome \in {"success", "failure"}
       /\ cycleStart < now
       /\ \A d \in Dags : runtime[d].lastSuccess < now /\ runtime[d].lastFailure < now

\* Half a record is left behind only when the service ends.
CutLast == cut => step \in {"stopping", "stopped", "exited"}

\* The server is closed when the service has stopped, and then only.
Shut == server = IF step \in {"stopped", "exited"} THEN "closed" ELSE "serving"

\* Between its two writes the collector is ahead in one DAG, if at all.
Whole ==
  ~cut => Agree(IF step = "update" /\ outcome = "success"
                THEN [analyses EXCEPT ![dag] = runtime[dag].lastSuccess]
                ELSE analyses, runtime)

\* The first of the two writes of a success is made.
Written == step = "update" /\ outcome = "success" => analyses[dag] = now

\* What a scraper has copied so far is the exporter's, and what it has copied in
\* full is consistent.
Copied ==
  ~cut => \A s \in Scrapers :
            /\ scrape[s] = "copy" => body[s].analyses = analyses
            /\ Rendered(s) => Agree(body[s].analyses, body[s].runtime)

\* The DAGs the cycle has passed have a record of it.
Covered ==
  \A i \in 1..Len(dagIds) :
    i < current \/ step = "sleep" =>
      \/ runtime[dagIds[i]].lastSuccess > cycleStart
      \/ runtime[dagIds[i]].lastFailure > cycleStart

IInv == /\ Typed /\ Locked /\ Past /\ CutLast /\ Shut
        /\ Whole /\ Written /\ Copied /\ Covered
-------------------------------------------------------------------------------
(* IInv is inductive.                                                      *)

\* The DAG the collector is at is a configured one.
LEMMA DagFacts ==
  ASSUME Typed
  PROVE  /\ Len(dagIds) \in Nat /\ Len(dagIds) >= 1 /\ current \in Nat
         /\ dag \in Dags
         /\ \A i \in 1..Len(dagIds) : dagIds[i] \in Dags
  <1>1. Len(dagIds) \in Nat
    BY DagIdsAssumption, LenProperties
  <1>2. current \in 1..Len(dagIds)
    BY DEF Typed
  <1>3. \A i \in 1..Len(dagIds) : dagIds[i] \in Dags
    BY DEF Dags
  <1> QED
    BY <1>1, <1>2, <1>3 DEF dag

\* A service that has not started has nothing to be inconsistent about.
LEMMA InitIInv == Init => IInv
  <1> SUFFICES ASSUME Init PROVE IInv
    OBVIOUS
  <1>1. Len(dagIds) \in Nat /\ Len(dagIds) >= 1
    BY DagIdsAssumption, LenProperties, EmptySeq
  <1>2. NoRun \in Entries /\ EmptyBody \in [analyses : [Dags -> Nat], runtime : [Dags -> Entries]]
    BY DEF NoRun, Entries, EmptyBody
  <1>3. Typed
    <2>1. /\ analyses \in [Dags -> Nat] /\ runtime \in [Dags -> Entries]
          /\ body \in [Scrapers -> [analyses : [Dags -> Nat], runtime : [Dags -> Entries]]]
      BY <1>2 DEF Init
    <2>2. /\ now \in Nat /\ cycleStart \in Nat /\ current \in 1..Len(dagIds)
          /\ scrape \in [Scrapers -> {"idle", "request", "copy", "build", "served"}]
      BY <1>1 DEF Init
    <2>3. lock \in {Nobody, Collector} \cup Scrapers /\ cut \in BOOLEAN
      BY DEF Init
    <2> QED
      BY <2>1, <2>2, <2>3 DEF Init, Typed
  <1>4. Locked /\ Past /\ CutLast /\ Shut /\ Written /\ Covered
    BY <1>1, ScrapersAssumption DEF Init, Locked, Past, CutLast, Shut, Written, Covered, NoRun,
       Collector, Nobody
  <1>5. Whole /\ Copied
    BY DEF Init, Whole, Copied, Agree, NoRun, Rendered
  <1> QED
    BY <1>3, <1>4, <1>5 DEF IInv

\* Steps of the collector that touch neither the exporter nor the lock.
LEMMA CollectorStep ==
  ASSUME IInv, StartAnalysis \/ EndAnalysis \/ Sleep \/ StopServer \/ Exit
  PROVE  IInv'
  <1>1. /\ UNCHANGED <<analyses, runtime, lock, scrape, body, cut>>
        /\ step # "update" /\ step' # "update"
    BY DEF StartAnalysis, EndAnalysis, Sleep, StopServer, Exit, exporter, scraping
  <1>2. Typed'
    BY <1>1, DagFacts DEF IInv, Typed, StartAnalysis, EndAnalysis, Sleep, StopServer, Exit,
       exporter, scraping
  <1>3. Locked' /\ CutLast' /\ Written' /\ Copied'
    BY <1>1 DEF IInv, Locked, CutLast, Written, Copied, Rendered, StartAnalysis,
       EndAnalysis, Sleep,
       StopServer, Exit
  <1>4. Whole'
    BY <1>1 DEF IInv, Whole
  <1>5. Past'
    <2>1. /\ now \in Nat /\ cycleStart \in Nat
          /\ \A d \in Dags : runtime[d].lastSuccess \in Nat /\ runtime[d].lastFailure \in Nat
      BY DEF IInv, Typed, Entries
    <2> QED
      BY <1>1, <2>1 DEF IInv, Past, StartAnalysis, EndAnalysis, Sleep, StopServer, Exit
  <1>6. Covered'
    BY <1>1, DagFacts DEF IInv, Covered, StartAnalysis, EndAnalysis, Sleep, StopServer, Exit
  <1>7. Shut'
    BY DEF IInv, Shut, StartAnalysis, EndAnalysis, Sleep, StopServer, Exit
  <1> QED
    BY <1>2, <1>3, <1>4, <1>5, <1>6, <1>7 DEF IInv

\* The first write puts the collector ahead in the DAG it is at, under the lock.
LEMMA WriteStep ==
  ASSUME IInv, Write
  PROVE  IInv'
  <1>1. /\ step = "write" /\ step' = "update" /\ lock = Nobody /\ lock' = Collector
        /\ analyses' = [analyses EXCEPT ![dag] = KeptAnalysis]
        /\ UNCHANGED <<now, runtime, current, outcome, cycleStart, scrape, body, cut>>
        /\ dag' = dag
    BY DEF Write, LockFree, scraping, dag
  <1>2. dag \in Dags /\ analyses \in [Dags -> Nat] /\ now \in Nat /\ KeptAnalysis \in Nat
    BY DagFacts DEF IInv, Typed, KeptAnalysis
  <1>3. Typed'
    BY <1>1, <1>2 DEF IInv, Typed
  <1>4. \A s \in Scrapers : scrape[s] # "copy"
    BY <1>1, ScrapersAssumption DEF IInv, Locked, Nobody
  <1>5. Locked' /\ Past' /\ CutLast'
    BY <1>1, <1>4, ScrapersAssumption DEF IInv, Locked, Past, CutLast, Collector, Nobody
  <1>6. Written'
    BY <1>1, <1>2 DEF Written, KeptAnalysis
  <1>7. Whole'
    <2>1. CASE cut
      BY <1>1, <2>1 DEF Whole
    <2>2. CASE ~cut
      <3>1. Agree(analyses, runtime)
        BY <1>1, <2>2 DEF IInv, Whole
      <3>2. [analyses' EXCEPT ![dag] = runtime[dag].lastSuccess] = analyses
        BY <1>1, <1>2, <3>1 DEF Agree
      <3>3. outcome # "success" => analyses' = analyses
        BY <1>1, <1>2 DEF KeptAnalysis
      <3> QED
        BY <1>1, <3>1, <3>2, <3>3 DEF Whole
    <2> QED
      BY <2>1, <2>2
  <1>8. Copied' /\ Covered'
    BY <1>1, <1>4 DEF IInv, Copied, Rendered, Covered
  <1>9. Shut'
    BY DEF IInv, Shut, Write
  <1> QED
    BY <1>3, <1>5, <1>6, <1>7, <1>8, <1>9 DEF IInv

\* The second write makes the record whole before the lock is released.
LEMMA UpdateStep ==
  ASSUME IInv, Update
  PROVE  IInv'
  <1>1. /\ step = "update" /\ step' \in {"pick", "sleep"} /\ lock' = Nobody
        /\ runtime' = [runtime EXCEPT ![dag] = Recorded(runtime[dag])]
        /\ outcome' = "none"
        /\ UNCHANGED <<now, analyses, cycleStart, scrape, body, cut>>
    BY DEF Update, Released, AfterRecord, scraping
  <1>2. dag \in Dags /\ runtime \in [Dags -> Entries] /\ now \in Nat /\ runtime[dag] \in Entries
    BY DagFacts DEF IInv, Typed
  <1>3. /\ Recorded(runtime[dag]) \in Entries
        /\ outcome = "success" => Recorded(runtime[dag]) =
             [success |-> 1, lastSuccess |-> now, lastFailure |-> runtime[dag].lastFailure]
        /\ outcome # "success" => Recorded(runtime[dag]) =
             [success |-> 0, lastSuccess |-> runtime[dag].lastSuccess, lastFailure |-> now]
    BY <1>2 DEF Recorded, Entries
  <1>4. /\ runtime' \in [Dags -> Entries] /\ runtime'[dag] = Recorded(runtime[dag])
        /\ \A d \in Dags : d # dag => runtime'[d] = runtime[d]
    BY <1>1, <1>2, <1>3
  <1>5. current' \in 1..Len(dagIds)
    BY DagFacts DEF IInv, Typed, Update, AfterRecord
  <1>6. Typed'
    BY <1>1, <1>4, <1>5 DEF IInv, Typed
  <1>7. ~cut /\ \A s \in Scrapers : scrape[s] # "copy"
    BY <1>1, ScrapersAssumption DEF IInv, CutLast, Locked
  <1>8. /\ outcome \in {"success", "failure"} /\ cycleStart < now
        /\ \A d \in Dags : runtime[d].lastSuccess < now /\ runtime[d].lastFailure < now
    BY <1>1 DEF IInv, Past
  <1>9. Locked' /\ CutLast' /\ Written'
    BY <1>1, <1>7, ScrapersAssumption DEF IInv, Locked, CutLast, Written, Collector, Nobody
  <1>10. Past'
    <2>1. /\ cycleStart \in Nat
          /\ \A d \in Dags : runtime[d].lastSuccess \in Nat /\ runtime[d].lastFailure \in Nat
      BY DEF IInv, Typed, Entries
    <2>2. \A d \in Dags : runtime'[d].lastSuccess <= now /\ runtime'[d].lastFailure <= now
      BY <1>2, <1>3, <1>4, <1>8, <2>1
    <2> QED
      BY <1>1, <2>2 DEF IInv, Past
  <1>11. Whole'
    <2>1. ASSUME NEW d \in Dags, d # dag
          PROVE  /\ analyses[d] = runtime[d].lastSuccess
                 /\ runtime[d].success = 1 => runtime[d].lastSuccess > runtime[d].lastFailure
                 /\ runtime[d].success = 0 => runtime[d].lastFailure >= runtime[d].lastSuccess
      BY <1>7, <2>1 DEF IInv, Typed, Whole, Agree
    <2>2. analyses[dag] = IF outcome = "success" THEN now ELSE runtime[dag].lastSuccess
      BY <1>1, <1>2, <1>7 DEF IInv, Written, Whole, Agree
    <2>3. /\ runtime[dag].lastSuccess \in Nat /\ runtime[dag].lastFailure \in Nat
          /\ runtime[dag].lastSuccess < now /\ runtime[dag].lastFailure < now
      BY <1>2, <1>8 DEF Entries
    <2>4. Agree(analyses, runtime')
      BY <1>2, <1>3, <1>4, <2>1, <2>2, <2>3 DEF Agree
    <2> QED
      BY <1>1, <2>4 DEF Whole
  <1>12. Copied'
    BY <1>1 DEF IInv, Copied, Rendered
  <1>13. Covered'
    <2>1. \A d \in Dags : \/ runtime[d].lastSuccess > cycleStart
                         \/ runtime[d].lastFailure > cycleStart
                         \/ d = dag
                      => \/ runtime'[d].lastSuccess > cycleStart
                         \/ runtime'[d].lastFailure > cycleStart
      BY <1>3, <1>4, <1>8, <1>2 DEF IInv, Typed, Entries
    <2>2. \A i \in 1..Len(dagIds) :
            i < current' \/ step' = "sleep" => i < current \/ i = current
      BY <1>1, DagFacts DEF IInv, Update, AfterRecord
    <2> QED
      BY <1>1, <2>1, <2>2, DagFacts DEF IInv, Covered, dag
  <1>14. Shut'
    BY <1>1 DEF IInv, Shut, Update
  <1> QED
    BY <1>6, <1>9, <1>10, <1>11, <1>12, <1>13, <1>14 DEF IInv

\* An interrupt releases the lock; what it leaves half done is cut.
LEMMA InterruptStep ==
  ASSUME IInv, Interrupt
  PROVE  IInv'
  <1>1. /\ step' = "stopping" /\ ~cut /\ cut' \in BOOLEAN
        /\ ~cut' => ~(step = "update" /\ outcome = "success")
        /\ lock' = IF lock = Collector THEN Nobody ELSE lock
        /\ UNCHANGED <<now, analyses, runtime, current, outcome, cycleStart, scrape, body>>
    BY DEF IInv, CutLast, Interrupt, Running, exporter, scraping
  <1>2. Typed'
    BY <1>1 DEF IInv, Typed
  <1>3. Locked'
    BY <1>1, ScrapersAssumption DEF IInv, Locked, Collector, Nobody
  <1>4. Past' /\ CutLast' /\ Written'
    BY <1>1 DEF IInv, Past, CutLast, Written
  <1>5. Whole'
    BY <1>1 DEF IInv, Whole
  <1>6. Copied'
    BY <1>1 DEF IInv, Copied, Rendered
  <1>7. Covered'
    BY <1>1 DEF IInv, Covered
  <1>8. Shut'
    BY DEF IInv, Shut, Interrupt, Running
  <1> QED
    BY <1>2, <1>3, <1>4, <1>5, <1>6, <1>7, <1>8 DEF IInv

\* A scraper copies the two parts one after the other, under the lock.
LEMMA ScraperStep ==
  ASSUME IInv, NEW s \in Scrapers, Request(s) \/ Handle(s)
  PROVE  IInv'
  <1>1. UNCHANGED <<now, analyses, runtime, step, current, outcome, cycleStart, cut, dag>>
    BY DEF Request, Handle, CopyAnalyses, CopyRuntime, Respond, exporter, collector, dag
  <1>2. Past' /\ CutLast' /\ Written' /\ Covered'
    BY <1>1 DEF IInv, Past, CutLast, Written, Covered
  <1>3. Whole'
    BY <1>1 DEF IInv, Whole
  <1>4. /\ analyses \in [Dags -> Nat] /\ runtime \in [Dags -> Entries]
        /\ body \in [Scrapers -> [analyses : [Dags -> Nat], runtime : [Dags -> Entries]]]
        /\ scrape \in [Scrapers -> {"idle", "request", "copy", "build", "served"}]
    BY DEF IInv, Typed
  <1>5. /\ body' \in [Scrapers -> [analyses : [Dags -> Nat], runtime : [Dags -> Entries]]]
        /\ scrape' \in [Scrapers -> {"idle", "request", "copy", "build", "served"}]
        /\ lock' \in {Nobody, Collector} \cup Scrapers
    BY <1>4, ZenonT(30) DEF IInv, Typed, Request, Handle, CopyAnalyses, CopyRuntime,
       Respond, Released
  <1>6. Typed'
    BY <1>1, <1>5 DEF IInv, Typed
  <1>7. Locked'
    BY <1>1, <1>4, ScrapersAssumption
       DEF IInv, Locked, Request, Handle, CopyAnalyses, CopyRuntime, Respond, Released,
       LockFree,
           Collector, Nobody
  <1>8. Copied'
    <2>1. CASE Request(s) \/ Respond(s)
      BY <1>1, <1>4, <2>1 DEF IInv, Copied, Rendered, Request, Respond
    <2>2. CASE CopyAnalyses(s)
      <3>1. /\ body'[s].analyses = analyses /\ scrape'[s] = "copy"
            /\ \A t \in Scrapers : t # s => body'[t] = body[t] /\ scrape'[t] = scrape[t]
        BY <1>4, <2>2 DEF CopyAnalyses
      <3> QED
        BY <1>1, <3>1 DEF IInv, Copied, Rendered
    <2>3. CASE CopyRuntime(s)
      <3>1. /\ body'[s].analyses = body[s].analyses /\ body'[s].runtime = runtime
            /\ scrape[s] = "copy" /\ scrape'[s] = "build"
            /\ \A t \in Scrapers : t # s => body'[t] = body[t] /\ scrape'[t] = scrape[t]
        BY <1>4, <2>3 DEF CopyRuntime
      <3>2. step # "update"
        BY <3>1, ScrapersAssumption DEF IInv, Locked
      <3>3. ~cut => Agree(analyses, runtime) /\ body[s].analyses = analyses
        BY <3>1, <3>2 DEF IInv, Whole, Copied
      <3> QED
        BY <1>1, <3>1, <3>3 DEF IInv, Copied, Rendered
    <2> QED
      BY <2>1, <2>2, <2>3 DEF Handle
  <1>9. Shut'
    BY DEF IInv, Shut, Request, Handle, CopyAnalyses, CopyRuntime, Respond, collector
  <1> QED
    BY <1>2, <1>3, <1>6, <1>7, <1>8, <1>9 DEF IInv

\* Every step of the collector and of the scrapers keeps the invariant.
LEMMA StepIInv == IInv /\ [Next]_vars => IInv'
  <1> SUFFICES ASSUME IInv, [Next]_vars PROVE IInv'
    OBVIOUS
  <1>1. CASE StartAnalysis \/ EndAnalysis \/ Sleep \/ StopServer \/ Exit
    BY <1>1, CollectorStep
  <1>2. CASE Write
    BY <1>2, WriteStep
  <1>3. CASE Update
    BY <1>3, UpdateStep
  <1>4. CASE Interrupt
    BY <1>4, InterruptStep
  <1>5. ASSUME NEW s \in Scrapers, Request(s) \/ Handle(s) PROVE IInv'
    BY <1>5, ScraperStep
  <1>6. CASE UNCHANGED vars
    BY <1>6 DEF vars, exporter, collector, scraping, IInv, Typed, Locked, Past, CutLast,
       Shut, Whole,
                Written, Copied, Covered, Rendered, dag
  <1> QED
    BY <1>1, <1>2, <1>3, <1>4, <1>5, <1>6 DEF Next, Record

\* The invariant holds in every reachable state.
LEMMA AlwaysIInv == Spec => []IInv
  BY InitIInv, StepIInv, PTL DEF Spec

-------------------------------------------------------------------------------
(* What has been rendered, beside what the exporter holds.                  *)

\* What the exporter holds of a DAG is never replaced by something older.
LEMMA ExporterGrows ==
  ASSUME IInv, [Next]_vars
  PROVE  \A d \in Dags : /\ analyses'[d] >= analyses[d]
                         /\ runtime'[d].lastSuccess >= runtime[d].lastSuccess
                         /\ runtime'[d].lastFailure >= runtime[d].lastFailure
  <1>1. /\ now \in Nat /\ analyses \in [Dags -> Nat] /\ runtime \in [Dags -> Entries]
        /\ \A d \in Dags : /\ analyses[d] \in Nat /\ runtime[d].lastSuccess \in Nat
                           /\ runtime[d].lastFailure \in Nat
    BY DEF IInv, Typed, Entries
  <1>2. CASE Write
    <2>1. /\ step = "write" /\ ~cut /\ UNCHANGED runtime
          /\ analyses' = [analyses EXCEPT ![dag] = KeptAnalysis]
      BY <1>2 DEF IInv, CutLast, Write
    <2>2. \A d \in Dags : analyses[d] = runtime[d].lastSuccess /\ runtime[d].lastSuccess < now
      BY <2>1 DEF IInv, Whole, Agree, Past
    <2>3. KeptAnalysis = now \/ KeptAnalysis = analyses[dag]
      BY DEF KeptAnalysis
    <2>4. \A d \in Dags : analyses'[d] >= analyses[d]
      BY <1>1, <2>1, <2>2, <2>3
    <2> QED
      BY <1>1, <2>1, <2>4
  <1>3. CASE Update
    <2>1. /\ step = "update" /\ UNCHANGED analyses
          /\ runtime' = [runtime EXCEPT ![dag] = Recorded(runtime[dag])]
      BY <1>3 DEF Update
    <2>2. \A d \in Dags : runtime[d].lastSuccess < now /\ runtime[d].lastFailure < now
      BY <2>1 DEF IInv, Past
    <2>3. /\ dag \in Dags /\ runtime[dag] \in Entries
          /\ Recorded(runtime[dag]).lastSuccess >= runtime[dag].lastSuccess
          /\ Recorded(runtime[dag]).lastFailure >= runtime[dag].lastFailure
      BY <1>1, <2>2, DagFacts DEF IInv, Recorded, Entries
    <2> QED
      BY <1>1, <2>1, <2>3
  <1>4. CASE UNCHANGED exporter
    BY <1>1, <1>4 DEF exporter
  <1>5. Write \/ Update \/ UNCHANGED exporter
    BY DEF Next, vars, Record, Handle, StartAnalysis, EndAnalysis, Sleep, Interrupt, StopServer,
       Exit, Request, CopyAnalyses, CopyRuntime, Respond
  <1> QED
    BY <1>2, <1>3, <1>4, <1>5

\* A scraper that holds the lock has copied what the exporter still holds, and no
\* response is ahead of the exporter (also when the service was cut).
NotAhead ==
  \A s \in Scrapers :
    /\ scrape[s] = "copy" => body[s].analyses = analyses
    /\ Rendered(s) => \A d \in Dags :
         /\ analyses[d] >= body[s].analyses[d]
         /\ runtime[d].lastSuccess >= body[s].runtime[d].lastSuccess
         /\ runtime[d].lastFailure >= body[s].runtime[d].lastFailure

\* A step that ends in a new response ends a scraper's second copy.
LEMMA RenderStep ==
  ASSUME IInv, [Next]_vars, NEW s \in Scrapers, ~Rendered(s), Rendered(s)'
  PROVE  CopyRuntime(s)
  <1>1. scrape \in [Scrapers -> {"idle", "request", "copy", "build", "served"}]
    BY DEF IInv, Typed
  <1>2. scrape'[s] # scrape[s] /\ scrape[s] \notin {"build", "served"}
        /\ scrape'[s] \in {"build", "served"}
    BY DEF Rendered
  <1>3. ASSUME NEW t \in Scrapers, Request(t) \/ CopyAnalyses(t) \/ Respond(t)
        PROVE  FALSE
    BY <1>1, <1>2, <1>3 DEF Request, CopyAnalyses, Respond
  <1>4. ASSUME NEW t \in Scrapers, CopyRuntime(t)
        PROVE  t = s
    BY <1>1, <1>2, <1>4 DEF CopyRuntime
  <1> QED
    BY <1>2, <1>3, <1>4
       DEF Next, vars, scraping, Record, Handle, StartAnalysis, EndAnalysis, Write,
       Update, Sleep,
           Interrupt, StopServer, Exit

\* The second copy completes the picture of the exporter at that moment.
LEMMA SecondCopy ==
  ASSUME IInv, NotAhead, NEW s \in Scrapers, CopyRuntime(s)
  PROVE  /\ step # "update" /\ UNCHANGED <<analyses, runtime>>
         /\ body'[s] = [analyses |-> analyses, runtime |-> runtime]
         /\ scrape[s] = "copy" /\ scrape'[s] = "build"
         /\ \A t \in Scrapers : t # s => body'[t] = body[t] /\ scrape'[t] = scrape[t]
  <1>1. /\ body \in [Scrapers -> [analyses : [Dags -> Nat], runtime : [Dags -> Entries]]]
        /\ scrape \in [Scrapers -> {"idle", "request", "copy", "build", "served"}]
    BY DEF IInv, Typed
  <1>2. /\ scrape[s] = "copy" /\ UNCHANGED <<analyses, runtime>>
        /\ body' = [body EXCEPT ![s].runtime = runtime]
        /\ scrape' = [scrape EXCEPT ![s] = "build"]
    BY DEF CopyRuntime, exporter
  <1>3. body[s] = [analyses |-> analyses, runtime |-> body[s].runtime]
    BY <1>1, <1>2 DEF NotAhead
  <1>4. step # "update"
    BY <1>2, ScrapersAssumption DEF IInv, Locked
  <1>5. body'[s] = [analyses |-> analyses, runtime |-> runtime]
    BY <1>1, <1>2, <1>3
  <1> QED
    BY <1>1, <1>2, <1>4, <1>5

\* NotAhead is kept by every step.
LEMMA StepNotAhead == IInv /\ NotAhead /\ [Next]_vars => NotAhead'
  <1> SUFFICES ASSUME IInv, NotAhead, [Next]_vars PROVE NotAhead'
    OBVIOUS
  <1>1. /\ body \in [Scrapers -> [analyses : [Dags -> Nat], runtime : [Dags -> Entries]]]
        /\ scrape \in [Scrapers -> {"idle", "request", "copy", "build", "served"}]
        /\ analyses \in [Dags -> Nat] /\ runtime \in [Dags -> Entries]
    BY DEF IInv, Typed
  <1>2. IInv'
    BY StepIInv
  <1>3. /\ analyses' \in [Dags -> Nat] /\ runtime' \in [Dags -> Entries]
    BY <1>2 DEF IInv, Typed
  <1> SUFFICES ASSUME NEW s \in Scrapers
               PROVE  /\ scrape'[s] = "copy" => body'[s].analyses = analyses'
                      /\ Rendered(s)' => \A d \in Dags :
                           /\ analyses'[d] >= body'[s].analyses[d]
                           /\ runtime'[d].lastSuccess >= body'[s].runtime[d].lastSuccess
                           /\ runtime'[d].lastFailure >= body'[s].runtime[d].lastFailure
    BY DEF NotAhead
  <1>4. scrape'[s] = "copy" => body'[s].analyses = analyses'
    <2>1. CASE CopyAnalyses(s)
      BY <1>1, <2>1 DEF CopyAnalyses, exporter
    <2>2. CASE scrape[s] = "copy" /\ scrape'[s] = "copy"
      <3>1. lock = s
        BY <2>2 DEF IInv, Locked
      <3>2. step # "update" /\ lock # Nobody
        BY <3>1, ScrapersAssumption DEF IInv, Locked
      <3>3. UNCHANGED analyses
        BY <3>2 DEF Next, vars, exporter, Record, Handle, StartAnalysis, EndAnalysis,
           Write, Update,
           Sleep, Interrupt, StopServer, Exit, Request, CopyAnalyses, CopyRuntime,
           Respond, LockFree
      <3>4. body'[s] = body[s]
        BY <1>1, <2>2, <3>2
           DEF Next, vars, scraping, Record, Handle, StartAnalysis, EndAnalysis, Write, Update,
               Sleep, Interrupt, StopServer, Exit, Request, CopyAnalyses, CopyRuntime,
               Respond, LockFree
      <3> QED
        BY <2>2, <3>3, <3>4 DEF NotAhead
    <2>3. scrape'[s] = "copy" => CopyAnalyses(s) \/ scrape[s] = "copy"
      BY <1>1
         DEF Next, vars, scraping, Record, Handle, StartAnalysis, EndAnalysis, Write, Update,
             Sleep, Interrupt, StopServer, Exit, Request, CopyAnalyses, CopyRuntime, Respond
    <2> QED
      BY <2>1, <2>2, <2>3
  <1>5. ASSUME Rendered(s)', NEW d \in Dags
        PROVE  /\ analyses'[d] >= body'[s].analyses[d]
               /\ runtime'[d].lastSuccess >= body'[s].runtime[d].lastSuccess
               /\ runtime'[d].lastFailure >= body'[s].runtime[d].lastFailure
    <2>1. /\ analyses[d] \in Nat /\ analyses'[d] \in Nat /\ body[s].analyses[d] \in Nat
          /\ runtime[d] \in Entries /\ runtime'[d] \in Entries /\ body[s].runtime[d] \in Entries
      BY <1>1, <1>3
    <2>2. /\ analyses'[d] >= analyses[d]
          /\ runtime'[d].lastSuccess >= runtime[d].lastSuccess
          /\ runtime'[d].lastFailure >= runtime[d].lastFailure
      BY ExporterGrows
    <2>3. CASE ~Rendered(s)
      <3>1. body'[s] = [analyses |-> analyses, runtime |-> runtime]
        BY <1>5, <2>3, RenderStep, SecondCopy
      <3> QED
        BY <2>2, <3>1
    <2>4. CASE Rendered(s)
      <3>1. body'[s] = body[s]
        BY <1>1, <2>4
           DEF Rendered, Next, vars, scraping, Record, Handle, StartAnalysis,
           EndAnalysis, Write,
               Update, Sleep, Interrupt, StopServer, Exit, Request, CopyAnalyses,
               CopyRuntime, Respond
      <3>2. /\ analyses[d] >= body[s].analyses[d]
            /\ runtime[d].lastSuccess >= body[s].runtime[d].lastSuccess
            /\ runtime[d].lastFailure >= body[s].runtime[d].lastFailure
        BY <2>4 DEF NotAhead
      <3> QED
        BY <2>1, <2>2, <3>1, <3>2 DEF Entries
    <2> QED
      BY <2>3, <2>4
  <1> QED
    BY <1>4, <1>5

\* NotAhead holds throughout, beside IInv.
LEMMA AlwaysNotAhead == Spec => []NotAhead
  <1>1. Init => NotAhead
    BY DEF Init, NotAhead, Rendered
  <1> QED
    BY <1>1, StepNotAhead, AlwaysIInv, PTL DEF Spec

-------------------------------------------------------------------------------
(* The exporter as a register.                                             *)

\* A service that has not started is a register of untried DAGs.
LEMMA InitRegister == Init => Snapshot!Init
  <1> SUFFICES ASSUME Init PROVE Snapshot!Init
    OBVIOUS
  <1>1. Measured = [d \in Dags |-> 0]
    BY DEF Init, Measured, HalfRecorded
  <1>2. Status = [s \in Scrapers |-> "idle"]
    BY DEF Init, Status
  <1>3. Answer = [s \in Scrapers |-> EmptyBody]
    BY DEF Init, Answer, Rendered
  <1>4. runtime = [d \in Dags |-> Snapshot!Untried] /\ Snapshot!Unread = EmptyBody
    BY DEF Init, NoRun, EmptyBody, Snapshot!Untried, Snapshot!Unread
  <1> QED
    BY <1>1, <1>2, <1>3, <1>4 DEF Init, Running, Alive, Snapshot!Init

\* What scrapers see of the register does not change with steps that leave them
\* and the exporter's snapshot alone.
LEMMA SameScrapes ==
  ASSUME UNCHANGED scraping
  PROVE  Status' = Status /\ Answer' = Answer
  BY DEF scraping, Status, Answer, Rendered

\* The collector's first write is hidden: the register still holds the last record.
LEMMA WriteIsHidden ==
  ASSUME IInv, Write
  PROVE  UNCHANGED (Snapshot!vars)
  <1>1. /\ step = "write" /\ step' = "update" /\ ~cut
        /\ Running' = Running /\ Alive' = Alive
        /\ analyses' = [analyses EXCEPT ![dag] = KeptAnalysis]
        /\ UNCHANGED <<now, runtime, outcome, server, dag>> /\ UNCHANGED scraping
    BY DEF IInv, CutLast, Write, dag, Running, Alive
  <1>2. dag \in Dags /\ analyses \in [Dags -> Nat]
    BY DagFacts DEF IInv, Typed
  <1>3. analyses[dag] = runtime[dag].lastSuccess
    BY <1>1, <1>2 DEF IInv, Whole, Agree
  <1>4. Measured' = Measured
    <2>1. [analyses' EXCEPT ![dag] = runtime[dag].lastSuccess] = analyses
      BY <1>1, <1>2, <1>3
    <2>2. outcome # "success" => analyses' = analyses
      BY <1>1, <1>2 DEF KeptAnalysis
    <2> QED
      BY <1>1, <2>1, <2>2 DEF Measured, HalfRecorded
  <1> QED
    BY <1>1, <1>4, SameScrapes DEF Snapshot!vars, Snapshot!register, Snapshot!scrapes

\* The second write is the register's.
LEMMA UpdateWrites ==
  ASSUME IInv, Update
  PROVE  \E d \in Dags : Snapshot!Succeed(d) \/ Snapshot!Fail(d)
  <1>1. /\ step = "update" /\ step' \in {"pick", "sleep"}
        /\ Running /\ Running' = Running /\ Alive' = Alive
        /\ runtime' = [runtime EXCEPT ![dag] = Recorded(runtime[dag])]
        /\ UNCHANGED <<now, analyses, server>> /\ UNCHANGED scraping
    BY DEF Update, AfterRecord, Running, Alive
  <1>2. /\ dag \in Dags /\ analyses \in [Dags -> Nat] /\ runtime \in [Dags -> Entries]
        /\ runtime[dag] \in Entries
    BY DagFacts DEF IInv, Typed
  <1>3. outcome \in {"success", "failure"} /\ Snapshot!Later
    BY <1>1 DEF IInv, Past, Snapshot!Later
  <1>4. Measured' = analyses
    BY <1>1 DEF Measured, HalfRecorded
  <1>5. Status' = Status /\ Answer' = Answer
    BY <1>1, SameScrapes
  <1>6. CASE outcome = "success"
    <2>1. analyses[dag] = now
      BY <1>1, <1>6 DEF IInv, Written
    <2>2. Measured' = [Measured EXCEPT ![dag] = now]
      BY <1>1, <1>2, <1>4, <1>6, <2>1 DEF Measured, HalfRecorded
    <2>3. runtime' = [runtime EXCEPT ![dag].success = 1, ![dag].lastSuccess = now]
      BY <1>1, <1>2, <1>6 DEF Recorded, Entries
    <2>4. Snapshot!Succeed(dag)
      BY <1>1, <1>3, <1>5, <2>2, <2>3 DEF Snapshot!Succeed, Snapshot!scrapes
    <2> QED
      BY <1>2, <2>4
  <1>7. CASE outcome = "failure"
    <2>1. Measured' = Measured
      BY <1>4, <1>7 DEF Measured, HalfRecorded
    <2>2. runtime' = [runtime EXCEPT ![dag].success = 0, ![dag].lastFailure = now]
      BY <1>1, <1>2, <1>7 DEF Recorded, Entries
    <2>3. Snapshot!Fail(dag)
      BY <1>1, <1>3, <1>5, <2>1, <2>2 DEF Snapshot!Fail, Snapshot!scrapes
    <2> QED
      BY <1>2, <2>3
  <1> QED
    BY <1>3, <1>6, <1>7

\* An interrupt ends the register, and leaves half a record only between the two
\* writes of a success.
LEMMA InterruptEnds ==
  ASSUME IInv, Interrupt
  PROVE  Snapshot!End
  <1>1. /\ Running = TRUE /\ Running' = FALSE /\ Alive /\ Alive' /\ step' = "stopping"
        /\ UNCHANGED <<now, analyses, runtime, server>> /\ UNCHANGED scraping
    BY DEF Interrupt, Running, Alive, exporter
  <1>2. Measured' = analyses
    BY <1>1 DEF Measured, HalfRecorded
  <1>3. CASE HalfRecorded
    <2>1. dag \in Dags /\ analyses \in [Dags -> Nat] /\ analyses[dag] = now
      BY <1>3, DagFacts DEF IInv, Typed, Written, HalfRecorded
    <2>2. Measured' = [Measured EXCEPT ![dag] = now]
      BY <1>2, <1>3, <2>1 DEF Measured
    <2>3. Snapshot!Later
      BY <1>3 DEF IInv, Past, HalfRecorded, Snapshot!Later
    <2> QED
      BY <1>1, <2>1, <2>2, <2>3, SameScrapes DEF Snapshot!End, Snapshot!scrapes
  <1>4. CASE ~HalfRecorded
    <2>1. Measured' = Measured
      BY <1>2, <1>4 DEF Measured
    <2> QED
      BY <1>1, <2>1, SameScrapes DEF Snapshot!End, Snapshot!scrapes
  <1> QED
    BY <1>3, <1>4

\* The rest of the collector: the clock, the end of serving, and what nobody sees.
LEMMA CollectorRefines ==
  ASSUME IInv, StartAnalysis \/ EndAnalysis \/ Sleep \/ StopServer \/ Exit
  PROVE  Snapshot!Tick \/ Snapshot!Close \/ Snapshot!Vanish \/ UNCHANGED (Snapshot!vars)
  <1>1. /\ UNCHANGED <<analyses, runtime>> /\ UNCHANGED scraping
        /\ step # "update" /\ step' # "update"
    BY DEF StartAnalysis, EndAnalysis, Sleep, StopServer, Exit, exporter
  <1>2. Measured' = Measured
    BY <1>1 DEF Measured, HalfRecorded
  <1>3. Status' = Status /\ Answer' = Answer
    BY <1>1, SameScrapes
  <1>4. CASE StartAnalysis
    BY <1>1, <1>2, <1>3, <1>4
       DEF StartAnalysis, Running, Alive, Snapshot!vars, Snapshot!register, Snapshot!scrapes
  <1>5. CASE EndAnalysis \/ Sleep
    BY <1>1, <1>2, <1>3, <1>5
       DEF EndAnalysis, Sleep, Running, Alive, Snapshot!Tick, Snapshot!register,
       Snapshot!scrapes
  <1>6. CASE StopServer
    <2>1. server = "serving"
      BY <1>6 DEF IInv, Shut, StopServer
    <2> QED
      BY <1>1, <1>2, <1>3, <1>6, <2>1
         DEF StopServer, Running, Alive, Snapshot!Close, Snapshot!register, Snapshot!scrapes
  <1>7. CASE Exit
    <2>1. server = "closed"
      BY <1>7 DEF IInv, Shut, Exit
    <2> QED
      BY <1>1, <1>2, <1>3, <1>7, <2>1
         DEF Exit, Running, Alive, Snapshot!Vanish, Snapshot!register, Snapshot!scrapes
  <1> QED
    BY <1>4, <1>5, <1>6, <1>7

\* A scraper reads the register with its second copy.
LEMMA ScraperRefines ==
  ASSUME IInv, NotAhead, NEW s \in Scrapers, Request(s) \/ Handle(s)
  PROVE  \/ Snapshot!Ask(s) \/ Snapshot!Read(s) \/ Snapshot!Reply(s)
         \/ UNCHANGED (Snapshot!vars)
  <1>1. /\ UNCHANGED <<now, analyses, runtime, step, outcome, server, dag>>
        /\ Alive /\ Alive' = Alive /\ Running' = Running /\ server # "gone"
    BY DEF IInv, Shut, Request, Handle, CopyAnalyses, CopyRuntime, Respond, exporter, collector,
           dag, Running, Alive
  <1>2. Measured' = Measured
    BY <1>1 DEF Measured, HalfRecorded
  <1>3. /\ body \in [Scrapers -> [analyses : [Dags -> Nat], runtime : [Dags -> Entries]]]
        /\ scrape \in [Scrapers -> {"idle", "request", "copy", "build", "served"}]
    BY DEF IInv, Typed
  <1>4. EmptyBody = Snapshot!Unread
    BY DEF EmptyBody, NoRun, Snapshot!Unread, Snapshot!Untried
  <1>5. CASE Request(s)
    <2>1. /\ server = "serving" /\ scrape[s] \in {"idle", "served"} /\ UNCHANGED body
          /\ scrape' = [scrape EXCEPT ![s] = "request"]
      BY <1>5 DEF Request
    <2>2. Status[s] \in {"idle", "answered"}
      BY <2>1 DEF Status
    <2>3. Status' = [Status EXCEPT ![s] = "asked"]
      BY <1>3, <2>1 DEF Status
    <2>4. Answer' = [Answer EXCEPT ![s] = EmptyBody]
      BY <1>3, <2>1 DEF Answer, Rendered
    <2> QED
      BY <1>1, <1>2, <1>4, <2>1, <2>2, <2>3, <2>4 DEF Snapshot!Ask, Snapshot!register
  <1>6. CASE CopyAnalyses(s)
    <2>1. /\ scrape[s] = "request"
          /\ scrape' = [scrape EXCEPT ![s] = "copy"]
          /\ \A t \in Scrapers : t # s => body'[t] = body[t]
      BY <1>3, <1>6 DEF CopyAnalyses
    <2>2. Status' = Status
      BY <1>3, <2>1 DEF Status
    <2>3. Answer' = Answer
      BY <1>3, <2>1 DEF Answer, Rendered
    <2> QED
      BY <1>1, <1>2, <2>2, <2>3 DEF Snapshot!vars, Snapshot!register, Snapshot!scrapes
  <1>7. CASE CopyRuntime(s)
    <2>1. /\ step # "update"
          /\ body'[s] = [analyses |-> analyses, runtime |-> runtime]
          /\ scrape[s] = "copy" /\ scrape'[s] = "build"
          /\ \A t \in Scrapers : t # s => body'[t] = body[t] /\ scrape'[t] = scrape[t]
      BY <1>7, SecondCopy
    <2>2. Measured = analyses
      BY <2>1 DEF Measured, HalfRecorded
    <2>3. Status[s] = "asked"
      BY <2>1 DEF Status
    <2>4. Status' = [Status EXCEPT ![s] = "read"]
      <3>1. scrape' = [scrape EXCEPT ![s] = "build"]
        BY <1>7 DEF CopyRuntime
      <3> QED
        BY <1>3, <2>1, <3>1 DEF Status
    <2>5. Answer' = [Answer EXCEPT ![s] = [analyses |-> Measured, runtime |-> runtime]]
      BY <2>1, <2>2 DEF Answer, Rendered
    <2> QED
      BY <1>1, <1>2, <2>3, <2>4, <2>5 DEF Snapshot!Read, Snapshot!register
  <1>8. CASE Respond(s)
    <2>1. /\ scrape[s] = "build" /\ UNCHANGED body
          /\ scrape' = [scrape EXCEPT ![s] = "served"]
      BY <1>8 DEF Respond
    <2>2. Status[s] = "read"
      BY <2>1 DEF Status
    <2>3. Status' = [Status EXCEPT ![s] = "answered"]
      BY <1>3, <2>1 DEF Status
    <2>4. Answer' = Answer
      BY <1>3, <2>1 DEF Answer, Rendered
    <2> QED
      BY <1>1, <1>2, <2>2, <2>3, <2>4 DEF Snapshot!Reply, Snapshot!register
  <1> QED
    BY <1>5, <1>6, <1>7, <1>8 DEF Handle

\* Every step of the service is a step of the register or a stutter.
LEMMA StepRegister == IInv /\ NotAhead /\ [Next]_vars => [Snapshot!Next]_(Snapshot!vars)
  <1> SUFFICES ASSUME IInv, NotAhead, [Next]_vars PROVE [Snapshot!Next]_(Snapshot!vars)
    OBVIOUS
  <1>1. CASE StartAnalysis \/ EndAnalysis \/ Sleep \/ StopServer \/ Exit
    BY <1>1, CollectorRefines DEF Snapshot!Next
  <1>2. CASE Write
    BY <1>2, WriteIsHidden
  <1>3. CASE Update
    BY <1>3, UpdateWrites DEF Snapshot!Next
  <1>4. CASE Interrupt
    BY <1>4, InterruptEnds DEF Snapshot!Next
  <1>5. ASSUME NEW s \in Scrapers, Request(s) \/ Handle(s)
        PROVE  [Snapshot!Next]_(Snapshot!vars)
    BY <1>5, ScraperRefines DEF Snapshot!Next
  <1>6. CASE UNCHANGED vars
    BY <1>6
       DEF vars, exporter, collector, scraping, dag, Measured, HalfRecorded, Status, Answer,
           Rendered, Running, Alive, Snapshot!vars, Snapshot!register, Snapshot!scrapes
  <1> QED
    BY <1>1, <1>2, <1>3, <1>4, <1>5, <1>6 DEF Next, Record

-------------------------------------------------------------------------------
(* The theorems.                                                           *)

\* Every response is a snapshot, whatever the interleaving of the collector's two
\* writes with the two copies of any number of scrapers.
THEOREM SnapshotIsConsistent == Spec => []SnapshotConsistent
  <1>1. IInv => SnapshotConsistent
    BY DEF IInv, Copied, Agree, SnapshotConsistent
  <1> QED
    BY AlwaysIInv, <1>1, PTL

\* A cycle leaves no configured DAG without a record of it.
THEOREM CycleDoesCoverAll == Spec => []CycleCoversAll
  <1>1. IInv => CycleCoversAll
    BY DEF IInv, Covered, CycleCoversAll, Dags
  <1> QED
    BY AlwaysIInv, <1>1, PTL

\* Measurements older than the threshold are never shown without an alert firing.
THEOREM OutageIsReported == Spec => []OutageReported
  <1>1. IInv => OutageReported
    <2> SUFFICES ASSUME IInv, ~cut, NEW s \in Scrapers, NEW d \in Dags, Rendered(s), Known(s, d),
                        now - body[s].analyses[d] > StaleAfter
                 PROVE  Stale(s, d) \/ Failed(s, d)
      BY DEF OutageReported
    <2> DEFINE r == body[s].runtime[d]
    <2>1. r.success \in {0, 1} /\ r.lastSuccess \in Nat /\ r.lastFailure \in Nat
      BY DEF IInv, Typed, Entries
    <2>2. /\ body[s].analyses[d] = r.lastSuccess
          /\ r.success = 1 => r.lastSuccess > r.lastFailure
      BY DEF IInv, Copied, Agree
    <2> QED
      BY <2>1, <2>2 DEF Stale, Failed, Known
  <1> QED
    BY AlwaysIInv, <1>1, PTL

\* A response is never older than one rendered before it.
THEOREM ResponsesNeverOlder == Spec => AnswersNeverOlder
  <1> DEFINE NotOlder ==
        \A s, t \in Scrapers, d \in Dags :
          Rendered(s) /\ ~Rendered(t) /\ Rendered(t)' =>
            /\ body'[t].analyses[d] >= body[s].analyses[d]
            /\ body'[t].runtime[d].lastSuccess >= body[s].runtime[d].lastSuccess
            /\ body'[t].runtime[d].lastFailure >= body[s].runtime[d].lastFailure
  <1>1. IInv /\ NotAhead /\ [Next]_vars => [NotOlder]_vars
    <2> SUFFICES ASSUME IInv, NotAhead, [Next]_vars,
                        NEW s \in Scrapers, NEW t \in Scrapers, NEW d \in Dags,
                        Rendered(s), ~Rendered(t), Rendered(t)'
                 PROVE  /\ body'[t].analyses[d] >= body[s].analyses[d]
                        /\ body'[t].runtime[d].lastSuccess >= body[s].runtime[d].lastSuccess
                        /\ body'[t].runtime[d].lastFailure >= body[s].runtime[d].lastFailure
      OBVIOUS
    <2>1. body'[t] = [analyses |-> analyses, runtime |-> runtime]
      BY RenderStep, SecondCopy
    <2> QED
      BY <2>1 DEF NotAhead
  <1> QED
    BY <1>1, AlwaysIInv, AlwaysNotAhead, PTL DEF Spec, AnswersNeverOlder

\* The exporter implements the register, its fairness apart: whatever the
\* interleaving, a record is written and a response read in one step.
THEOREM ExporterIsRegister == Spec => Snapshot!Init /\ [][Snapshot!Next]_(Snapshot!vars)
  BY InitRegister, StepRegister, AlwaysIInv, AlwaysNotAhead, PTL DEF Spec

-------------------------------------------------------------------------------
(***************************************************************************)
(* PublishedAnalysis, for any finite set of tasks, any graphs without a    *)
(* cycle, any drifts and any limit of samples: what the searches find, and *)
(* that each view of the result shows it.                                  *)
(***************************************************************************)


\* What an analysis starts from.
Given ==
  /\ dependencies \in Graphs
  /\ drift \in [Tasks -> Severities \cup {NoDrift}]
  /\ \E table \in HandoffTables : handoff = [e \in Edges |-> table[e]]

\* The results of the three stages, as they are for these drifts.
Impacts == [t \in Tasks |-> IF t \in Drifted THEN Classification(t) ELSE "unknown"]
Propagation == UNION {PathsFrom(o) : o \in Origins}
PrimaryOrigin == IF Candidates = {} THEN NoTask ELSE Best(RootCandidates)

\* Each result is there from its phase on, and is the one of the drifts.
Results ==
  /\ phase \in {"drifted", "classified", "propagated", "selected", "published"}
  /\ phase # "drifted" => impact = Impacts
  /\ phase \in {"propagated", "selected", "published"} => propagation = Propagation
  /\ phase \in {"selected", "published"} => primary = PrimaryOrigin

\* What is published is the results.
IsPublished ==
  /\ signalled \subseteq Tasks
  /\ listed \subseteq Tasks /\ Tasks \ listed \subseteq (Drifted \cup signalled) \ Linked
  /\ phase = "published" => document = Document /\ report = Report /\ samples = Samples

\* The inductive invariant of PublishedAnalysis.
ResultIInv == Given /\ Results /\ IsPublished

-------------------------------------------------------------------------------
(* ResultIInv is inductive.                                                *)

\* f answers the code's search for a strong drift upstream.
StrongSearch(f) ==
  f = [visited \in SUBSET Tasks |->
         {s \in Tasks \ visited :
            \E u \in Upstream(s) :
              /\ Drifting(u)
              /\ drift[u] \in Strong \/ u \in f[visited \cup {s}]}]

\* f answers the code's search for a candidate upstream.
CandidateSearch(f) ==
  f = [visited \in SUBSET Tasks |->
         {s \in Tasks \ visited :
            \E u \in Upstream(s) :
              /\ Drifting(u)
              /\ u \in Candidates \/ u \in f[visited \cup {s}]}]

\* f answers the search for the paths onwards.
PathSearch(f) ==
  f = [visited \in SUBSET Tasks |->
         [t \in Tasks |->
            UNION {LET further == f[visited \cup {n}][n]
                   IN  IF further = {} THEN {<<n>>} ELSE {<<n>> \o p : p \in further}
                   : n \in {m \in dependencies[t] \ visited : Drifting(m)}}]]

\* The three searches of the model are the functions that satisfy these.
LEMMA Searches ==
  /\ \A t : HasAnomalousUpstream(t) <=> t \in (CHOOSE f : StrongSearch(f))[{}]
  /\ \A t : HasCandidateUpstream(t) <=> t \in (CHOOSE f : CandidateSearch(f))[{}]
  /\ \A t : PathsFrom(t) = {<<t>> \o p : p \in (CHOOSE f : PathSearch(f))[{t}][t]}
BY DEF HasAnomalousUpstream, HasCandidateUpstream, PathsFrom, StrongSearch, CandidateSearch,
       PathSearch

\* What is made of the drifts stays as long as they do.
LEMMA DriftsKept ==
  ASSUME UNCHANGED given
  PROVE  /\ Given' <=> Given
         /\ Edges' = Edges /\ Drifted' = Drifted /\ Linked' = Linked
         /\ DriftedEdges' = DriftedEdges
         /\ Impacts' = Impacts
         /\ Propagation' = Propagation
<1>1. dependencies' = dependencies /\ drift' = drift /\ handoff' = handoff
  BY DEF given
<1>2. Edges' = Edges
  BY <1>1 DEF Edges
<1>3. Given' <=> Given
  BY <1>1, <1>2 DEF Given
<1>4. Drifted' = Drifted
  BY <1>1 DEF Drifted
<1>5. Linked' = Linked
  BY <1>2 DEF Linked
<1>6. \A t : AnomalousHandoffs(t)' = AnomalousHandoffs(t)
  BY <1>1, <1>2 DEF AnomalousHandoffs
<1>7. \A t : Drifting(t)' <=> Drifting(t)
  BY <1>1 DEF Drifting
<1>8. \A t : Classification(t)' = Classification(t)
  BY <1>6, <1>7 DEF Classification
<1>9. Impacts' = Impacts
  BY <1>4, <1>8 DEF Impacts
<1>10. \A t : Upstream(t)' = Upstream(t)
  BY <1>1 DEF Upstream
<1>11. \A t : HasAnomalousUpstream(t)' <=> HasAnomalousUpstream(t)
  <2>1. \A f : StrongSearch(f)' <=> StrongSearch(f)
    BY <1>1, <1>7, <1>10 DEF StrongSearch
  <2>2. (CHOOSE f : StrongSearch(f))' = CHOOSE f : StrongSearch(f)
    BY <2>1
  <2>3. \A t : HasAnomalousUpstream(t)' <=> t \in (CHOOSE f : StrongSearch(f))'[{}]
    BY DEF HasAnomalousUpstream, StrongSearch
  <2> QED
    BY <2>2, <2>3, Searches
<1>12. \A t : PathsFrom(t)' = PathsFrom(t)
  <2>1. \A f : PathSearch(f)' <=> PathSearch(f)
    BY <1>1, <1>7, ZenonT(30) DEF PathSearch
  <2>2. (CHOOSE f : PathSearch(f))' = CHOOSE f : PathSearch(f)
    BY <2>1
  <2>3. \A t : PathsFrom(t)' = {<<t>> \o p : p \in (CHOOSE f : PathSearch(f))'[{t}][t]}
    BY DEF PathsFrom, PathSearch
  <2> QED
    BY <2>2, <2>3, Searches
<1>13. Origins' = Origins
  BY <1>1, <1>11 DEF Origins
<1>14. Propagation' = Propagation
  BY <1>12, <1>13 DEF Propagation
<1>15. DriftedEdges' = DriftedEdges
  BY <1>1, <1>2 DEF DriftedEdges
<1> QED
  BY <1>2, <1>3, <1>4, <1>5, <1>9, <1>14, <1>15

\* The primary origin and the scores depend on the results before it.
LEMMA ResultsKept ==
  ASSUME UNCHANGED given, UNCHANGED <<impact, propagation>>
  PROVE  /\ PrimaryOrigin' = PrimaryOrigin
         /\ \A p : Score(p)' = Score(p)
<1>1. /\ dependencies' = dependencies /\ drift' = drift /\ handoff' = handoff
      /\ impact' = impact /\ propagation' = propagation
  BY DEF given
<1>2. \A p : Score(p)' = Score(p)
  BY <1>1 DEF Score
<1>3. Candidates' = Candidates
  BY <1>1 DEF Candidates
<1>4. \A t : Drifting(t)' <=> Drifting(t)
  BY <1>1 DEF Drifting
<1>5. \A t : Upstream(t)' = Upstream(t)
  BY <1>1 DEF Upstream
<1>6. \A t : HasCandidateUpstream(t)' <=> HasCandidateUpstream(t)
  <2>1. \A f : CandidateSearch(f)' <=> CandidateSearch(f)
    BY <1>1, <1>3, <1>4, <1>5 DEF CandidateSearch
  <2>2. (CHOOSE f : CandidateSearch(f))' = CHOOSE f : CandidateSearch(f)
    BY <2>1
  <2>3. \A t : HasCandidateUpstream(t)' <=> t \in (CHOOSE f : CandidateSearch(f))'[{}]
    BY DEF HasCandidateUpstream, CandidateSearch
  <2> QED
    BY <2>2, <2>3, Searches
<1>7. RootCandidates' = RootCandidates
  BY <1>3, <1>6 DEF RootCandidates
<1>8. \A t : OriginScore(t)' = OriginScore(t)
  BY <1>1, <1>2 DEF OriginScore
<1>9. \A s, t : RanksAtLeast(s, t)' <=> RanksAtLeast(s, t)
  BY <1>1, <1>8 DEF RanksAtLeast
<1>10. \A S : Best(S)' = Best(S)
  BY <1>9 DEF Best
<1> QED
  BY <1>2, <1>3, <1>7, <1>10 DEF PrimaryOrigin

\* What is published depends on the results and on what was given.
LEMMA DocumentKept ==
  ASSUME UNCHANGED given, UNCHANGED <<impact, propagation, primary, listed, signalled>>
  PROVE  Document' = Document /\ Report' = Report /\ Samples' = Samples
<1>1. /\ dependencies' = dependencies /\ drift' = drift /\ handoff' = handoff
      /\ impact' = impact /\ propagation' = propagation /\ primary' = primary
      /\ listed' = listed /\ signalled' = signalled
  BY DEF given
<1>2. /\ Edges' = Edges /\ Drifted' = Drifted /\ Linked' = Linked
      /\ DriftedEdges' = DriftedEdges
  BY DriftsKept
<1>3. Overall' = Overall
  BY <1>1, <1>2 DEF Overall, Highest
<1>4. AllTasks' = AllTasks /\ AffectedTasks' = AffectedTasks
  BY <1>1, <1>2 DEF AllTasks, AffectedTasks
<1>5. Summary' = Summary
  BY <1>1, <1>2, <1>4 DEF Summary
<1>6. Document' = Document
  BY <1>1, <1>2, <1>3, <1>5 DEF Document
<1>7. Report' = Report
  BY <1>1, <1>2 DEF Report, Rows, EdgeBefore, Ordered
<1>8. Sampled' = Sampled
  BY <1>1, <1>2 DEF Sampled
<1>9. Samples' = Samples
  BY <1>1, <1>2, <1>3, <1>8 DEF Samples, Dropped
<1> QED
  BY <1>6, <1>7, <1>9

\* The drifts are given, and nothing is made of them yet.
LEMMA InitResults == PublishInit => ResultIInv
<1> SUFFICES ASSUME PublishInit PROVE ResultIInv
  OBVIOUS
<1>1. Given
  BY DEF PublishInit, OriginInit, Given
<1>2. Results
  BY DEF PublishInit, OriginInit, Results
<1>3. IsPublished
  <2>1. PICK removed \in SUBSET ((Drifted \cup signalled) \ Linked) : listed = Tasks \ removed
    BY DEF PublishInit
  <2>2. signalled \subseteq Tasks
    BY SignalSetsAssumption DEF PublishInit
  <2> QED
    BY <2>1, <2>2 DEF PublishInit, OriginInit, IsPublished
<1> QED
  BY <1>1, <1>2, <1>3 DEF ResultIInv

\* Each step adds a result, made of what the steps before it left as it was.
LEMMA StepResults == ResultIInv /\ [PublishNext]_publishVars => ResultIInv'
<1> SUFFICES ASSUME ResultIInv, [PublishNext]_publishVars PROVE ResultIInv'
  OBVIOUS
<1>1. UNCHANGED given /\ listed' = listed /\ signalled' = signalled
  BY DEF PublishNext, AnalysisStep, OriginNext, Classify, Propagate, Select, Publish,
         publishVars, originVars, given
<1>2. Given' /\ Impacts' = Impacts /\ Propagation' = Propagation
  BY <1>1, DriftsKept DEF ResultIInv
<1>3. Drifted' = Drifted /\ Linked' = Linked
  BY <1>1, DriftsKept
<1>4. CASE Classify /\ UNCHANGED published
  <2>1. impact' = Impacts /\ phase' = "classified"
    BY <1>4 DEF Classify, Impacts
  <2> QED
    BY <1>1, <1>2, <1>3, <2>1 DEF ResultIInv, Results, IsPublished
<1>5. CASE Propagate /\ UNCHANGED published
  <2>1. /\ propagation' = Propagation /\ phase = "classified" /\ phase' = "propagated"
        /\ impact' = impact
    BY <1>5 DEF Propagate, Propagation
  <2> QED
    BY <1>1, <1>2, <1>3, <2>1 DEF ResultIInv, Results, IsPublished
<1>6. CASE Select /\ UNCHANGED published
  <2>1. /\ primary' = PrimaryOrigin /\ phase = "propagated" /\ phase' = "selected"
        /\ impact' = impact /\ propagation' = propagation
    BY <1>6 DEF Select, PrimaryOrigin
  <2>2. PrimaryOrigin' = PrimaryOrigin
    BY <1>1, <2>1, ResultsKept
  <2> QED
    BY <1>1, <1>2, <1>3, <2>1, <2>2 DEF ResultIInv, Results, IsPublished
<1>7. CASE Publish
  <2>1. /\ phase = "selected" /\ phase' = "published"
        /\ impact' = impact /\ propagation' = propagation /\ primary' = primary
        /\ document' = Document /\ report' = Report /\ samples' = Samples
    BY <1>7 DEF Publish
  <2>2. PrimaryOrigin' = PrimaryOrigin
    BY <1>1, <2>1, ResultsKept
  <2>3. Document' = Document /\ Report' = Report /\ Samples' = Samples
    BY <1>1, <1>3, <2>1, DocumentKept
  <2> QED
    BY <1>1, <1>2, <1>3, <2>1, <2>2, <2>3 DEF ResultIInv, Results, IsPublished
<1>8. CASE UNCHANGED publishVars
  <2>1. /\ phase' = phase /\ impact' = impact /\ propagation' = propagation
        /\ primary' = primary /\ document' = document /\ report' = report
        /\ samples' = samples
    BY <1>8 DEF publishVars, originVars, published
  <2>2. PrimaryOrigin' = PrimaryOrigin
    BY <1>1, <2>1, ResultsKept
  <2>3. Document' = Document /\ Report' = Report /\ Samples' = Samples
    BY <1>1, <1>3, <2>1, DocumentKept
  <2> QED
    BY <1>1, <1>2, <1>3, <2>1, <2>2, <2>3 DEF ResultIInv, Results, IsPublished
<1> QED
  BY <1>4, <1>5, <1>6, <1>7, <1>8 DEF PublishNext, AnalysisStep, OriginNext

\* The results are those of the drifts in every reachable state.
LEMMA AlwaysResults == PublishSpec => []ResultIInv
BY InitResults, StepResults, PTL DEF PublishSpec

-------------------------------------------------------------------------------
(* CriticalIsVisible.                                                      *)

\* Task ids are numbers, and finitely many.
LEMMA TaskFacts == IsFiniteSet(Tasks) /\ \A t \in Tasks : t \in Int
<1>1. Tasks \subseteq Nat
  BY TasksAssumption, Zenon
<1>2. IsFiniteSet(Tasks)
  BY TasksAssumption, Zenon
<1> QED
  BY <1>1, <1>2

\* The drifts are severities, of tasks and of handoffs, and finitely many.
LEMMA GivenFacts ==
  ASSUME Given
  PROVE  /\ dependencies \in [Tasks -> SUBSET Tasks]
         /\ Drifted \subseteq Tasks /\ \A t \in Drifted : drift[t] \in 0..3
         /\ \A t \in Tasks : drift[t] \in -1..3 /\ (t \in Drifted <=> drift[t] # -1)
         /\ DriftedEdges \subseteq Edges /\ \A e \in DriftedEdges : handoff[e] \in 0..3
         /\ \A e \in Edges : handoff[e] \in -1..3 /\ (e \in DriftedEdges <=> handoff[e] # -1)
         /\ IsFiniteSet(Drifted) /\ IsFiniteSet(DriftedEdges)
<1>1. dependencies \in [Tasks -> SUBSET Tasks]
  BY GraphsAssumption DEF Given
<1>2. \A t \in Tasks : drift[t] \in -1..3
  BY DEF Given, Severities, NoDrift, Normal, Critical
<1>3. Drifted \subseteq Tasks /\ \A t \in Tasks : t \in Drifted <=> drift[t] # -1
  BY DEF Drifted, NoDrift
<1>4. \A t \in Drifted : drift[t] \in 0..3
  BY <1>2, <1>3
<1>5. \A e \in Edges : handoff[e] \in -1..3
  <2>1. PICK table \in HandoffTables : handoff = [e \in Edges |-> table[e]]
    BY DEF Given
  <2>2. table \in [Tasks \X Tasks -> -1..3]
    BY <2>1, HandoffTablesAssumption
  <2>3. Edges \subseteq Tasks \X Tasks
    BY DEF Edges
  <2> QED
    BY <2>1, <2>2, <2>3
<1>8. DriftedEdges \subseteq Edges /\ \A e \in Edges : e \in DriftedEdges <=> handoff[e] # -1
  BY DEF DriftedEdges, NoDrift
<1>9. \A e \in DriftedEdges : handoff[e] \in 0..3
  BY <1>5, <1>8
<1>6. IsFiniteSet(Drifted)
  BY <1>3, TasksAssumption, FS_Subset
<1>7. IsFiniteSet(DriftedEdges)
  <2>1. IsFiniteSet(Tasks \X Tasks)
    BY TasksAssumption, FS_Product
  <2>2. DriftedEdges \subseteq Tasks \X Tasks
    BY DEF DriftedEdges, Edges
  <2> QED
    BY <2>1, <2>2, FS_Subset
<1> QED
  BY <1>1, <1>2, <1>3, <1>4, <1>5, <1>6, <1>7, <1>8, <1>9

\* The highest of some severities is one of them, and none is higher.
LEMMA HighestFacts ==
  ASSUME NEW S \in SUBSET (0..3), S # {}
  PROVE  Highest(S) \in S /\ \A r \in S : r <= Highest(S)
<1>1. IsFiniteSet(S)
  <2>1. 0 \in Int /\ 3 \in Int
    OBVIOUS
  <2>2. IsFiniteSet(0..3)
    BY <2>1, FS_Interval, Zenon
  <2> QED
    BY <2>2, FS_Subset, Zenon
<1>2. S \in SUBSET Int
  OBVIOUS
<1>3. \E n \in S : \A m \in S : m <= n
  BY <1>1, <1>2, HasExtremes
<1> QED
  BY <1>3 DEF Highest

\* The overall severity is the worst of the tasks and of the handoffs, NORMAL if
\* there is no drift at all.
LEMMA OverallFacts ==
  ASSUME Given
  PROVE  /\ Overall \in 0..3
         /\ \A t \in Drifted : drift[t] <= Overall
         /\ \A e \in DriftedEdges : handoff[e] <= Overall
         /\ \/ Overall = 0
            \/ \E t \in Drifted : drift[t] = Overall
            \/ \E e \in DriftedEdges : handoff[e] = Overall
<1> DEFINE S == {drift[t] : t \in Drifted} \cup {handoff[e] : e \in DriftedEdges} \cup {Normal}
<1>1. S \in SUBSET (0..3) /\ S # {}
  BY GivenFacts DEF Normal
<1>2. Overall = Highest(S)
  BY DEF Overall
<1>3. Overall \in S /\ \A r \in S : r <= Overall
  <2> HIDE DEF S
  <2> QED
    BY <1>1, <1>2, HighestFacts
<1> QED
  BY <1>1, <1>3 DEF Normal

\* By descending severity and then by name: the order of a table's rows.
RowOrder(S, f, B) ==
  {p \in S \X S : f[p[1]] > f[p[2]] \/ (f[p[1]] = f[p[2]] /\ (p[1] = p[2] \/ p \in B))}

\* The first row of a table has its highest severity.
LEMMA FirstRow ==
  ASSUME NEW S, IsFiniteSet(S), NEW f, \A x \in S : f[x] \in Int,
         NEW B, \A x \in S : <<x, x>> \notin B,
         \A x, y \in S : x # y => <<x, y>> \in B \/ <<y, x>> \in B,
         \A x, y \in S : <<x, y>> \in B => <<y, x>> \notin B,
         \A x, y, z \in S : <<x, y>> \in B /\ <<y, z>> \in B => <<x, z>> \in B,
         NEW x \in S
  PROVE  Ordered(S, RowOrder(S, f, B))[1] \in S /\ f[x] <= f[Ordered(S, RowOrder(S, f, B))[1]]
<1> DEFINE R == RowOrder(S, f, B)
           o == Ordered(S, R)
           c == Cardinality(S)
<1>1. \A p, q \in S :
        <<p, q>> \in R <=> f[p] > f[q] \/ (f[p] = f[q] /\ (p = q \/ <<p, q>> \in B))
  BY DEF RowOrder
<1> HIDE DEF R
<1>2. IsTotalOrder(R, S)
  <2>1. \A p \in S : <<p, p>> \in R
    BY <1>1
  <2>2. \A p, q \in S : <<p, q>> \in R /\ <<q, p>> \in R => p = q
    BY <1>1
  <2>3. \A p, q, r \in S : <<p, q>> \in R /\ <<q, r>> \in R => <<p, r>> \in R
    BY <1>1
  <2>4. ASSUME NEW p \in S, NEW q \in S PROVE <<p, q>> \in R \/ <<q, p>> \in R
    <3>1. f[p] > f[q] \/ f[p] < f[q] \/ f[p] = f[q]
      OBVIOUS
    <3> QED
      BY <1>1, <3>1
  <2> QED
    BY <2>1, <2>2, <2>3, <2>4 DEF IsTotalOrder
<1>3. /\ o \in [1..c -> S]
      /\ \A y \in S : \E k \in 1..c : o[k] = y
      /\ \A i, j \in 1..c : i < j => <<o[i], o[j]>> \in R /\ o[i] # o[j]
  BY <1>2, OrderedEnumerates
<1>4. c \in Nat
  BY FS_CardinalityType
<1> HIDE DEF o, c
<1>5. PICK k \in 1..c : o[k] = x
  BY <1>3
<1>6. 1 \in 1..c /\ o[1] \in S
  BY <1>3, <1>4, <1>5
<1>7. k = 1 \/ <<o[1], o[k]>> \in R
  BY <1>3, <1>4, <1>5, <1>6
<1>8. f[x] <= f[o[1]]
  BY <1>1, <1>5, <1>6, <1>7
<1> QED
  BY <1>6, <1>8 DEF o, R

\* The first task and the first handoff of the report are as severe as any.
LEMMA ReportFacts ==
  ASSUME Given
  PROVE  /\ \A t \in Drifted : /\ Report.tasks[1] \in Drifted
                               /\ drift[t] <= drift[Report.tasks[1]]
         /\ \A e \in DriftedEdges : /\ Report.handoffs[1] \in DriftedEdges
                                    /\ handoff[e] <= handoff[Report.handoffs[1]]
<1>1. ASSUME NEW t \in Drifted
      PROVE  Report.tasks[1] \in Drifted /\ drift[t] <= drift[Report.tasks[1]]
  <2> DEFINE B == {p \in Drifted \X Drifted : p[1] < p[2]}
  <2>1. Report.tasks = Ordered(Drifted, RowOrder(Drifted, drift, B))
    BY DEF Report, Rows, RowOrder
  <2>2. \A x, y \in Drifted : <<x, y>> \in B <=> x < y
    OBVIOUS
  <2>3. \A x \in Drifted : x \in Int
    BY GivenFacts, TaskFacts
  <2> HIDE DEF B
  <2>4. /\ \A x \in Drifted : <<x, x>> \notin B
        /\ \A x, y \in Drifted : x # y => <<x, y>> \in B \/ <<y, x>> \in B
        /\ \A x, y \in Drifted : <<x, y>> \in B => <<y, x>> \notin B
        /\ \A x, y, z \in Drifted : <<x, y>> \in B /\ <<y, z>> \in B => <<x, z>> \in B
    BY <2>2, <2>3
  <2>5. IsFiniteSet(Drifted) /\ \A x \in Drifted : drift[x] \in Int
    BY GivenFacts
  <2> QED
    BY <2>1, <2>4, <2>5, FirstRow
<1>2. ASSUME NEW e \in DriftedEdges
      PROVE  Report.handoffs[1] \in DriftedEdges /\ handoff[e] <= handoff[Report.handoffs[1]]
  <2> DEFINE B == {p \in DriftedEdges \X DriftedEdges : EdgeBefore(p[1], p[2])}
  <2>1. Report.handoffs = Ordered(DriftedEdges, RowOrder(DriftedEdges, handoff, B))
    BY DEF Report, Rows, RowOrder
  <2>2. \A x, y \in DriftedEdges :
          <<x, y>> \in B <=> x[1] < y[1] \/ (x[1] = y[1] /\ x[2] < y[2])
    BY DEF EdgeBefore
  <2>3. \A x \in DriftedEdges : x[1] \in Int /\ x[2] \in Int /\ x = <<x[1], x[2]>>
    <3>1. \A x \in DriftedEdges : x[1] \in Tasks /\ x[2] \in Tasks /\ x = <<x[1], x[2]>>
      BY DEF DriftedEdges, Edges
    <3> QED
      BY <3>1, TaskFacts
  <2> HIDE DEF B
  <2>4. /\ \A x \in DriftedEdges : <<x, x>> \notin B
        /\ \A x, y \in DriftedEdges : <<x, y>> \in B => <<y, x>> \notin B
        /\ \A x, y, z \in DriftedEdges : <<x, y>> \in B /\ <<y, z>> \in B => <<x, z>> \in B
    BY <2>2, <2>3
  <2>5. ASSUME NEW x \in DriftedEdges, NEW y \in DriftedEdges, x # y
        PROVE  <<x, y>> \in B \/ <<y, x>> \in B
    <3>1. x[1] # y[1] \/ x[2] # y[2]
      BY <2>3, <2>5
    <3>2. x[1] \in Int /\ x[2] \in Int /\ y[1] \in Int /\ y[2] \in Int
      BY <2>3
    <3> QED
      BY <2>2, <3>1, <3>2
  <2>6. IsFiniteSet(DriftedEdges) /\ \A x \in DriftedEdges : handoff[x] \in Int
    BY GivenFacts
  <2> QED
    BY <2>1, <2>4, <2>5, <2>6, FirstRow
<1> QED
  BY <1>1, <1>2

\* A task without a sample was dropped, and the count says so.
LEMMA SampleFacts ==
  ASSUME Given
  PROVE  /\ Sampled \subseteq Drifted
         /\ Sampled # Drifted => Dropped > 0
<1>1. IsFiniteSet(Drifted) /\ Sampled \subseteq Drifted
  BY GivenFacts DEF Sampled
<1>2. IsFiniteSet(Sampled) /\ Cardinality(Sampled) <= Cardinality(Drifted)
  BY <1>1, FS_Subset
<1>3. Cardinality(Sampled) = Cardinality(Drifted) => Sampled = Drifted
  BY <1>1, FS_Subset
<1>4. Cardinality(Sampled) \in Nat /\ Cardinality(Drifted) \in Nat
  BY <1>1, <1>2, FS_CardinalityType
<1> QED
  BY <1>1, <1>2, <1>3, <1>4 DEF Dropped

\* A critical drift cannot go unnoticed: of a task or a handoff alike it raises the
\* DAG's alert, of a task its own alert or the one of dropped tasks, and it leads
\* its table.  Nothing else raises the DAG's alert.
THEOREM CriticalShows == PublishSpec => []CriticalIsVisible
<1>1. ASSUME ResultIInv PROVE CriticalIsVisible
  <2> SUFFICES ASSUME Published PROVE CriticalIsVisible
    BY DEF CriticalIsVisible
  <2>1. Given /\ report = Report /\ samples = Samples
    BY <1>1 DEF ResultIInv, IsPublished, Published
  <2>2. /\ samples.overall = Overall /\ samples.dropped = Dropped
        /\ samples.severity = [t \in Sampled |-> drift[t]]
    BY <2>1 DEF Samples
  <2>3. \A t \in Tasks : drift[t] = 3 => t \in Drifted
    BY <2>1, GivenFacts
  <2>4. CriticalDAG = \/ \E t \in Tasks : drift[t] = Critical
                      \/ \E e \in Edges : handoff[e] = Critical
    <3>1. CriticalDAG <=> Overall = 3
      BY <2>1, <2>2, OverallFacts DEF CriticalDAG, Critical
    <3>2. Overall = 3 <=> \/ \E t \in Tasks : drift[t] = 3
                          \/ \E e \in Edges : handoff[e] = 3
      BY <2>1, <2>3, OverallFacts, GivenFacts
    <3>3. CriticalDAG \in BOOLEAN
      BY DEF CriticalDAG
    <3>4. Critical = 3
      BY DEF Critical
    <3> HIDE DEF CriticalDAG
    <3> QED
      BY <3>1, <3>2, <3>3, <3>4
  <2>5. ASSUME NEW t \in Tasks, drift[t] = Critical
        PROVE  /\ t \in CriticalTasks \/ TaskMetricsDropped
               /\ drift[report.tasks[1]] = Critical
    <3>1. t \in Drifted /\ drift[t] = 3
      BY <2>3, <2>5 DEF Critical
    <3>2. drift[report.tasks[1]] = 3
      BY <2>1, <3>1, ReportFacts, GivenFacts
    <3>3. t \in Sampled => t \in CriticalTasks
      BY <2>2, <3>1 DEF CriticalTasks, Critical
    <3>4. t \notin Sampled => TaskMetricsDropped
      BY <2>1, <2>2, <3>1, SampleFacts DEF TaskMetricsDropped
    <3> QED
      BY <3>2, <3>3, <3>4 DEF Critical
  <2>6. ASSUME NEW e \in Edges, handoff[e] = Critical
        PROVE  handoff[report.handoffs[1]] = Critical
    BY <2>1, <2>6, ReportFacts, GivenFacts DEF Critical
  <2> QED
    BY <2>4, <2>5, <2>6 DEF CriticalIsVisible
<1> QED
  BY <1>1, AlwaysResults, PTL

-------------------------------------------------------------------------------
(* The searches.  A graph without cycles has first and last tasks, by which the *)
(* searches are shown to have an answer, and only one.                          *)

\* The tasks are numbered along the dependencies.
Numbering(number) ==
  /\ number \in [Tasks -> 1..Cardinality(Tasks)]
  /\ \A t \in Tasks : \A n \in dependencies[t] : number[t] < number[n]

\* A graph without cycles has such a numbering.
LEMMA HasNumbering ==
  ASSUME Given
  PROVE  \E number : Numbering(number)
BY AcyclicAssumption DEF Given, Numbering

\* Of some tasks, there is one that none of them feeds, and one that feeds none.
LEMMA HasFirstAndLast ==
  ASSUME Given, NEW S \in SUBSET Tasks, S # {}
  PROVE  /\ \E t \in S : \A u \in S : t \notin dependencies[u]
         /\ \E t \in S : \A n \in S : n \notin dependencies[t]
<1>1. PICK number : Numbering(number)
  BY HasNumbering
<1>2. \A t \in Tasks : number[t] \in Int
  <2>1. Cardinality(Tasks) \in Nat
    BY TaskFacts, FS_CardinalityType
  <2> QED
    BY <1>1, <2>1 DEF Numbering
<1> DEFINE N == {number[t] : t \in S}
<1>3. IsFiniteSet(S)
  BY TaskFacts, FS_Subset
<1>4. IsFiniteSet(N)
  BY <1>3, ImageIsFinite
<1>5. N \in SUBSET Int /\ N # {}
  BY <1>2
<1>6. /\ \E n \in N : \A m \in N : n <= m
      /\ \E n \in N : \A m \in N : m <= n
  <2> HIDE DEF N
  <2> QED
    BY <1>4, <1>5, HasExtremes
<1>7. \E t \in S : \A u \in S : number[t] <= number[u]
  BY <1>6
<1>8. \E t \in S : \A u \in S : number[u] <= number[t]
  BY <1>6
<1>9. \A t \in S, u \in S : t \in dependencies[u] => number[u] < number[t]
  BY <1>1 DEF Numbering
<1>10. \A t \in S : number[t] \in Int
  BY <1>2
<1> QED
  BY <1>7, <1>8, <1>9, <1>10

\* The candidates are the drifting tasks, and one is upstream of a task exactly when
\* a drifting task feeds it.
LEMMA CandidateFacts ==
  ASSUME Given, impact = Impacts
  PROVE  /\ Candidates = {t \in Tasks : Drifting(t)}
         /\ \A t \in Tasks : HasCandidateUpstream(t) <=> \E u \in Upstream(t) : Drifting(u)
<1>1. \A t \in Tasks : Drifting(t) => t \in Drifted
  BY GivenFacts DEF Drifting, Normal
<1>2. \A t \in Tasks : Classification(t) \in {"OWN_DRIFT", "COMBINED"} <=> Drifting(t)
  BY DEF Classification
<1>3. \A t \in Tasks : impact[t] = IF t \in Drifted THEN Classification(t) ELSE "unknown"
  BY DEF Impacts
<1>4. \A t \in Tasks : t \in Candidates <=> Drifting(t)
  BY <1>1, <1>2, <1>3 DEF Candidates
<1>5. Candidates = {t \in Tasks : Drifting(t)}
  BY <1>4 DEF Candidates
<1> DEFINE g == [visited \in SUBSET Tasks |->
                   {s \in Tasks \ visited : \E u \in Upstream(s) : Drifting(u)}]
<1>6. \A s : Upstream(s) \subseteq Tasks
  BY DEF Upstream
<1>7. ASSUME NEW f, NEW s, NEW visited
      PROVE  (\E u \in Upstream(s) : /\ Drifting(u)
                                     /\ u \in Candidates \/ u \in f[visited \cup {s}])
               <=> \E u \in Upstream(s) : Drifting(u)
  <2>1. \A u \in Upstream(s) : Drifting(u) => u \in Candidates
    BY <1>4, <1>6
  <2> QED
    BY <2>1
<1>8. \A f : CandidateSearch(f) <=> f = g
  BY <1>7 DEF CandidateSearch
<1>9. (CHOOSE f : CandidateSearch(f)) = g
  BY <1>8
<1>10. \A t \in Tasks : HasCandidateUpstream(t) <=> t \in g[{}]
  BY <1>9, Searches
<1> QED
  BY <1>5, <1>10

\* What holds of 0 and passes on, holds up to any number.
LEMMA UpTo ==
  ASSUME NEW c \in Nat, NEW K, 0 \in K, \A k \in 0..c - 1 : k \in K => k + 1 \in K
  PROVE  c \in K
<1> SUFFICES ASSUME c \notin K PROVE FALSE
  OBVIOUS
<1> DEFINE M == {k \in 0..c : k \notin K}
<1>1. c \in M /\ M \in SUBSET Int
  OBVIOUS
<1>2. IsFiniteSet(M)
  <2>1. IsFiniteSet(0..c)
    BY FS_Interval
  <2> QED
    BY <2>1, FS_Subset
<1>3. PICK m \in M : \A k \in M : m <= k
  <2> HIDE DEF M
  <2> QED
    BY <1>1, <1>2, HasExtremes
<1>4. m \in 1..c /\ m - 1 \in 0..c - 1
  OBVIOUS
<1>5. m - 1 \in K
  BY <1>3, <1>4
<1>6. (m - 1) + 1 = m
  BY <1>4
<1> QED
  BY <1>4, <1>5, <1>6

\* The ways on from t by its downstream task n, and by any of them, when f answers
\* for the tasks further down.
Ways(f, visited, n) ==
  IF f[visited \cup {n}][n] = {} THEN {<<n>>}
  ELSE {<<n>> \o p : p \in f[visited \cup {n}][n]}

\* The drifting tasks next to t that are not yet on the path.
Further(visited, t) == {m \in dependencies[t] \ visited : Drifting(m)}

\* All ways on from t.
Onward(f, visited, t) == UNION {Ways(f, visited, n) : n \in Further(visited, t)}

\* The search for paths in these words.
LEMMA PathSearchIs ==
  \A f : PathSearch(f) <=>
           f = [visited \in SUBSET Tasks |-> [t \in Tasks |-> Onward(f, visited, t)]]
BY DEF PathSearch, Onward, Ways, Further

\* The search from t asks only for tasks downstream of t.
LEMMA OnwardIsLocal ==
  ASSUME Given, NEW f, NEW g, NEW visited \in SUBSET Tasks, NEW t \in Tasks,
         \A V \in SUBSET Tasks : \A n \in dependencies[t] : f[V][n] = g[V][n]
  PROVE  Onward(f, visited, t) = Onward(g, visited, t)
<1>1. dependencies[t] \subseteq Tasks
  BY GivenFacts
<1>2. \A n \in Further(visited, t) : n \in dependencies[t] /\ visited \cup {n} \in SUBSET Tasks
  BY <1>1 DEF Further
<1>3. \A n \in Further(visited, t) : Ways(f, visited, n) = Ways(g, visited, n)
  BY <1>2 DEF Ways
<1> QED
  BY <1>3 DEF Onward

\* The search for paths has an answer: the last tasks have one, and so on up.
LEMMA PathSearchEnds ==
  ASSUME Given
  PROVE  PathSearch(CHOOSE f : PathSearch(f))
<1>1. PICK number : Numbering(number)
  BY HasNumbering
<1> DEFINE c == Cardinality(Tasks)
<1>2. c \in Nat /\ \A t \in Tasks : number[t] \in 1..c
  BY <1>1, TaskFacts, FS_CardinalityType DEF Numbering
<1>3. \A t \in Tasks : dependencies[t] \subseteq Tasks
  BY GivenFacts
<1>4. \A t \in Tasks : \A n \in dependencies[t] : number[t] < number[n]
  BY <1>1 DEF Numbering
<1> DEFINE Solves(f, k) ==
             \A V \in SUBSET Tasks : \A t \in Tasks :
               number[t] > c - k => f[V][t] = Onward(f, V, t)
           K == {k \in Nat : \E f : Solves(f, k)}
<1>5. 0 \in K
  BY <1>2
<1>6. ASSUME NEW k \in 0..c - 1, k \in K PROVE k + 1 \in K
  <2>1. PICK f : Solves(f, k)
    BY <1>6
  <2> DEFINE g == [V \in SUBSET Tasks |->
                     [t \in Tasks |-> IF number[t] > c - k THEN f[V][t] ELSE Onward(f, V, t)]]
  <2>2. ASSUME NEW V \in SUBSET Tasks, NEW t \in Tasks, number[t] > c - (k + 1)
        PROVE  g[V][t] = Onward(g, V, t)
    <3>1. g[V][t] = Onward(f, V, t)
      BY <2>1
    <3>2. number[t] >= c - k
      BY <1>2, <2>2
    <3>3. \A n \in dependencies[t] : n \in Tasks /\ number[n] > c - k
      BY <1>2, <1>3, <1>4, <3>2
    <3>4. \A W \in SUBSET Tasks : \A n \in dependencies[t] : f[W][n] = g[W][n]
      BY <3>3
    <3> HIDE DEF g
    <3>5. Onward(f, V, t) = Onward(g, V, t)
      BY <3>4, OnwardIsLocal
    <3> QED
      BY <3>1, <3>5
  <2> HIDE DEF g
  <2>3. Solves(g, k + 1)
    BY <2>2
  <2> QED
    BY <2>3
<1>7. c \in K
  <2> HIDE DEF K, c
  <2> QED
    BY <1>2, <1>5, <1>6, UpTo
<1>8. PICK f : Solves(f, c)
  BY <1>7
<1> DEFINE h == [V \in SUBSET Tasks |-> [t \in Tasks |-> f[V][t]]]
<1>9. \A V \in SUBSET Tasks : \A t \in Tasks : h[V][t] = f[V][t] /\ f[V][t] = Onward(f, V, t)
  BY <1>2, <1>8
<1>10. \A V \in SUBSET Tasks : \A t \in Tasks : Onward(f, V, t) = Onward(h, V, t)
  <2> SUFFICES ASSUME NEW V \in SUBSET Tasks, NEW t \in Tasks
               PROVE  Onward(f, V, t) = Onward(h, V, t)
    OBVIOUS
  <2>1. \A W \in SUBSET Tasks : \A n \in dependencies[t] : f[W][n] = h[W][n]
    BY <1>3
  <2> HIDE DEF h
  <2> QED
    BY <2>1, OnwardIsLocal
<1>11. h = [V \in SUBSET Tasks |-> [t \in Tasks |-> Onward(h, V, t)]]
  <2>1. h = [V \in SUBSET Tasks |-> [t \in Tasks |-> f[V][t]]]
    OBVIOUS
  <2> HIDE DEF h
  <2>2. \A V \in SUBSET Tasks : \A t \in Tasks : f[V][t] = Onward(h, V, t)
    BY <1>9, <1>10
  <2>3. \A V \in SUBSET Tasks :
          [t \in Tasks |-> f[V][t]] = [t \in Tasks |-> Onward(h, V, t)]
    BY <2>2
  <2>4. [V \in SUBSET Tasks |-> [t \in Tasks |-> f[V][t]]]
          = [V \in SUBSET Tasks |-> [t \in Tasks |-> Onward(h, V, t)]]
    BY <2>3
  <2> QED
    BY <2>1, <2>4
<1>12. PathSearch(h)
  <2> HIDE DEF h
  <2> QED
    BY <1>11, PathSearchIs
<1> HIDE DEF h
<1> QED
  BY <1>12

-------------------------------------------------------------------------------
(* The paths are all chains of drifting tasks that cannot be continued.    *)

\* The tasks a delay goes on to from t.
Hops(t) == {n \in dependencies[t] : Drifting(n)}

\* The chains of hops from n that end where there is no hop.
Chains(n) ==
  {p \in Seq(Tasks) : /\ Len(p) >= 1 /\ p[1] = n
                      /\ \A i \in 1..Len(p) - 1 : p[i + 1] \in Hops(p[i])
                      /\ Hops(p[Len(p)]) = {}}

\* A task put before a sequence.
LEMMA Prepended ==
  ASSUME NEW n \in Tasks, NEW q \in Seq(Tasks)
  PROVE  /\ <<n>> \o q \in Seq(Tasks) /\ Len(<<n>> \o q) = Len(q) + 1 /\ Len(q) \in Nat
         /\ (<<n>> \o q)[1] = n
         /\ \A i \in 1..Len(q) : (<<n>> \o q)[i + 1] = q[i]
<1>1. <<n>> \in Seq(Tasks) /\ Len(<<n>>) = 1 /\ <<n>>[1] = n
  OBVIOUS
<1>2. Len(q) \in Nat
  OBVIOUS
<1> QED
  BY <1>1, <1>2

\* A chain is a task alone or a task before a chain from one it hops to.
LEMMA ChainsUnfold ==
  ASSUME Given, NEW n \in Tasks
  PROVE  Chains(n) = IF Hops(n) = {} THEN {<<n>>}
                     ELSE UNION {{<<n>> \o q : q \in Chains(m)} : m \in Hops(n)}
<1>1. Hops(n) \subseteq Tasks
  BY GivenFacts DEF Hops
<1>2. CASE Hops(n) = {}
  <2>1. ASSUME NEW p \in Chains(n) PROVE p = <<n>>
    <3>1. p \in Seq(Tasks) /\ Len(p) \in Nat /\ Len(p) >= 1 /\ p[1] = n
      BY <2>1 DEF Chains
    <3>2. \A i \in 1..Len(p) - 1 : p[i + 1] \in Hops(p[i])
      BY <2>1 DEF Chains
    <3>3. Len(p) > 1 => p[1 + 1] \in Hops(p[1])
      BY <3>1, <3>2
    <3>4. Hops(p[1]) = {}
      BY <1>2, <3>1, Zenon
    <3>5. ~(Len(p) > 1)
      BY <3>3, <3>4, Zenon
    <3>6. Len(p) = 1
      BY <3>1, <3>5
    <3> QED
      BY <3>1, <3>6
  <2>2. <<n>> \in Chains(n)
    BY <1>2 DEF Chains
  <2> QED
    BY <1>2, <2>1, <2>2
<1>3. CASE Hops(n) # {}
  <2>1. ASSUME NEW p \in Chains(n)
        PROVE  \E m \in Hops(n) : \E q \in Chains(m) : p = <<n>> \o q
    <3>1. /\ p \in Seq(Tasks) /\ Len(p) \in Nat /\ Len(p) >= 1 /\ p[1] = n
          /\ \A i \in 1..Len(p) - 1 : p[i + 1] \in Hops(p[i])
          /\ Hops(p[Len(p)]) = {}
      BY <2>1 DEF Chains
    <3>2. Len(p) >= 2
      BY <1>3, <3>1
    <3> DEFINE q == Tail(p)
    <3>3. /\ q \in Seq(Tasks) /\ Len(q) = Len(p) - 1
          /\ \A i \in 1..Len(q) : q[i] = p[i + 1]
      BY <3>1, <3>2
    <3> HIDE DEF q
    <3>4. q[1] = p[2] /\ q[1] \in Hops(n)
      <4>1. 1 \in 1..Len(p) - 1 /\ 1 + 1 = 2 /\ 1 \in 1..Len(q)
        BY <3>1, <3>2, <3>3
      <4> QED
        BY <3>1, <3>3, <4>1
    <3>5. q \in Chains(q[1])
      <4>1. \A i \in 1..Len(q) - 1 : q[i + 1] \in Hops(q[i])
        BY <3>1, <3>3
      <4>2. q[Len(q)] = p[Len(p)]
        BY <3>1, <3>2, <3>3
      <4> QED
        BY <3>1, <3>2, <3>3, <4>1, <4>2 DEF Chains
    <3>6. p = <<n>> \o q
      <4>1. /\ <<n>> \o q \in Seq(Tasks) /\ Len(<<n>> \o q) = Len(p)
            /\ (<<n>> \o q)[1] = n
            /\ \A i \in 1..Len(q) : (<<n>> \o q)[i + 1] = q[i]
        BY <3>1, <3>3, Prepended
      <4>2. \A i \in 1..Len(p) : i = 1 \/ (i - 1 \in 1..Len(q) /\ (i - 1) + 1 = i)
        BY <3>1, <3>3
      <4>3. \A i \in 1..Len(p) : (<<n>> \o q)[i] = p[i]
        BY <3>1, <3>3, <4>1, <4>2
      <4> QED
        BY <3>1, <4>1, <4>3
    <3> QED
      BY <3>4, <3>5, <3>6
  <2>2. ASSUME NEW m \in Hops(n), NEW q \in Chains(m)
        PROVE  <<n>> \o q \in Chains(n)
    <3>1. /\ q \in Seq(Tasks) /\ Len(q) \in Nat /\ Len(q) >= 1 /\ q[1] = m
          /\ \A i \in 1..Len(q) - 1 : q[i + 1] \in Hops(q[i])
          /\ Hops(q[Len(q)]) = {}
      BY <2>2 DEF Chains
    <3> DEFINE p == <<n>> \o q
    <3>2. /\ p \in Seq(Tasks) /\ Len(p) = Len(q) + 1 /\ p[1] = n
          /\ \A i \in 1..Len(q) : p[i + 1] = q[i]
      BY <3>1, Prepended
    <3> HIDE DEF p
    <3>3. ASSUME NEW i \in 1..Len(p) - 1 PROVE p[i + 1] \in Hops(p[i])
      <4>1. i \in 1..Len(q) /\ p[i + 1] = q[i]
        BY <3>1, <3>2
      <4>2. CASE i = 1
        BY <2>2, <3>1, <3>2, <4>1, <4>2
      <4>3. CASE i # 1
        <5>1. i - 1 \in 1..Len(q) - 1 /\ i - 1 \in 1..Len(q) /\ (i - 1) + 1 = i
          BY <3>1, <4>1, <4>3
        <5>2. p[i] = q[i - 1] /\ q[i] \in Hops(q[i - 1])
          BY <3>1, <3>2, <5>1
        <5> QED
          BY <4>1, <5>2
      <4> QED
        BY <4>2, <4>3
    <3>4. p[Len(p)] = q[Len(q)]
      BY <3>1, <3>2
    <3>5. p \in Chains(n)
      BY <3>1, <3>2, <3>3, <3>4 DEF Chains
    <3> QED
      BY <3>5 DEF p
  <2>3. Chains(n) = UNION {{<<n>> \o q : q \in Chains(m)} : m \in Hops(n)}
    <3> DEFINE U == UNION {{<<n>> \o q : q \in Chains(m)} : m \in Hops(n)}
    <3>1. \A p : p \in U <=> \E m \in Hops(n) : \E q \in Chains(m) : p = <<n>> \o q
      OBVIOUS
    <3> HIDE DEF U
    <3>2. \A p : p \in U <=> p \in Chains(n)
      BY <2>1, <2>2, <3>1, Zenon
    <3>3. U = Chains(n)
      BY <3>2
    <3> QED
      BY <3>3 DEF U
  <2> QED
    BY <1>3, <2>3
<1> QED
  BY <1>2, <1>3

\* From every task there is a chain, and there are finitely many.
LEMMA ChainsFinite ==
  ASSUME Given, NEW n \in Tasks
  PROVE  Chains(n) # {} /\ IsFiniteSet(Chains(n))
<1> DEFINE S == {t \in Tasks : ~(Chains(t) # {} /\ IsFiniteSet(Chains(t)))}
<1> SUFFICES ASSUME S # {} PROVE FALSE
  OBVIOUS
<1>1. PICK t \in S : \A m \in S : m \notin dependencies[t]
  <2> HIDE DEF S
  <2>1. S \subseteq Tasks
    BY DEF S
  <2> QED
    BY <2>1, HasFirstAndLast
<1>2. t \in Tasks /\ Hops(t) \subseteq Tasks
  BY GivenFacts DEF Hops
<1>3. \A m \in Hops(t) : Chains(m) # {} /\ IsFiniteSet(Chains(m))
  BY <1>1, <1>2 DEF Hops
<1>4. CASE Hops(t) = {}
  <2>1. Chains(t) = {<<t>>}
    BY <1>2, <1>4, ChainsUnfold
  <2> QED
    BY <2>1, FS_Singleton
<1>5. CASE Hops(t) # {}
  <2> DEFINE longer == [m \in Hops(t) |-> {<<t>> \o q : q \in Chains(m)}]
  <2>1. Chains(t) = UNION {{<<t>> \o q : q \in Chains(m)} : m \in Hops(t)}
    BY <1>2, <1>5, ChainsUnfold
  <2>2. Chains(t) = UNION {longer[m] : m \in Hops(t)}
    BY <2>1
  <2>3. ASSUME NEW m \in Hops(t) PROVE IsFiniteSet(longer[m])
    <3> DEFINE put == [q \in Chains(m) |-> <<t>> \o q]
    <3>1. longer[m] = {put[q] : q \in Chains(m)}
      OBVIOUS
    <3> HIDE DEF put, longer
    <3>2. IsFiniteSet({put[q] : q \in Chains(m)})
      BY <1>3, ImageIsFinite
    <3> QED
      BY <3>1, <3>2
  <2>4. IsFiniteSet(Hops(t))
    BY <1>2, TaskFacts, FS_Subset
  <2>5. Chains(t) # {}
    <3>1. PICK m \in Hops(t) : TRUE
      BY <1>5
    <3>2. PICK q \in Chains(m) : TRUE
      BY <1>3, <3>1
    <3>3. <<t>> \o q \in {<<t>> \o r : r \in Chains(m)}
      OBVIOUS
    <3> QED
      BY <2>1, <3>1, <3>3
  <2> HIDE DEF longer
  <2>6. IsFiniteSet({longer[m] : m \in Hops(t)})
    BY <2>4, ImageIsFinite
  <2>7. IsFiniteSet(UNION {longer[m] : m \in Hops(t)})
    BY <2>3, <2>6, FS_UNION
  <2> QED
    BY <2>2, <2>5, <2>7
<1> QED
  BY <1>4, <1>5

\* What the search finds from a task, with only tasks before it visited, are the
\* chains from it.
LEMMA WaysAreChains ==
  ASSUME Given, NEW number, Numbering(number), NEW f, PathSearch(f),
         NEW n \in Tasks, NEW V \in SUBSET Tasks, \A v \in V : number[v] < number[n]
  PROVE  Ways(f, V, n) = Chains(n)
<1> DEFINE Behind(W, t) == \A v \in W : number[v] < number[t]
           S == {t \in Tasks : \E W \in SUBSET Tasks : Behind(W, t) /\ Ways(f, W, t) # Chains(t)}
<1> SUFFICES ASSUME S # {} PROVE FALSE
  OBVIOUS
<1>1. PICK t \in S : \A m \in S : m \notin dependencies[t]
  <2> HIDE DEF S
  <2>1. S \subseteq Tasks
    BY DEF S
  <2> QED
    BY <2>1, HasFirstAndLast
<1>2. PICK W \in SUBSET Tasks : Behind(W, t) /\ Ways(f, W, t) # Chains(t)
  BY <1>1
<1>3. t \in Tasks /\ Hops(t) \subseteq Tasks
  BY GivenFacts DEF Hops
<1>4. \A m \in Hops(t) : number[t] < number[m]
  BY <1>3 DEF Hops, Numbering
<1>5. \A v \in Tasks : number[v] \in Int
  <2>1. Cardinality(Tasks) \in Nat
    BY TaskFacts, FS_CardinalityType
  <2> QED
    BY <2>1 DEF Numbering
<1> DEFINE U == W \cup {t}
<1>6. U \in SUBSET Tasks /\ \A m \in Hops(t) : Behind(U, m)
  BY <1>2, <1>3, <1>4, <1>5
<1>7. Further(U, t) = Hops(t)
  <2>1. \A m \in Hops(t) : m \notin U
    BY <1>3, <1>5, <1>6
  <2> HIDE DEF U
  <2> QED
    BY <2>1 DEF Further, Hops
<1>8. \A m \in Hops(t) : Ways(f, U, m) = Chains(m)
  <2> SUFFICES ASSUME NEW m \in Hops(t) PROVE Ways(f, U, m) = Chains(m)
    OBVIOUS
  <2>1. m \notin S /\ m \in Tasks
    BY <1>1, <1>3 DEF Hops
  <2> HIDE DEF U
  <2> QED
    BY <1>6, <2>1
<1> HIDE DEF U, S
<1>9. f[U][t] = UNION {Chains(m) : m \in Hops(t)}
  <2>1. f = [visited \in SUBSET Tasks |-> [s \in Tasks |-> Onward(f, visited, s)]]
    BY PathSearchIs
  <2>2. f[U][t] = Onward(f, U, t)
    BY <1>3, <1>6, <2>1
  <2> QED
    BY <1>7, <1>8, <2>2 DEF Onward
<1>10. f[U][t] = {} <=> Hops(t) = {}
  <2>1. \A m \in Hops(t) : Chains(m) # {}
    BY <1>3, ChainsFinite
  <2> QED
    BY <1>9, <2>1
<1>11. {<<t>> \o q : q \in f[U][t]} = UNION {{<<t>> \o q : q \in Chains(m)} : m \in Hops(t)}
  <2> DEFINE X == {<<t>> \o q : q \in f[U][t]}
             Y == UNION {{<<t>> \o q : q \in Chains(m)} : m \in Hops(t)}
  <2>1. \A q : q \in f[U][t] <=> \E m \in Hops(t) : q \in Chains(m)
    BY <1>9
  <2>2. \A p : p \in X <=> \E q \in f[U][t] : p = <<t>> \o q
    OBVIOUS
  <2>3. \A p : p \in Y <=> \E m \in Hops(t) : \E q \in Chains(m) : p = <<t>> \o q
    OBVIOUS
  <2> HIDE DEF X, Y
  <2>4. \A p : p \in X <=> p \in Y
    BY <2>1, <2>2, <2>3, Zenon
  <2>5. X = Y
    BY <2>4
  <2> QED
    BY <2>5 DEF X, Y
<1>12. Ways(f, W, t) = Chains(t)
  BY <1>3, <1>10, <1>11, ChainsUnfold DEF Ways, U
<1> QED
  BY <1>2, <1>12

\* The paths from a task are all the chains of hops from it that cannot be
\* continued; a task without a hop has none.
LEMMA PathsFromFacts ==
  ASSUME Given, NEW o \in Tasks
  PROVE  PathsFrom(o) = IF Hops(o) = {} THEN {} ELSE Chains(o)
<1> DEFINE f == CHOOSE g : PathSearch(g)
<1>1. PathSearch(f)
  BY PathSearchEnds
<1>2. PathsFrom(o) = {<<o>> \o p : p \in f[{o}][o]}
  BY Searches
<1> HIDE DEF f
<1>3. PICK number : Numbering(number)
  BY HasNumbering
<1>4. Ways(f, {}, o) = Chains(o)
  BY <1>1, <1>3, WaysAreChains
<1>5. Ways(f, {}, o) = IF f[{o}][o] = {} THEN {<<o>>} ELSE {<<o>> \o p : p \in f[{o}][o]}
  <2>1. {} \cup {o} = {o}
    OBVIOUS
  <2> QED
    BY <2>1 DEF Ways
<1>6. f[{o}][o] = {} => Hops(o) = {}
  <2> SUFFICES ASSUME f[{o}][o] = {}, NEW m \in Hops(o) PROVE FALSE
    OBVIOUS
  <2>1. Chains(o) = {<<o>>}
    BY <1>4, <1>5
  <2>2. Hops(<<o>>[Len(<<o>>)]) = {}
    BY <2>1 DEF Chains
  <2>3. <<o>>[Len(<<o>>)] = o
    OBVIOUS
  <2> QED
    BY <2>2, <2>3
<1>7. Hops(o) = {} => f[{o}][o] = {}
  <2>1. f = [visited \in SUBSET Tasks |-> [s \in Tasks |-> Onward(f, visited, s)]]
    BY <1>1, PathSearchIs
  <2>2. f[{o}][o] = Onward(f, {o}, o)
    BY <2>1
  <2> QED
    BY <2>2 DEF Onward, Further, Hops
<1> QED
  BY <1>2, <1>4, <1>5, <1>6, <1>7

-------------------------------------------------------------------------------
(* PathsAreComplete.                                                       *)

\* The start of a sequence with another one after it.
LEMMA Joined ==
  ASSUME NEW p \in Seq(Tasks), NEW i \in 1..Len(p), NEW r \in Seq(Tasks), Len(r) >= 1
  PROVE  /\ SubSeq(p, 1, i) \o r \in Seq(Tasks)
         /\ Len(SubSeq(p, 1, i) \o r) = i + Len(r)
         /\ \A j \in 1..i : (SubSeq(p, 1, i) \o r)[j] = p[j]
         /\ \A j \in 1..Len(r) : (SubSeq(p, 1, i) \o r)[i + j] = r[j]
         /\ IsPrefix(SubSeq(p, 1, i) \o <<r[1]>>, SubSeq(p, 1, i) \o r)
<1> DEFINE s == SubSeq(p, 1, i)
           q == s \o r
           h == s \o <<r[1]>>
<1>1. Len(p) \in Nat /\ Len(r) \in Nat /\ i \in Nat /\ i >= 1 /\ i <= Len(p) /\ r[1] \in Tasks
  OBVIOUS
<1>2. s \in Seq(Tasks) /\ Len(s) = i /\ \A j \in 1..i : s[j] = p[j]
  BY <1>1
<1> HIDE DEF s
<1>3. /\ q \in Seq(Tasks) /\ Len(q) = i + Len(r)
      /\ \A j \in 1..i : q[j] = p[j]
      /\ \A j \in 1..Len(r) : q[i + j] = r[j]
  BY <1>1, <1>2, SMTT(30)
<1>4. /\ h \in Seq(Tasks) /\ Len(h) = i + 1
      /\ \A j \in 1..i : h[j] = p[j]
      /\ h[i + 1] = r[1]
  BY <1>1, <1>2
<1> HIDE DEF q, h
<1>5. IsPrefix(h, q)
  <2>1. \A j \in 1..i + 1 : h[j] = q[j]
    <3>1. \A j \in 1..i + 1 : j \in 1..i \/ j = i + 1
      BY <1>1
    <3>2. q[i + 1] = r[1]
      BY <1>1, <1>3
    <3> QED
      BY <1>3, <1>4, <3>1, <3>2
  <2>2. Len(h) <= Len(q) /\ DOMAIN h = 1..i + 1
    BY <1>1, <1>3, <1>4
  <2> QED
    BY <1>1, <1>3, <1>4, <2>1, <2>2 DEF IsPrefix
<1> QED
  BY <1>3, <1>5 DEF q, h, s

\* Along a chain of hops the numbers grow.
LEMMA NumbersGrow ==
  ASSUME Given, NEW number, Numbering(number), NEW p \in Seq(Tasks),
         \A i \in 1..Len(p) - 1 : p[i + 1] \in Hops(p[i]),
         NEW i \in 1..Len(p), NEW j \in 1..Len(p), i < j
  PROVE  number[p[i]] < number[p[j]]
<1>1. Len(p) \in Nat /\ i \in Nat /\ j \in Nat
  OBVIOUS
<1>2. \A t \in Tasks : number[t] \in Int
  <2>1. Cardinality(Tasks) \in Nat
    BY TaskFacts, FS_CardinalityType
  <2> QED
    BY <2>1 DEF Numbering
<1>3. \A k \in 1..Len(p) : p[k] \in Tasks /\ number[p[k]] \in Int
  BY <1>2
<1>4. \A k \in 1..Len(p) - 1 : number[p[k]] < number[p[k + 1]]
  <2>1. \A k \in 1..Len(p) - 1 : k \in 1..Len(p) /\ p[k + 1] \in dependencies[p[k]]
    BY <1>1 DEF Hops
  <2> QED
    BY <1>3, <2>1 DEF Numbering
<1> DEFINE K == {k \in Nat : number[p[i]] < number[p[i + 1 + k]]}
           c == j - i - 1
<1>5. c \in Nat /\ i + 1 + c = j
  BY <1>1
<1>6. 0 \in K
  <2>1. i \in 1..Len(p) - 1 /\ i + 1 + 0 = i + 1
    BY <1>1
  <2> QED
    BY <1>4, <2>1
<1>7. ASSUME NEW k \in 0..c - 1, k \in K PROVE k + 1 \in K
  <2>1. /\ i + 1 + k \in 1..Len(p) - 1 /\ i + 1 + k \in 1..Len(p) /\ i + 1 + k + 1 \in 1..Len(p)
        /\ i + 1 + (k + 1) = i + 1 + k + 1
    <3> DEFINE n == Len(p)
    <3>1. /\ n \in Nat /\ i \in Nat /\ i >= 1 /\ j \in Nat /\ j <= n
          /\ k \in Nat /\ k <= c - 1 /\ i + 1 + c = j /\ c \in Nat
      BY <1>1, <1>5, <1>7
    <3> HIDE DEF n, c, K
    <3> QED
      BY <3>1
  <2>2. number[p[i]] < number[p[i + 1 + k]] /\ number[p[i + 1 + k]] < number[p[i + 1 + k + 1]]
    BY <1>4, <1>7, <2>1
  <2>3. /\ number[p[i]] \in Int /\ number[p[i + 1 + k]] \in Int
        /\ number[p[i + 1 + k + 1]] \in Int
    BY <1>3, <2>1
  <2>4. number[p[i]] < number[p[i + 1 + k + 1]]
    <3> DEFINE x == number[p[i]]
               y == number[p[i + 1 + k]]
               z == number[p[i + 1 + k + 1]]
    <3>1. x \in Int /\ y \in Int /\ z \in Int /\ x < y /\ y < z
      BY <2>2, <2>3
    <3> HIDE DEF x, y, z
    <3>2. x < z
      BY <3>1
    <3> QED
      BY <3>2 DEF x, z
  <2> QED
    BY <2>1, <2>4
<1>8. c \in K
  <2> HIDE DEF K, c
  <2> QED
    BY <1>5, <1>6, <1>7, UpTo
<1> QED
  BY <1>5, <1>8

\* The paths are chains of drifting tasks from an origin, with at least one hop.
LEMMA PathFacts ==
  ASSUME Given, NEW p \in Propagation
  PROVE  /\ p \in Seq(Tasks) /\ Len(p) \in Nat /\ Len(p) >= 2
         /\ p[1] \in Origins /\ p \in Chains(p[1])
         /\ \A i \in 1..Len(p) - 1 : p[i + 1] \in Hops(p[i])
         /\ Hops(p[Len(p)]) = {}
         /\ \A i \in 1..Len(p) : p[i] \in Tasks /\ Drifting(p[i])
<1>1. PICK o \in Origins : p \in PathsFrom(o)
  BY DEF Propagation
<1>2. o \in Tasks /\ Drifting(o)
  BY DEF Origins, Strong, Drifting, High, Critical, Normal
<1>3. Hops(o) # {} /\ p \in Chains(o)
  BY <1>1, <1>2, PathsFromFacts
<1>4. p \in Seq(Tasks) /\ Len(p) \in Nat /\ Len(p) >= 1
  BY <1>3 DEF Chains
<1>5. /\ p[1] = o /\ Hops(p[Len(p)]) = {}
      /\ \A i \in 1..Len(p) - 1 : p[i + 1] \in Hops(p[i])
  BY <1>3 DEF Chains
<1>6. Len(p) # 1
  BY <1>3, <1>5, Zenon
<1>7. Len(p) >= 2
  <2> DEFINE k == Len(p)
  <2>1. k \in Nat /\ k >= 1 /\ k # 1
    BY <1>4, <1>6
  <2> HIDE DEF k
  <2>2. k >= 2
    BY <2>1
  <2> QED
    BY <2>2 DEF k
<1>8. ASSUME NEW i \in 1..Len(p) PROVE p[i] \in Tasks /\ Drifting(p[i])
  <2>1. CASE i = 1
    BY <1>2, <1>5, <2>1
  <2>2. CASE i # 1
    <3>1. i - 1 \in 1..Len(p) - 1 /\ (i - 1) + 1 = i
      BY <1>4, <2>2
    <3>2. p[i] \in Hops(p[i - 1])
      BY <1>5, <3>1
    <3> QED
      BY <1>4, <3>2 DEF Hops
  <2> QED
    BY <2>1, <2>2
<1> QED
  BY <1>1, <1>3, <1>4, <1>5, <1>7, <1>8

\* From any place of a path, each hop is taken by some path with the same start.
LEMMA EveryBranch ==
  ASSUME Given, NEW p \in Propagation, NEW i \in 1..Len(p), NEW n \in Hops(p[i])
  PROVE  \E q \in Propagation : IsPrefix(SubSeq(p, 1, i) \o <<n>>, q)
<1>1. p \in Seq(Tasks) /\ Len(p) \in Nat /\ p[1] \in Origins
  BY PathFacts
<1>2. \A k \in 1..Len(p) - 1 : p[k + 1] \in Hops(p[k])
  BY PathFacts
<1>3. p[i] \in Tasks /\ p[1] \in Tasks /\ n \in Tasks
  BY <1>1, GivenFacts DEF Hops
<1>4. PICK r : r \in Chains(n)
  BY <1>3, ChainsFinite
<1>5. r \in Seq(Tasks) /\ Len(r) \in Nat /\ Len(r) >= 1
  BY <1>4 DEF Chains
<1>6. r[1] = n /\ Hops(r[Len(r)]) = {}
  BY <1>4 DEF Chains
<1>7. \A k \in 1..Len(r) - 1 : r[k + 1] \in Hops(r[k])
  BY <1>4 DEF Chains
<1> DEFINE q == SubSeq(p, 1, i) \o r
<1>8. /\ q \in Seq(Tasks) /\ Len(q) = i + Len(r)
      /\ \A j \in 1..i : q[j] = p[j]
      /\ \A j \in 1..Len(r) : q[i + j] = r[j]
      /\ IsPrefix(SubSeq(p, 1, i) \o <<r[1]>>, q)
  BY <1>1, <1>5, Joined
<1> HIDE DEF q
<1>9. ASSUME NEW k \in 1..Len(q) - 1 PROVE q[k + 1] \in Hops(q[k])
  <2>1. k \in Nat /\ k >= 1 /\ k < i + Len(r) /\ i \in Nat /\ i >= 1 /\ i <= Len(p)
    BY <1>1, <1>5, <1>8, SMTT(30)
  <2>2. CASE k < i
    <3>1. k \in 1..i /\ k + 1 \in 1..i /\ k \in 1..Len(p) - 1
      BY <1>1, <2>1, <2>2
    <3>2. q[k] = p[k] /\ q[k + 1] = p[k + 1] /\ p[k + 1] \in Hops(p[k])
      BY <1>2, <1>8, <3>1
    <3> QED
      BY <3>2
  <2>3. CASE k = i
    <3>1. q[i] = p[i] /\ q[i + 1] = r[1]
      BY <1>5, <1>8, <2>1
    <3> QED
      BY <1>6, <2>3, <3>1
  <2>4. CASE k > i
    <3>1. /\ k - i \in 1..Len(r) /\ k - i + 1 \in 1..Len(r) /\ k - i \in 1..Len(r) - 1
          /\ i + (k - i) = k /\ i + (k - i + 1) = k + 1
      BY <1>5, <2>1, <2>4
    <3> DEFINE j == k - i
    <3>2. j \in 1..Len(r) /\ j + 1 \in 1..Len(r) /\ j \in 1..Len(r) - 1
      BY <3>1
    <3>3. i + j = k /\ i + (j + 1) = k + 1
      BY <3>1
    <3> HIDE DEF j
    <3>4. q[i + j] = r[j] /\ q[i + (j + 1)] = r[j + 1]
      BY <1>8, <3>2
    <3>5. r[j + 1] \in Hops(r[j])
      BY <1>7, <3>2
    <3> QED
      BY <3>3, <3>4, <3>5, Zenon
  <2> QED
    BY <2>1, <2>2, <2>3, <2>4
<1>10. q[Len(q)] = r[Len(r)] /\ q[1] = p[1] /\ Len(q) >= 1
  BY <1>5, <1>8
<1>11. q \in Chains(p[1])
  BY <1>6, <1>8, <1>9, <1>10 DEF Chains
<1>12. Hops(p[1]) # {}
  <2>1. Len(p) >= 2
    BY PathFacts
  <2>2. 1 \in 1..Len(p) - 1
    BY <1>1, <2>1
  <2> QED
    BY <1>2, <2>2
<1>13. q \in PathsFrom(p[1])
  BY <1>3, <1>11, <1>12, PathsFromFacts
<1>14. q \in Propagation
  BY <1>1, <1>13 DEF Propagation
<1> QED
  BY <1>6, <1>8, <1>14

\* The paths are the ways a delay can take: along dependencies, through drifting
\* tasks, no task twice, to an end, and with every branch.
THEOREM PathsAreTheWays == PublishSpec => []PathsAreComplete
<1>1. ASSUME ResultIInv PROVE PathsAreComplete
  <2> SUFFICES ASSUME Computed, NEW p \in propagation
               PROVE  /\ IsInjective(p)
                      /\ \A i \in 1..Len(p) - 1 : p[i + 1] \in dependencies[p[i]]
                      /\ \A i \in 1..Len(p) : Drifting(p[i])
                      /\ \A n \in dependencies[Last(p)] : Drifting(n) => n \in ToSet(p)
                      /\ \A i \in 1..Len(p) : \A n \in dependencies[p[i]] :
                           Drifting(n) /\ n \notin ToSet(SubSeq(p, 1, i))
                             => \E q \in propagation : IsPrefix(SubSeq(p, 1, i) \o <<n>>, q)
    BY DEF PathsAreComplete
  <2>1. Given /\ propagation = Propagation /\ p \in Propagation
    BY <1>1 DEF ResultIInv, Results, Computed
  <2>2. p \in Seq(Tasks) /\ Len(p) \in Nat /\ Len(p) >= 2
    BY <2>1, PathFacts
  <2>3. \A i \in 1..Len(p) - 1 : p[i + 1] \in Hops(p[i])
    BY <2>1, PathFacts
  <2>4. Hops(p[Len(p)]) = {} /\ \A i \in 1..Len(p) : Drifting(p[i])
    BY <2>1, PathFacts
  <2>5. IsInjective(p)
    <3>1. PICK number : Numbering(number)
      BY <2>1, HasNumbering
    <3>2. \A t \in Tasks : number[t] \in Int
      <4>1. Cardinality(Tasks) \in Nat
        BY TaskFacts, FS_CardinalityType
      <4> QED
        BY <3>1, <4>1 DEF Numbering
    <3>3. ASSUME NEW i \in 1..Len(p), NEW j \in 1..Len(p), i < j PROVE p[i] # p[j]
      <4>1. number[p[i]] < number[p[j]]
        BY <2>1, <2>2, <2>3, <3>1, <3>3, NumbersGrow
      <4>2. number[p[i]] \in Int
        BY <2>2, <3>2
      <4>3. number[p[i]] # number[p[j]]
        BY <4>1, <4>2
      <4> QED
        BY <4>3
    <3>4. \A i, j \in 1..Len(p) : i = j \/ i < j \/ j < i
      BY <2>2
    <3>5. DOMAIN p = 1..Len(p)
      BY <2>2
    <3> QED
      BY <3>3, <3>4, <3>5 DEF IsInjective
  <2>6. \A i \in 1..Len(p) - 1 : p[i + 1] \in dependencies[p[i]]
    BY <2>3 DEF Hops
  <2>7. \A n \in dependencies[Last(p)] : ~Drifting(n)
    BY <2>4 DEF Hops, Last
  <2>8. \A i \in 1..Len(p) : \A n \in dependencies[p[i]] :
          Drifting(n) => \E q \in propagation : IsPrefix(SubSeq(p, 1, i) \o <<n>>, q)
    BY <2>1, EveryBranch DEF Hops
  <2> QED
    BY <2>4, <2>5, <2>6, <2>7, <2>8
<1> QED
  BY <1>1, AlwaysResults, PTL

-------------------------------------------------------------------------------
(* Scores.                                                                 *)

\* The sums of the first hop and of each further one, when f has those before it.
SumsStep(path, f, k) ==
  IF k = 0 THEN [num |-> 0, den |-> 0, weight |-> 1]
  ELSE [num |-> 5 * f[k - 1].num + f[k - 1].weight * drift[path[k + 1]],
        den |-> 5 * f[k - 1].den + f[k - 1].weight * Critical,
        weight |-> 4 * f[k - 1].weight]

\* f is the sums along the path.
SumsOf(path, f) == f = [k \in 0..Len(path) - 1 |-> SumsStep(path, f, k)]

\* A score in these words.
LEMMA ScoreIs ==
  \A path : LET f == CHOOSE f : SumsOf(path, f)
            IN  Score(path) = [num |-> f[Len(path) - 1].num, den |-> f[Len(path) - 1].den]
BY DEF Score, SumsOf, SumsStep

\* The loop over the hops has its sums.
LEMMA SumsEnd ==
  ASSUME NEW path, Len(path) \in Nat, Len(path) >= 1
  PROVE  SumsOf(path, CHOOSE f : SumsOf(path, f))
<1> DEFINE c == Len(path) - 1
           K == {k \in Nat : \E f : \A j \in 0..k : f[j] = SumsStep(path, f, j)}
<1>1. c \in Nat
  OBVIOUS
<1>2. 0 \in K
  <2> DEFINE f == [j \in {0} |-> [num |-> 0, den |-> 0, weight |-> 1]]
  <2>1. \A j \in 0..0 : f[j] = SumsStep(path, f, j)
    BY DEF SumsStep
  <2> QED
    BY <2>1
<1>3. ASSUME NEW k \in 0..c - 1, k \in K PROVE k + 1 \in K
  <2>1. PICK f : \A j \in 0..k : f[j] = SumsStep(path, f, j)
    BY <1>3
  <2> DEFINE g == [j \in 0..k + 1 |-> IF j = k + 1 THEN SumsStep(path, f, j) ELSE f[j]]
  <2>2. k \in Nat
    OBVIOUS
  <2>3. \A j \in 0..k + 1 : g[j] = SumsStep(path, f, j)
    BY <2>1, <2>2
  <2>4. \A j \in 0..k + 1 : j = 0 \/ (j - 1 \in 0..k /\ g[j - 1] = f[j - 1])
    BY <2>2
  <2> HIDE DEF g
  <2>5. \A j \in 0..k + 1 : SumsStep(path, f, j) = SumsStep(path, g, j)
    BY <2>4 DEF SumsStep
  <2>6. \A j \in 0..k + 1 : g[j] = SumsStep(path, g, j)
    BY <2>3, <2>5
  <2> QED
    BY <2>2, <2>6
<1>4. c \in K
  <2> HIDE DEF K, c
  <2> QED
    BY <1>1, <1>2, <1>3, UpTo
<1>5. PICK f : \A j \in 0..c : f[j] = SumsStep(path, f, j)
  BY <1>4
<1> DEFINE h == [j \in 0..c |-> f[j]]
<1>6. \A j \in 0..c : j = 0 \/ (j - 1 \in 0..c /\ h[j - 1] = f[j - 1])
  BY <1>1
<1>7. \A j \in 0..c : h[j] = f[j]
  OBVIOUS
<1>8. h = [j \in 0..c |-> f[j]]
  OBVIOUS
<1> HIDE DEF h
<1>9. \A j \in 0..c : SumsStep(path, f, j) = SumsStep(path, h, j)
  BY <1>6 DEF SumsStep
<1>10. \A j \in 0..c : f[j] = SumsStep(path, h, j)
  BY <1>5, <1>9
<1>11. h = [j \in 0..c |-> SumsStep(path, h, j)]
  BY <1>8, <1>10
<1>12. SumsOf(path, h)
  BY <1>11 DEF SumsOf
<1> QED
  BY <1>12

\* One more hop of a severity d between MEDIUM and CRITICAL.
LEMMA OneHop ==
  ASSUME NEW num \in Nat, NEW den \in Nat, num <= den, NEW w \in Nat, w >= 1, NEW d \in 1..3
  PROVE  /\ 5 * num + w * d \in Nat /\ 5 * den + w * 3 \in Nat
         /\ 5 * num + w * d > 0 /\ 5 * den + w * 3 > 0
         /\ 5 * num + w * d <= 5 * den + w * 3
         /\ 5 * num + w * d = 5 * den + w * 3 <=> num = den /\ d = 3
<1>1. CASE d = 1
  BY <1>1
<1>2. CASE d = 2
  BY <1>2
<1>3. CASE d = 3
  BY <1>3
<1> QED
  BY <1>1, <1>2, <1>3

\* A path scores more than nothing, at most everything, and that only if all it
\* affects is critical.
LEMMA ScoreFacts ==
  ASSUME NEW p, Len(p) \in Nat, Len(p) >= 2, \A i \in 1..Len(p) : drift[p[i]] \in 1..3
  PROVE  /\ Score(p).num \in Nat /\ Score(p).den \in Nat
         /\ 0 < Score(p).num /\ Score(p).num <= Score(p).den
         /\ Score(p).num = Score(p).den <=> \A i \in 2..Len(p) : drift[p[i]] = 3
<1> DEFINE f == CHOOSE g : SumsOf(p, g)
           c == Len(p) - 1
           Fine(k) == /\ f[k].num \in Nat /\ f[k].den \in Nat /\ f[k].weight \in Nat
                      /\ f[k].weight >= 1 /\ f[k].num <= f[k].den
                      /\ k > 0 => f[k].num > 0
                      /\ f[k].num = f[k].den <=> \A i \in 2..k + 1 : drift[p[i]] = 3
           K == {k \in Nat : k <= c /\ Fine(k)}
<1>1. c \in Nat /\ c >= 1
  OBVIOUS
<1>2. \A k \in 0..c : f[k] = SumsStep(p, f, k)
  <2>1. SumsOf(p, f)
    BY SumsEnd
  <2> HIDE DEF f
  <2>2. f = [k \in 0..Len(p) - 1 |-> SumsStep(p, f, k)]
    BY <2>1 DEF SumsOf
  <2> QED
    BY <2>2
<1>3. Score(p) = [num |-> f[c].num, den |-> f[c].den]
  BY ScoreIs
<1> HIDE DEF f
<1>4. 0 \in K
  <2>1. f[0] = [num |-> 0, den |-> 0, weight |-> 1]
    <3>1. SumsStep(p, f, 0) = [num |-> 0, den |-> 0, weight |-> 1]
      BY DEF SumsStep
    <3>2. f[0] = SumsStep(p, f, 0)
      BY <1>1, <1>2
    <3> QED
      BY <3>1, <3>2
  <2> QED
    BY <1>1, <2>1
<1>5. ASSUME NEW k \in 0..c - 1, k \in K PROVE k + 1 \in K
  <2>1. k \in Nat /\ k + 1 \in 0..c /\ k + 1 # 0 /\ (k + 1) - 1 = k /\ (k + 1) + 1 = k + 2
        /\ k + 2 \in 1..Len(p)
    BY <1>1
  <2> DEFINE d == drift[p[k + 2]]
  <2>2. d \in 1..3
    BY <2>1
  <2>3. f[k + 1] = [num |-> 5 * f[k].num + f[k].weight * d,
                    den |-> 5 * f[k].den + f[k].weight * 3,
                    weight |-> 4 * f[k].weight]
    BY <1>2, <2>1 DEF SumsStep, Critical
  <2> DEFINE a == f[k].num
             b == f[k].den
             w == f[k].weight
  <2>4. a \in Nat /\ b \in Nat /\ w \in Nat /\ w >= 1 /\ a <= b
    BY <1>5
  <2>5. a = b <=> \A i \in 2..k + 1 : drift[p[i]] = 3
    BY <1>5
  <2>6. (\A i \in 2..k + 2 : drift[p[i]] = 3) <=> (a = b /\ d = 3)
    <3>1. \A i : i \in 2..k + 2 <=> i \in 2..k + 1 \/ i = k + 2
      BY <2>1
    <3> QED
      BY <2>5, <3>1
  <2>7. f[k + 1].num = 5 * a + w * d /\ f[k + 1].den = 5 * b + w * 3 /\ f[k + 1].weight = 4 * w
    BY <2>3
  <2> HIDE DEF a, b, w, d
  <2>8. /\ 5 * a + w * d \in Nat /\ 5 * b + w * 3 \in Nat
        /\ 5 * a + w * d > 0
        /\ 5 * a + w * d <= 5 * b + w * 3
        /\ 5 * a + w * d = 5 * b + w * 3 <=> a = b /\ d = 3
    BY <2>2, <2>4, OneHop
  <2>9. 4 * w \in Nat /\ 4 * w >= 1
    BY <2>4
  <2>10. Fine(k + 1)
    BY <2>1, <2>6, <2>7, <2>8, <2>9
  <2> QED
    BY <1>1, <2>1, <2>10
<1>6. c \in K
  <2> HIDE DEF K, c
  <2> QED
    BY <1>1, <1>4, <1>5, UpTo
<1>7. Fine(c) /\ c + 1 = Len(p) /\ c > 0
  BY <1>1, <1>6
<1> HIDE DEF c
<1> QED
  BY <1>3, <1>7

-------------------------------------------------------------------------------
(* PrimaryIsBestRoot.                                                      *)

\* There are finitely many paths.
LEMMA PropagationIsFinite ==
  ASSUME Given
  PROVE  IsFiniteSet(Propagation)
<1> DEFINE from == [o \in Origins |-> PathsFrom(o)]
<1>1. Origins \subseteq Tasks /\ IsFiniteSet(Origins)
  <2>1. Origins \subseteq Tasks
    BY DEF Origins
  <2> QED
    BY <2>1, TaskFacts, FS_Subset
<1>2. \A o \in Origins : IsFiniteSet(PathsFrom(o))
  BY <1>1, PathsFromFacts, ChainsFinite, FS_EmptySet
<1>3. Propagation = UNION {from[o] : o \in Origins} /\ \A o \in Origins : from[o] = PathsFrom(o)
  BY DEF Propagation
<1> HIDE DEF from
<1>4. IsFiniteSet({from[o] : o \in Origins})
  BY <1>1, ImageIsFinite
<1> QED
  BY <1>2, <1>3, <1>4, FS_UNION

\* The score of an origin is the best of its paths' scores, and a fraction.
LEMMA OriginScoreFacts ==
  ASSUME Given, propagation = Propagation, NEW t
  PROVE  OriginScore(t) \in Fractions
<1> DEFINE ofT == {q \in propagation : q[1] = t}
           score == [p \in ofT |-> Score(p)]
           S == {Score(p) : p \in ofT} \cup {ZeroScore}
           R == {z \in S \X S : AtLeast(z[1], z[2])}
<1>1. \A p \in Propagation : Score(p) \in Fractions
  <2> SUFFICES ASSUME NEW p \in Propagation PROVE Score(p) \in Fractions
    OBVIOUS
  <2>1. Len(p) \in Nat /\ Len(p) >= 2
    BY PathFacts
  <2>2. \A i \in 1..Len(p) : drift[p[i]] \in 1..3
    <3>1. \A i \in 1..Len(p) : p[i] \in Tasks /\ Drifting(p[i])
      BY PathFacts
    <3> QED
      BY <3>1, GivenFacts DEF Drifting, Normal
  <2>3. /\ Score(p).num \in Nat /\ Score(p).den \in Nat
        /\ 0 < Score(p).num /\ Score(p).num <= Score(p).den
    BY <2>1, <2>2, ScoreFacts
  <2>4. Score(p) = [num |-> Score(p).num, den |-> Score(p).den]
    BY DEF Score
  <2>5. Score(p).den \in Nat \ {0}
    BY <2>3
  <2> QED
    BY <2>3, <2>4, <2>5 DEF Fractions
<1>2. S \subseteq Fractions /\ S # {}
  <2>1. \A p \in ofT : Score(p) \in Fractions
    BY <1>1
  <2>2. ZeroScore \in Fractions
    BY DEF Fractions, ZeroScore
  <2> HIDE DEF ofT
  <2> QED
    BY <2>1, <2>2
<1>3. IsFiniteSet(S)
  <2>1. IsFiniteSet(ofT)
    BY PropagationIsFinite, FS_Subset
  <2>2. {Score(p) : p \in ofT} = {score[p] : p \in ofT}
    OBVIOUS
  <2> HIDE DEF ofT, score
  <2>3. IsFiniteSet({score[p] : p \in ofT})
    BY <2>1, ImageIsFinite
  <2> QED
    BY <2>2, <2>3, FS_Singleton, FS_Union
<1>4. OriginScore(t) = CHOOSE s \in S : \A r \in S : AtLeast(s, r)
  BY DEF OriginScore
<1>5. \A x, y \in S : <<x, y>> \in R <=> AtLeast(x, y)
  OBVIOUS
<1> HIDE DEF S, R
<1>6. /\ \A x, y \in S : <<x, y>> \in R \/ <<y, x>> \in R
      /\ \A x, y, z \in S : <<x, y>> \in R /\ <<y, z>> \in R => <<x, z>> \in R
  BY <1>2, <1>5, FractionsCompare
<1>7. \E x \in S : \A y \in S : <<x, y>> \in R
  BY <1>2, <1>3, <1>6, HasGreatest
<1>8. \E x \in S : \A y \in S : AtLeast(x, y)
  BY <1>5, <1>7
<1>9. OriginScore(t) \in S
  BY <1>4, <1>8
<1> QED
  BY <1>2, <1>9

\* The ranking of the candidates is total and transitive.
LEMMA RankingFacts ==
  ASSUME Given, propagation = Propagation
  PROVE  /\ \A s, t \in Tasks : RanksAtLeast(s, t) \/ RanksAtLeast(t, s)
         /\ \A s, t, u \in Tasks :
              RanksAtLeast(s, t) /\ RanksAtLeast(t, u) => RanksAtLeast(s, u)
<1>1. \A t \in Tasks : OriginScore(t) \in Fractions
  BY OriginScoreFacts
<1>2. \A t \in Tasks : drift[t] \in Int
  BY GivenFacts
<1>3. ASSUME NEW s \in Tasks, NEW t \in Tasks PROVE RanksAtLeast(s, t) \/ RanksAtLeast(t, s)
  <2>1. AtLeast(OriginScore(s), OriginScore(t)) \/ AtLeast(OriginScore(t), OriginScore(s))
    BY <1>1, FractionsCompare
  <2>2. drift[s] >= drift[t] \/ drift[t] >= drift[s]
    BY <1>2
  <2> QED
    BY <2>1, <2>2 DEF RanksAtLeast
<1>4. ASSUME NEW s \in Tasks, NEW t \in Tasks, NEW u \in Tasks,
             RanksAtLeast(s, t), RanksAtLeast(t, u)
      PROVE  RanksAtLeast(s, u)
  <2> DEFINE x == OriginScore(s)
             y == OriginScore(t)
             z == OriginScore(u)
  <2>1. x \in Fractions /\ y \in Fractions /\ z \in Fractions
    BY <1>1
  <2>2. /\ AtLeast(x, y) /\ AtLeast(y, z)
        /\ AtLeast(y, x) => drift[s] >= drift[t]
        /\ AtLeast(z, y) => drift[t] >= drift[u]
    BY <1>4 DEF RanksAtLeast
  <2> HIDE DEF x, y, z
  <2>3. AtLeast(x, z)
    BY <2>1, <2>2, FractionsCompare
  <2>4. AtLeast(z, x) => AtLeast(y, x) /\ AtLeast(z, y)
    BY <2>1, <2>2, FractionsCompare
  <2>5. AtLeast(z, x) => drift[s] >= drift[t] /\ drift[t] >= drift[u]
    BY <2>2, <2>4
  <2>6. AtLeast(z, x) => drift[s] >= drift[u]
    BY <1>2, <2>5
  <2> QED
    BY <2>3, <2>6 DEF RanksAtLeast, x, z
<1> QED
  BY <1>3, <1>4

\* Best is the first in the alphabet of those that no other outranks.
LEMMA BestFacts ==
  ASSUME Given, propagation = Propagation, NEW S \in SUBSET Tasks, S # {}
  PROVE  /\ Best(S) \in S
         /\ \A t \in S : RanksAtLeast(Best(S), t)
         /\ \A t \in S : (\A u \in S : RanksAtLeast(t, u)) => Best(S) <= t
<1> DEFINE R == {p \in S \X S : RanksAtLeast(p[1], p[2])}
           top == {s \in S : \A t \in S : RanksAtLeast(s, t)}
<1>1. IsFiniteSet(S)
  BY TaskFacts, FS_Subset
<1>2. \A x, y \in S : <<x, y>> \in R <=> RanksAtLeast(x, y)
  OBVIOUS
<1> HIDE DEF R
<1>3. /\ \A x, y \in S : <<x, y>> \in R \/ <<y, x>> \in R
      /\ \A x, y, z \in S : <<x, y>> \in R /\ <<y, z>> \in R => <<x, z>> \in R
  BY <1>2, RankingFacts
<1>4. \E x \in S : \A y \in S : <<x, y>> \in R
  BY <1>1, <1>3, HasGreatest
<1>5. top # {}
  BY <1>2, <1>4
<1>6. IsFiniteSet(top) /\ top \in SUBSET Int
  <2>1. top \subseteq S
    OBVIOUS
  <2>2. \A t \in top : t \in Int
    BY TaskFacts
  <2> QED
    BY <1>1, <2>1, <2>2, FS_Subset
<1>7. Best(S) = CHOOSE s \in top : \A t \in top : s <= t
  BY DEF Best
<1>8. \E s \in top : \A t \in top : s <= t
  <2> HIDE DEF top
  <2> QED
    BY <1>5, <1>6, HasExtremes
<1>9. Best(S) \in top /\ \A t \in top : Best(S) <= t
  <2> HIDE DEF top
  <2> QED
    BY <1>7, <1>8
<1> QED
  BY <1>9

\* The roots are the drifting tasks that no drifting task feeds, and there are some
\* if any task drifts.
LEMMA RootFacts ==
  ASSUME Given, impact = Impacts
  PROVE  /\ Candidates = {} <=> \A t \in Tasks : ~Drifting(t)
         /\ Candidates # {} =>
              /\ RootCandidates # {}
              /\ RootCandidates =
                   {t \in Tasks : Drifting(t) /\ \A u \in Upstream(t) : ~Drifting(u)}
<1> DEFINE roots == {t \in Tasks : Drifting(t) /\ \A u \in Upstream(t) : ~Drifting(u)}
<1>1. \A t \in Tasks : t \in Candidates <=> Drifting(t)
  BY CandidateFacts
<1>2. Candidates \subseteq Tasks
  BY DEF Candidates
<1>3. \A t \in Tasks : HasCandidateUpstream(t) <=> \E u \in Upstream(t) : Drifting(u)
  BY CandidateFacts
<1>4. {t \in Candidates : ~HasCandidateUpstream(t)} = roots
  BY <1>1, <1>2, <1>3
<1>5. ASSUME Candidates # {} PROVE roots # {}
  <2>1. PICK t \in Candidates : \A u \in Candidates : t \notin dependencies[u]
    BY <1>2, <1>5, HasFirstAndLast
  <2>2. t \in roots
    BY <1>1, <1>2, <2>1 DEF Upstream
  <2> QED
    BY <2>2
<1>6. Candidates # {} => RootCandidates = roots
  BY <1>4, <1>5 DEF RootCandidates
<1>7. Candidates = {} <=> \A t \in Tasks : ~Drifting(t)
  BY <1>1, <1>2
<1> QED
  BY <1>5, <1>6, <1>7

\* A primary origin is named exactly when a task drifts.  It is one that no drifting
\* task feeds, and of these none spreads its drift further or, equally far, drifts
\* more; of equals it is the first in the alphabet.
THEOREM PrimaryIsTheBestRoot == PublishSpec => []PrimaryIsBestRoot
<1>1. ASSUME ResultIInv PROVE PrimaryIsBestRoot
  <2> SUFFICES ASSUME phase = "selected" PROVE PrimaryIsBestRoot
    BY DEF PrimaryIsBestRoot
  <2> DEFINE roots == {t \in Tasks : Drifting(t) /\ \A u \in Upstream(t) : ~Drifting(u)}
  <2>1. Given /\ impact = Impacts /\ propagation = Propagation /\ primary = PrimaryOrigin
    BY <1>1 DEF ResultIInv, Results
  <2>2. CASE Candidates = {}
    <3>1. primary = NoTask /\ \A t \in Tasks : ~Drifting(t)
      BY <2>1, <2>2, RootFacts DEF PrimaryOrigin
    <3> QED
      BY <3>1 DEF PrimaryIsBestRoot
  <2>3. CASE Candidates # {}
    <3>1. ~(\A t \in Tasks : ~Drifting(t)) /\ RootCandidates = roots /\ roots # {}
      BY <2>1, <2>3, RootFacts
    <3>2. primary = Best(roots)
      BY <2>1, <2>3, <3>1 DEF PrimaryOrigin
    <3>3. roots \in SUBSET Tasks
      OBVIOUS
    <3>4. /\ primary \in roots
          /\ \A t \in roots : RanksAtLeast(primary, t)
          /\ \A t \in roots : (\A u \in roots : RanksAtLeast(t, u)) => primary <= t
      <4> HIDE DEF roots
      <4> QED
        BY <2>1, <3>1, <3>2, <3>3, BestFacts
    <3>5. primary # NoTask
      <4>1. primary \in Nat
        BY <3>3, <3>4, TasksAssumption
      <4> QED
        BY <4>1 DEF NoTask
    <3>6. ASSUME NEW t \in roots
          PROVE  /\ AtLeast(OriginScore(primary), OriginScore(t))
                 /\ AtLeast(OriginScore(t), OriginScore(primary)) =>
                      \/ drift[primary] > drift[t]
                      \/ drift[primary] = drift[t] /\ primary <= t
      <4>1. primary \in Tasks /\ t \in Tasks
        BY <3>3, <3>4
      <4>2. /\ AtLeast(OriginScore(primary), OriginScore(t))
            /\ AtLeast(OriginScore(t), OriginScore(primary)) => drift[primary] >= drift[t]
        BY <3>4 DEF RanksAtLeast
      <4>3. drift[primary] \in Int /\ drift[t] \in Int
        BY <2>1, <4>1, GivenFacts
      <4>4. ASSUME AtLeast(OriginScore(t), OriginScore(primary)), drift[primary] = drift[t]
            PROVE  primary <= t
        <5>1. RanksAtLeast(t, primary)
          BY <4>3, <4>4 DEF RanksAtLeast
        <5>2. \A u \in roots : RanksAtLeast(t, u)
          BY <2>1, <3>3, <3>4, <4>1, <5>1, RankingFacts
        <5> QED
          BY <3>4, <5>2
      <4>5. drift[primary] >= drift[t] =>
              drift[primary] > drift[t] \/ drift[primary] = drift[t]
        BY <4>3
      <4> QED
        BY <4>2, <4>4, <4>5
    <3>7. (primary = NoTask) = (\A t \in Tasks : ~Drifting(t))
      BY <3>1, <3>5
    <3> QED
      BY <3>4, <3>5, <3>6, <3>7 DEF PrimaryIsBestRoot
  <2> QED
    BY <2>2, <2>3
<1> QED
  BY <1>1, AlwaysResults, PTL

-------------------------------------------------------------------------------
(* OriginsExplainDrift.                                                    *)

\* A strong drift reaches t from an upstream task, or from what is in X already.
Fed(X, t) == \E u \in Upstream(t) : Drifting(u) /\ (drift[u] \in Strong \/ u \in X)

\* The delayed tasks are exactly those that are fed.
LEMMA DelayedUnfold ==
  ASSUME NEW t \in Tasks
  PROVE  t \in Delayed <=> Fed(Delayed, t)
<1> DEFINE Closed(X) == \A s \in Tasks : Fed(X, s) => s \in X
<1>1. Delayed = {s \in Tasks : \A X \in SUBSET Tasks : Closed(X) => s \in X}
  BY DEF Delayed, Fed
<1>2. \A X, Y : X \subseteq Y => \A s : Fed(X, s) => Fed(Y, s)
  BY DEF Fed
<1> HIDE DEF Closed
<1>3. \A X \in SUBSET Tasks : Closed(X) => Delayed \subseteq X
  BY <1>1
<1>4. Closed(Delayed)
  <2>1. \A s \in Tasks : Fed(Delayed, s) => \A X \in SUBSET Tasks : Closed(X) => s \in X
    BY <1>2, <1>3 DEF Closed
  <2> QED
    BY <1>1, <2>1 DEF Closed
<1> DEFINE X == {s \in Delayed : Fed(Delayed, s)}
<1>5. Closed(X)
  <2>1. X \subseteq Delayed
    OBVIOUS
  <2>2. \A s \in Tasks : Fed(X, s) => Fed(Delayed, s)
    BY <1>2, <2>1
  <2> QED
    BY <1>4, <2>2 DEF Closed
<1>6. X \in SUBSET Tasks
  BY <1>1
<1>7. Delayed \subseteq X
  <2> HIDE DEF X
  <2> QED
    BY <1>3, <1>5, <1>6
<1> QED
  BY <1>4, <1>7 DEF Closed

\* What the search finds, when f answers for the tasks further up.
FoundBy(f, visited) == {s \in Tasks \ visited : Fed(f[visited \cup {s}], s)}

\* The search for strong drifts upstream in these words.
LEMMA StrongSearchIs ==
  \A f : StrongSearch(f) <=> f = [visited \in SUBSET Tasks |-> FoundBy(f, visited)]
BY DEF StrongSearch, FoundBy, Fed

\* The search for s asks only for tasks upstream of s.
LEMMA FoundIsLocal ==
  ASSUME NEW f, NEW g, NEW visited \in SUBSET Tasks, NEW s \in Tasks,
         \A V \in SUBSET Tasks : \A u \in Upstream(s) : u \in f[V] <=> u \in g[V]
  PROVE  s \in FoundBy(f, visited) <=> s \in FoundBy(g, visited)
<1>1. visited \cup {s} \in SUBSET Tasks
  OBVIOUS
<1>2. Fed(f[visited \cup {s}], s) <=> Fed(g[visited \cup {s}], s)
  BY <1>1 DEF Fed
<1> QED
  BY <1>2 DEF FoundBy

\* The search for a strong drift upstream has an answer: the first tasks have one, and
\* so on down.
LEMMA StrongSearchEnds ==
  ASSUME Given
  PROVE  StrongSearch(CHOOSE f : StrongSearch(f))
<1>1. PICK number : Numbering(number)
  BY HasNumbering
<1> DEFINE c == Cardinality(Tasks)
<1>2. c \in Nat /\ \A t \in Tasks : number[t] \in 1..c
  BY <1>1, TaskFacts, FS_CardinalityType DEF Numbering
<1>3. \A t : Upstream(t) \subseteq Tasks
  BY DEF Upstream
<1>4. \A t \in Tasks : \A u \in Upstream(t) : number[u] < number[t]
  BY <1>1 DEF Numbering, Upstream
<1> DEFINE Solves(f, k) ==
             \A V \in SUBSET Tasks : \A t \in Tasks :
               number[t] <= k => (t \in f[V] <=> t \in FoundBy(f, V))
           K == {k \in Nat : \E f : Solves(f, k)}
<1>5. 0 \in K
  BY <1>2
<1>6. ASSUME NEW k \in 0..c - 1, k \in K PROVE k + 1 \in K
  <2>1. PICK f : Solves(f, k)
    BY <1>6
  <2> DEFINE g == [V \in SUBSET Tasks |->
                     {t \in Tasks : IF number[t] <= k THEN t \in f[V] ELSE t \in FoundBy(f, V)}]
  <2>2. ASSUME NEW V \in SUBSET Tasks, NEW t \in Tasks, number[t] <= k + 1
        PROVE  t \in g[V] <=> t \in FoundBy(g, V)
    <3>1. t \in g[V] <=> t \in FoundBy(f, V)
      BY <2>1
    <3>2. \A u \in Upstream(t) : u \in Tasks /\ number[u] <= k
      BY <1>2, <1>3, <1>4, <2>2
    <3>3. \A W \in SUBSET Tasks : \A u \in Upstream(t) : u \in f[W] <=> u \in g[W]
      BY <3>2
    <3> HIDE DEF g
    <3>4. t \in FoundBy(f, V) <=> t \in FoundBy(g, V)
      BY <3>3, FoundIsLocal
    <3> QED
      BY <3>1, <3>4
  <2> HIDE DEF g
  <2>3. Solves(g, k + 1)
    BY <2>2
  <2> QED
    BY <2>3
<1>7. c \in K
  <2> HIDE DEF K, c
  <2> QED
    BY <1>2, <1>5, <1>6, UpTo
<1>8. PICK f : Solves(f, c)
  BY <1>7
<1> DEFINE h == [V \in SUBSET Tasks |-> {t \in Tasks : t \in f[V]}]
<1>9. \A V \in SUBSET Tasks : \A t \in Tasks : t \in f[V] <=> t \in FoundBy(f, V)
  BY <1>2, <1>8
<1>10. \A V \in SUBSET Tasks : \A t \in Tasks : t \in FoundBy(f, V) <=> t \in FoundBy(h, V)
  <2> SUFFICES ASSUME NEW V \in SUBSET Tasks, NEW t \in Tasks
               PROVE  t \in FoundBy(f, V) <=> t \in FoundBy(h, V)
    OBVIOUS
  <2>1. \A W \in SUBSET Tasks : \A u \in Upstream(t) : u \in f[W] <=> u \in h[W]
    BY <1>3
  <2> HIDE DEF h
  <2> QED
    BY <2>1, FoundIsLocal
<1>11. h = [V \in SUBSET Tasks |-> FoundBy(h, V)]
  <2>1. h = [V \in SUBSET Tasks |-> {t \in Tasks : t \in f[V]}]
    OBVIOUS
  <2> HIDE DEF h
  <2>2. \A V : FoundBy(h, V) \subseteq Tasks
    BY DEF FoundBy
  <2>3. \A V \in SUBSET Tasks : {t \in Tasks : t \in f[V]} = FoundBy(h, V)
    BY <1>9, <1>10, <2>2
  <2> QED
    BY <2>1, <2>3
<1>12. StrongSearch(h)
  <2> HIDE DEF h
  <2> QED
    BY <1>11, StrongSearchIs
<1> HIDE DEF h
<1> QED
  BY <1>12

\* A task has an anomalous upstream exactly when a strong drift reaches it.
LEMMA AnomalousIsDelayed ==
  ASSUME Given, NEW t \in Tasks
  PROVE  HasAnomalousUpstream(t) <=> t \in Delayed
<1> DEFINE f == CHOOSE g : StrongSearch(g)
<1>1. StrongSearch(f)
  BY StrongSearchEnds
<1>2. HasAnomalousUpstream(t) <=> t \in f[{}]
  BY Searches
<1> HIDE DEF f
<1>3. f = [visited \in SUBSET Tasks |-> FoundBy(f, visited)]
  BY <1>1, StrongSearchIs
<1>4. \A V \in SUBSET Tasks : f[V] = FoundBy(f, V)
  BY <1>3
<1>5. PICK number : Numbering(number)
  BY HasNumbering
<1>6. \A s \in Tasks : number[s] \in Int
  <2>1. Cardinality(Tasks) \in Nat
    BY TaskFacts, FS_CardinalityType
  <2> QED
    BY <1>5, <2>1 DEF Numbering
<1> DEFINE Ahead(V, s) == \A v \in V : number[s] < number[v]
           S == {s \in Tasks : \E V \in SUBSET Tasks : Ahead(V, s) /\ ~(s \in f[V] <=> s \in Delayed)}
<1>7. ASSUME S # {} PROVE FALSE
  <2>1. PICK s \in S : \A u \in S : s \notin dependencies[u]
    <3> HIDE DEF S
    <3>1. S \subseteq Tasks
      BY DEF S
    <3> QED
      BY <1>7, <3>1, HasFirstAndLast
  <2>2. PICK V \in SUBSET Tasks : Ahead(V, s) /\ ~(s \in f[V] <=> s \in Delayed)
    BY <2>1
  <2>3. s \in Tasks /\ V \cup {s} \in SUBSET Tasks
    BY <2>2
  <2>4. s \notin V
    BY <1>6, <2>2, <2>3
  <2>5. ASSUME NEW u \in Upstream(s) PROVE u \in f[V \cup {s}] <=> u \in Delayed
    <3>1. u \in Tasks /\ s \in dependencies[u] /\ u \notin S
      BY <2>1 DEF Upstream
    <3>2. number[u] < number[s]
      BY <1>5, <3>1 DEF Numbering
    <3>3. Ahead(V \cup {s}, u)
      BY <1>6, <2>2, <2>3, <3>1, <3>2
    <3> QED
      BY <2>3, <3>1, <3>3
  <2>6. Fed(f[V \cup {s}], s) <=> Fed(Delayed, s)
    BY <2>5 DEF Fed
  <2>7. s \in f[V] <=> Fed(f[V \cup {s}], s)
    BY <1>4, <2>3, <2>4 DEF FoundBy
  <2> QED
    BY <2>2, <2>3, <2>6, <2>7, DelayedUnfold
<1>8. t \in f[{}] <=> t \in Delayed
  BY <1>7
<1> QED
  BY <1>2, <1>8

\* What a path affects: its tasks after the origin.
LEMMA TailFacts ==
  ASSUME NEW p \in Seq(Tasks), Len(p) \in Nat, Len(p) >= 2
  PROVE  ToSet(Tail(p)) = {p[i] : i \in 2..Len(p)}
<1> DEFINE q == Tail(p)
<1>1. q \in Seq(Tasks) /\ Len(q) = Len(p) - 1 /\ \A i \in 1..Len(q) : q[i] = p[i + 1]
  OBVIOUS
<1> HIDE DEF q
<1>2. ToSet(q) = {q[i] : i \in 1..Len(q)}
  BY <1>1 DEF ToSet
<1>3. \A i \in 1..Len(q) : i + 1 \in 2..Len(p)
  BY <1>1
<1>4. \A i \in 2..Len(p) : i - 1 \in 1..Len(q) /\ (i - 1) + 1 = i
  BY <1>1
<1>5. \A i \in 2..Len(p) : q[i - 1] = p[i]
  BY <1>1, <1>4
<1>6. ToSet(q) \subseteq {p[i] : i \in 2..Len(p)}
  BY <1>1, <1>2, <1>3
<1>7. {p[i] : i \in 2..Len(p)} \subseteq ToSet(q)
  BY <1>2, <1>4, <1>5
<1> QED
  BY <1>6, <1>7 DEF q

\* A hop from a place of a path leads into the tail of some path.
LEMMA HopIsAffected ==
  ASSUME Given, NEW p \in Propagation, NEW i \in 1..Len(p), NEW n \in Hops(p[i])
  PROVE  \E q \in Propagation : n \in ToSet(Tail(q))
<1>1. PICK q \in Propagation : IsPrefix(SubSeq(p, 1, i) \o <<n>>, q)
  BY EveryBranch
<1>2. p \in Seq(Tasks) /\ Len(p) \in Nat
  BY PathFacts
<1>3. p[i] \in Tasks /\ n \in Tasks
  BY <1>2, GivenFacts DEF Hops
<1>4. q \in Seq(Tasks) /\ Len(q) \in Nat /\ Len(q) >= 2
  BY PathFacts
<1> DEFINE s == SubSeq(p, 1, i)
           h == s \o <<n>>
<1>5. s \in Seq(Tasks) /\ Len(s) = i /\ i \in Nat /\ i >= 1
  BY <1>2
<1> HIDE DEF s
<1>6. h \in Seq(Tasks) /\ Len(h) = i + 1 /\ h[i + 1] = n
  BY <1>3, <1>5
<1>7. IsPrefix(h, q)
  BY <1>1 DEF s
<1> HIDE DEF h
<1>8. i + 1 <= Len(q) /\ SubSeq(h, 1, i + 1) = SubSeq(q, 1, i + 1)
  BY <1>6, <1>7 DEF IsPrefix
<1>9. SubSeq(h, 1, i + 1)[i + 1] = h[i + 1] /\ SubSeq(q, 1, i + 1)[i + 1] = q[i + 1]
  BY <1>4, <1>5, <1>6, <1>8
<1>10. i + 1 \in 2..Len(q) /\ q[i + 1] = n
  BY <1>4, <1>5, <1>6, <1>8, <1>9
<1>11. n \in {q[k] : k \in 2..Len(q)}
  BY <1>10
<1> QED
  BY <1>4, <1>11, TailFacts

\* The tails of the paths are the drifting tasks that a strong drift reaches.
LEMMA AffectedFacts ==
  ASSUME Given
  PROVE  UNION {ToSet(Tail(p)) : p \in Propagation} = {t \in Delayed : Drifting(t)}
<1> DEFINE U == UNION {ToSet(Tail(p)) : p \in Propagation}
           D == {t \in Delayed : Drifting(t)}
<1>1. \A t : t \in U <=> \E p \in Propagation : t \in ToSet(Tail(p))
  OBVIOUS
<1>2. Delayed \subseteq Tasks
  BY DEF Delayed
<1> HIDE DEF U
<1>3. ASSUME NEW p \in Propagation, NEW i \in 2..Len(p) PROVE p[i] \in D
  <2>1. p \in Seq(Tasks) /\ Len(p) \in Nat /\ Len(p) >= 2
    BY PathFacts
  <2>2. \A k \in 1..Len(p) : p[k] \in Tasks /\ Drifting(p[k])
    BY PathFacts
  <2>3. \A k \in 1..Len(p) - 1 : p[k] \in Upstream(p[k + 1])
    <3>1. \A k \in 1..Len(p) - 1 : k \in 1..Len(p) /\ p[k + 1] \in dependencies[p[k]]
      BY <2>1, PathFacts DEF Hops
    <3> QED
      BY <2>2, <3>1 DEF Upstream
  <2>4. drift[p[1]] \in Strong
    BY PathFacts DEF Origins
  <2> DEFINE c == i - 2
             K == {k \in Nat : k <= c /\ p[k + 2] \in Delayed}
  <2>5. c \in Nat /\ c + 2 = i /\ i \in 1..Len(p)
    BY <2>1
  <2>6. 0 \in K
    <3>1. 1 \in 1..Len(p) - 1 /\ 1 \in 1..Len(p) /\ 2 \in 1..Len(p) /\ 1 + 1 = 2 /\ 0 + 2 = 2
      BY <2>1
    <3>2. Fed(Delayed, p[2])
      BY <2>2, <2>3, <2>4, <3>1 DEF Fed
    <3>3. p[2] \in Delayed
      BY <2>2, <3>1, <3>2, DelayedUnfold
    <3> QED
      BY <2>5, <3>1, <3>3
  <2>7. ASSUME NEW k \in 0..c - 1, k \in K PROVE k + 1 \in K
    <3>1. /\ k \in Nat /\ k + 1 <= c /\ k + 2 \in 1..Len(p) - 1 /\ k + 2 \in 1..Len(p)
          /\ k + 2 + 1 \in 1..Len(p) /\ (k + 1) + 2 = k + 2 + 1
      BY <2>1, <2>5
    <3>2. p[k + 2] \in Delayed
      BY <2>7
    <3>3. Fed(Delayed, p[k + 2 + 1])
      BY <2>2, <2>3, <3>1, <3>2 DEF Fed
    <3>4. p[k + 2 + 1] \in Delayed
      BY <2>2, <3>1, <3>3, DelayedUnfold
    <3> QED
      BY <3>1, <3>4
  <2>8. c \in K
    <3> HIDE DEF K, c
    <3> QED
      BY <2>5, <2>6, <2>7, UpTo
  <2>9. p[i] \in Delayed
    BY <2>5, <2>8
  <2> QED
    BY <2>2, <2>5, <2>9
<1>4. U \subseteq D
  <2> SUFFICES ASSUME NEW p \in Propagation, NEW t \in ToSet(Tail(p)) PROVE t \in D
    BY <1>1
  <2>1. p \in Seq(Tasks) /\ Len(p) \in Nat /\ Len(p) >= 2
    BY PathFacts
  <2>2. PICK i \in 2..Len(p) : t = p[i]
    BY <2>1, TailFacts
  <2> QED
    BY <1>3, <2>2
<1> DEFINE S == {t \in D : t \notin U}
<1>5. ASSUME S # {} PROVE FALSE
  <2>1. S \subseteq Tasks
    BY <1>2
  <2> HIDE DEF S
  <2>2. PICK t \in S : \A u \in S : t \notin dependencies[u]
    BY <1>5, <2>1, HasFirstAndLast
  <2>3. t \in Delayed /\ Drifting(t) /\ t \notin U
    BY <2>2 DEF S
  <2>4. PICK u \in Upstream(t) : Drifting(u) /\ (drift[u] \in Strong \/ u \in Delayed)
    BY <1>2, <2>3, DelayedUnfold DEF Fed
  <2>5. u \in Tasks /\ t \in dependencies[u] /\ t \in Hops(u)
    BY <2>3, <2>4 DEF Upstream, Hops
  <2>6. u \notin S
    BY <2>2, <2>5
  <2>7. CASE u \in Delayed
    <3>1. u \in U
      BY <2>4, <2>6, <2>7 DEF S
    <3>2. PICK p \in Propagation : u \in ToSet(Tail(p))
      BY <1>1, <3>1
    <3>3. p \in Seq(Tasks) /\ Len(p) \in Nat /\ Len(p) >= 2
      BY PathFacts
    <3>4. PICK i \in 2..Len(p) : u = p[i]
      BY <3>2, <3>3, TailFacts
    <3>5. i \in 1..Len(p)
      BY <3>3
    <3>6. \E q \in Propagation : t \in ToSet(Tail(q))
      BY <2>5, <3>4, <3>5, HopIsAffected
    <3> QED
      BY <1>1, <2>3, <3>6
  <2>8. CASE u \notin Delayed
    <3>1. u \in Origins
      BY <2>4, <2>5, <2>8, AnomalousIsDelayed DEF Origins
    <3>2. PICK p : p \in Chains(u)
      BY <2>5, ChainsFinite
    <3>3. p \in PathsFrom(u)
      BY <2>5, <3>2, PathsFromFacts
    <3>4. p \in Propagation
      BY <3>1, <3>3 DEF Propagation
    <3>5. p[1] = u
      BY <3>2 DEF Chains
    <3>6. 1 \in 1..Len(p)
      <4>1. Len(p) \in Nat /\ Len(p) >= 2
        BY <3>4, PathFacts
      <4> QED
        BY <4>1
    <3>7. \E q \in Propagation : t \in ToSet(Tail(q))
      BY <2>5, <3>4, <3>5, <3>6, HopIsAffected
    <3> QED
      BY <1>1, <2>3, <3>7
  <2> QED
    BY <2>7, <2>8
<1>6. D \subseteq U
  BY <1>5
<1> QED
  BY <1>4, <1>6 DEF U

\* The origins are the strongly drifting tasks that no strong drift explains, however
\* far upstream; every other one lies on a path from an origin.
THEOREM OriginsDoExplainDrift == PublishSpec => []OriginsExplainDrift
<1>1. ASSUME ResultIInv PROVE OriginsExplainDrift
  <2> SUFFICES ASSUME Computed PROVE OriginsExplainDrift
    BY DEF OriginsExplainDrift
  <2>1. Given /\ propagation = Propagation
    BY <1>1 DEF ResultIInv, Results, Computed
  <2>2. ASSUME NEW p \in propagation PROVE drift[p[1]] \in Strong /\ p[1] \notin Delayed
    <3>1. p[1] \in Origins
      BY <2>1, PathFacts
    <3> QED
      BY <2>1, <3>1, AnomalousIsDelayed DEF Origins
  <2>3. ASSUME NEW t \in Delayed, drift[t] \in Strong
        PROVE  \E p \in propagation : t \in ToSet(Tail(p))
    <3>1. Drifting(t)
      BY <2>3 DEF Drifting, Strong, High, Critical, Normal
    <3>2. t \in UNION {ToSet(Tail(p)) : p \in Propagation}
      BY <2>1, <3>1, AffectedFacts
    <3> QED
      BY <2>1, <3>2
  <2> QED
    BY <2>2, <2>3 DEF OriginsExplainDrift
<1> QED
  BY <1>1, AlwaysResults, PTL

-------------------------------------------------------------------------------
(* DocumentAddsUp.                                                         *)

\* Finite sets without a common element count together.
LEMMA Disjoint ==
  ASSUME NEW S, IsFiniteSet(S), NEW T, IsFiniteSet(T), S \cap T = {}
  PROVE  Cardinality(S \cup T) = Cardinality(S) + Cardinality(T)
<1>1. /\ Cardinality(S \cup T) = Cardinality(S) + Cardinality(T) - Cardinality(S \cap T)
      /\ Cardinality(S) \in Nat /\ Cardinality(T) \in Nat
  BY FS_Union, FS_CardinalityType
<1>2. Cardinality(S \cap T) = 0
  BY FS_EmptySet
<1> QED
  BY <1>1, <1>2

\* The tasks with a drift of severity s.
OfSeverity(s) == {t \in Tasks : drift[t] = s}

\* Each analysed task has one severity, and an anomalous one is above NORMAL.
LEMMA CountFacts ==
  ASSUME Given
  PROVE  LET anomalous == {t \in Tasks : drift[t] >= Medium}
         IN  /\ Cardinality(Drifted) = Cardinality(OfSeverity(0)) + Cardinality(anomalous)
             /\ Cardinality(anomalous) = Cardinality(OfSeverity(1)) + Cardinality(OfSeverity(2))
                                         + Cardinality(OfSeverity(3))
<1> DEFINE anomalous == {t \in Tasks : drift[t] >= Medium}
<1>1. \A t \in Tasks : drift[t] \in -1..3 /\ (t \in Drifted <=> drift[t] # -1)
  BY GivenFacts
<1>2. Drifted \subseteq Tasks
  BY GivenFacts
<1>3. /\ IsFiniteSet(anomalous)
      /\ \A s : IsFiniteSet(OfSeverity(s)) /\ OfSeverity(s) \subseteq Tasks
  <2>1. anomalous \subseteq Tasks /\ \A s : OfSeverity(s) \subseteq Tasks
    BY DEF OfSeverity
  <2> HIDE DEF anomalous
  <2> QED
    BY <2>1, TaskFacts, FS_Subset
<1>4. Drifted = OfSeverity(0) \cup anomalous /\ OfSeverity(0) \cap anomalous = {}
  BY <1>1, <1>2 DEF OfSeverity, Medium
<1>5. /\ anomalous = (OfSeverity(1) \cup OfSeverity(2)) \cup OfSeverity(3)
      /\ (OfSeverity(1) \cup OfSeverity(2)) \cap OfSeverity(3) = {}
      /\ OfSeverity(1) \cap OfSeverity(2) = {}
  BY <1>1 DEF OfSeverity, Medium
<1> HIDE DEF anomalous
<1>6. Cardinality(Drifted) = Cardinality(OfSeverity(0)) + Cardinality(anomalous)
  BY <1>3, <1>4, Disjoint
<1>7. IsFiniteSet(OfSeverity(1) \cup OfSeverity(2))
  BY <1>3, FS_Union
<1>8. Cardinality(OfSeverity(1) \cup OfSeverity(2))
        = Cardinality(OfSeverity(1)) + Cardinality(OfSeverity(2))
  BY <1>3, <1>5, Disjoint
<1>9. Cardinality(anomalous)
        = Cardinality(OfSeverity(1) \cup OfSeverity(2)) + Cardinality(OfSeverity(3))
  BY <1>3, <1>5, <1>7, Disjoint
<1> QED
  BY <1>6, <1>8, <1>9 DEF anomalous

\* The tasks that are counted are tasks, those that were analysed among them, and are
\* the ones that the document's parts name.
LEMMA CoverageFacts ==
  ASSUME Given, IsPublished, propagation = Propagation
  PROVE  /\ Cardinality(Drifted) <= Cardinality(AllTasks)
         /\ AllTasks = listed \cup Drifted \cup signalled
                        \cup UNION {dependencies[t] : t \in listed}
<1>1. \A p \in Propagation : ToSet(p) \subseteq Tasks
  <2> SUFFICES ASSUME NEW p \in Propagation PROVE ToSet(p) \subseteq Tasks
    OBVIOUS
  <2>1. p \in Seq(Tasks)
    BY PathFacts
  <2> QED
    BY <2>1 DEF ToSet
<1>2. Linked \subseteq Tasks
  BY DEF Linked, Edges
<1>3. listed \subseteq Tasks /\ Drifted \subseteq Tasks
  BY GivenFacts DEF IsPublished
<1>4. AllTasks \subseteq Tasks /\ Drifted \subseteq AllTasks
  BY <1>1, <1>2, <1>3 DEF AllTasks, IsPublished
<1>5. IsFiniteSet(AllTasks)
  BY <1>4, TaskFacts, FS_Subset
<1>6. Cardinality(Drifted) <= Cardinality(AllTasks)
  BY <1>4, <1>5, FS_Subset
<1> DEFINE N == UNION {dependencies[t] : t \in listed}
<1>7. N \subseteq Linked
  <2> SUFFICES ASSUME NEW t \in listed, NEW n \in dependencies[t] PROVE n \in Linked
    OBVIOUS
  <2>1. <<t, n>> \in Edges
    BY <1>3, GivenFacts DEF Edges
  <2> QED
    BY <2>1 DEF Linked
<1>8. Linked \subseteq listed \cup N
  <2> SUFFICES ASSUME NEW e \in Edges PROVE e[1] \in listed /\ e[2] \in N
    BY DEF Linked
  <2>1. e[1] \in Tasks /\ e[2] \in dependencies[e[1]] /\ e[1] \in Linked
    BY DEF Edges, Linked
  <2>2. e[1] \in listed
    BY <2>1 DEF IsPublished
  <2> QED
    BY <2>1, <2>2
<1>9. UNION {ToSet(p) : p \in propagation} \subseteq Drifted
  <2> SUFFICES ASSUME NEW p \in Propagation PROVE ToSet(p) \subseteq Drifted
    OBVIOUS
  <2>1. p \in Seq(Tasks) /\ \A i \in 1..Len(p) : p[i] \in Tasks /\ Drifting(p[i])
    BY PathFacts
  <2>2. \A i \in 1..Len(p) : p[i] \in Drifted
    BY <2>1, GivenFacts DEF Drifting, Normal
  <2> QED
    BY <2>1, <2>2 DEF ToSet
<1> HIDE DEF N
<1>10. AllTasks = listed \cup Drifted \cup signalled \cup N
  BY <1>7, <1>8, <1>9 DEF AllTasks
<1> QED
  BY <1>6, <1>10 DEF N

\* The document agrees with itself and with the graph: each task it names is counted
\* once and the coverage is at most 100 %; the anomalous handoffs are those it lists;
\* the affected tasks are those a delay
\* reaches; what a path or the primary origin names has a drift; a path scores more
\* than nothing, and the most exactly when all it affects is critical; without a
\* primary origin an anomaly is one of handoffs.
THEOREM DocumentDoesAddUp == PublishSpec => []DocumentAddsUp
<1>1. ASSUME ResultIInv PROVE DocumentAddsUp
  <2> SUFFICES ASSUME Published PROVE DocumentAddsUp
    BY DEF DocumentAddsUp
  <2> DEFINE s == document.summary
             d == document.drifts
             S(p) == Score(p)
  <2>1. /\ Given /\ impact = Impacts /\ propagation = Propagation /\ primary = PrimaryOrigin
        /\ IsPublished /\ document = Document
    BY <1>1 DEF ResultIInv, Results, IsPublished, Published
  <2>2. /\ s = Summary /\ d = [t \in Drifted |-> drift[t]]
        /\ document.paths = Propagation /\ document.primary = PrimaryOrigin
        /\ document.overall = Overall
        /\ document.impacts = [t \in Drifted |-> impact[t]]
    BY <2>1 DEF Document
  <2>3. /\ s.total = Cardinality(AllTasks) /\ s.analyzed = Cardinality(Drifted)
        /\ s.anomalousTasks = Cardinality({t \in Tasks : drift[t] >= Medium})
        /\ s.anomalousHandoffs = Cardinality({e \in Edges : handoff[e] >= Medium})
        /\ s.affected = AffectedTasks
    BY <2>2 DEF Summary
  <2>4. /\ s.tasks[Normal] = Cardinality(OfSeverity(0))
        /\ s.tasks[Medium] = Cardinality(OfSeverity(1))
        /\ s.tasks[High] = Cardinality(OfSeverity(2))
        /\ s.tasks[Critical] = Cardinality(OfSeverity(3))
    <3>1. s.tasks = [v \in Severities |-> Cardinality({t \in Tasks : drift[t] = v})]
      BY <2>2 DEF Summary
    <3> QED
      BY <3>1 DEF OfSeverity, Severities, Normal, Medium, High, Critical
  <2> HIDE DEF s, d
  <2>5. /\ s.analyzed = s.tasks[Normal] + s.anomalousTasks
        /\ s.anomalousTasks = s.tasks[Medium] + s.tasks[High] + s.tasks[Critical]
    BY <2>1, <2>3, <2>4, CountFacts
  <2>6. s.analyzed <= s.total
    BY <2>1, <2>3, CoverageFacts
  <2>15. s.total = Cardinality(DOMAIN document.dependencies \cup DOMAIN d \cup document.signals
                                 \cup UNION Range(document.dependencies))
    <3>1. /\ document.dependencies = [t \in listed |-> dependencies[t]]
          /\ document.signals = signalled /\ DOMAIN d = Drifted
      BY <2>1, <2>2 DEF Document
    <3>2. /\ DOMAIN document.dependencies = listed
          /\ Range(document.dependencies) = {dependencies[t] : t \in listed}
      BY <3>1 DEF Range
    <3> QED
      BY <2>1, <2>3, <3>1, <3>2, CoverageFacts
  <2>16. s.anomalousHandoffs = Cardinality({e \in DOMAIN document.handoffs :
                                              document.handoffs[e] > Normal})
    <3> DEFINE listedEdges == {e \in DOMAIN document.handoffs : document.handoffs[e] > Normal}
               lateEdges == {e \in Edges : handoff[e] >= Medium}
    <3>1. document.handoffs = [e \in DriftedEdges |-> handoff[e]]
      BY <2>1 DEF Document
    <3>2. \A e : e \in listedEdges <=> e \in DriftedEdges /\ handoff[e] > 0
      BY <3>1 DEF Normal
    <3>3. \A e : e \in lateEdges <=> e \in Edges /\ handoff[e] >= 1
      BY DEF Medium
    <3>4. s.anomalousHandoffs = Cardinality(lateEdges)
      BY <2>3
    <3> HIDE DEF listedEdges, lateEdges
    <3>5. listedEdges = lateEdges
      <4>1. \A e \in DriftedEdges : handoff[e] \in 0..3 /\ e \in Edges
        BY <2>1, GivenFacts
      <4>2. \A e \in Edges : handoff[e] \in -1..3 /\ (e \in DriftedEdges <=> handoff[e] # -1)
        BY <2>1, GivenFacts
      <4>3. \A e : e \in listedEdges <=> e \in lateEdges
        BY <3>2, <3>3, <4>1, <4>2
      <4> QED
        BY <4>3
    <3> QED
      BY <3>4, <3>5 DEF listedEdges
  <2>7. s.affected = Cardinality({t \in Delayed : Drifting(t)})
    BY <2>1, <2>3, AffectedFacts DEF AffectedTasks
  <2>8. ASSUME NEW p \in document.paths
        PROVE  /\ p \in Seq(Tasks) /\ Len(p) \in Nat /\ Len(p) >= 2
               /\ \A i \in 1..Len(p) : /\ p[i] \in DOMAIN d /\ d[p[i]] = drift[p[i]]
                                       /\ drift[p[i]] \in 1..3
    <3>1. p \in Propagation
      BY <2>2
    <3>2. p \in Seq(Tasks) /\ Len(p) \in Nat /\ Len(p) >= 2
      BY <2>1, <3>1, PathFacts
    <3>3. \A i \in 1..Len(p) : p[i] \in Tasks /\ Drifting(p[i])
      BY <2>1, <3>1, PathFacts
    <3>4. \A i \in 1..Len(p) : drift[p[i]] \in 1..3 /\ p[i] \in Drifted
      BY <2>1, <3>3, GivenFacts DEF Drifting, Normal
    <3> QED
      BY <2>2, <3>2, <3>4
  <2>9. ASSUME NEW p \in document.paths, NEW t \in ToSet(p)
        PROVE  t \in DOMAIN d /\ d[t] > Normal
    <3>1. PICK i \in 1..Len(p) : t = p[i]
      BY <2>8 DEF ToSet
    <3> QED
      BY <2>8, <3>1 DEF Normal
  <2>10. ASSUME NEW p \in document.paths
         PROVE  /\ 0 < S(p).num /\ S(p).num <= S(p).den
                /\ (S(p).num = S(p).den) = (\A t \in ToSet(Tail(p)) : d[t] = Critical)
    <3>1. /\ 0 < Score(p).num /\ Score(p).num <= Score(p).den
          /\ Score(p).num = Score(p).den <=> \A i \in 2..Len(p) : drift[p[i]] = 3
      BY <2>8, ScoreFacts
    <3>2. ToSet(Tail(p)) = {p[i] : i \in 2..Len(p)}
      BY <2>8, TailFacts
    <3>3. \A i \in 2..Len(p) : d[p[i]] = drift[p[i]]
      BY <2>8
    <3>4. (\A i \in 2..Len(p) : drift[p[i]] = 3) <=> \A t \in ToSet(Tail(p)) : d[t] = Critical
      BY <3>2, <3>3 DEF Critical
    <3> QED
      BY <3>1, <3>4
  <2>11. Candidates = {} => PrimaryOrigin = NoTask /\ \A t \in Tasks : ~Drifting(t)
    BY <2>1, RootFacts DEF PrimaryOrigin
  <2>12. Candidates # {} => PrimaryOrigin \in Candidates
    <3> SUFFICES ASSUME Candidates # {} PROVE PrimaryOrigin \in Candidates
      OBVIOUS
    <3>1. RootCandidates # {} /\ RootCandidates \in SUBSET Tasks
      BY <2>1, RootFacts
    <3>2. Best(RootCandidates) \in RootCandidates
      BY <2>1, <3>1, BestFacts
    <3>3. RootCandidates \subseteq Candidates
      BY DEF RootCandidates
    <3> QED
      BY <3>2, <3>3 DEF PrimaryOrigin
  <2>13. ASSUME document.primary # NoTask
         PROVE  /\ d[document.primary] > Normal
                /\ document.impacts[document.primary] \in {"OWN_DRIFT", "COMBINED"}
    <3>1. document.primary \in Candidates
      BY <2>2, <2>11, <2>12, <2>13
    <3>2. document.primary \in Tasks /\ Drifting(document.primary)
      BY <2>1, <3>1, CandidateFacts
    <3>3. document.primary \in Drifted
      BY <2>1, <3>2, GivenFacts DEF Drifting, Normal
    <3>4. d[document.primary] > Normal
      BY <2>2, <3>2, <3>3 DEF Drifting
    <3>5. document.impacts[document.primary] = impact[document.primary]
      BY <2>2, <3>3
    <3> QED
      BY <3>1, <3>4, <3>5 DEF Candidates
  <2>14. ASSUME document.primary = NoTask, document.overall > Normal
         PROVE  s.anomalousTasks = 0 /\ s.anomalousHandoffs > 0
    <3>1. NoTask \notin Tasks
      BY TasksAssumption DEF NoTask
    <3>2. Candidates = {}
      BY <2>2, <2>12, <2>14, <3>1 DEF Candidates
    <3>3. \A t \in Tasks : ~(drift[t] >= 1)
      BY <2>1, <2>11, <3>2, GivenFacts DEF Drifting, Normal
    <3>4. {t \in Tasks : drift[t] >= Medium} = {}
      BY <3>3 DEF Medium
    <3>5. s.anomalousTasks = 0
      BY <2>3, <3>4, FS_EmptySet
    <3>6. \E e \in Edges : handoff[e] >= Medium
      <4>1. Overall \in 0..3 /\ Overall > 0
        BY <2>1, <2>2, <2>14, OverallFacts DEF Normal
      <4>2. \A t \in Drifted : drift[t] # Overall
        BY <2>1, <3>3, <4>1, GivenFacts
      <4>3. \E e \in DriftedEdges : handoff[e] = Overall
        BY <2>1, <4>1, <4>2, OverallFacts
      <4>4. DriftedEdges \subseteq Edges
        BY <2>1, GivenFacts
      <4> QED
        BY <4>1, <4>3, <4>4 DEF Medium
    <3> DEFINE H == {e \in Edges : handoff[e] >= Medium}
    <3>7. H # {} /\ H \subseteq DriftedEdges
      BY <2>1, <3>6, GivenFacts DEF Medium
    <3>8. IsFiniteSet(DriftedEdges)
      BY <2>1, GivenFacts
    <3>9. s.anomalousHandoffs = Cardinality(H)
      BY <2>3
    <3> HIDE DEF H
    <3>10. IsFiniteSet(H)
      BY <3>7, <3>8, FS_Subset
    <3>11. Cardinality(H) \in Nat /\ Cardinality(H) # 0
      BY <3>7, <3>10, FS_CardinalityType, FS_EmptySet
    <3> QED
      BY <3>5, <3>9, <3>11
  <2> QED
    BY <2>5, <2>6, <2>7, <2>9, <2>10, <2>13, <2>14, <2>15, <2>16 DEF DocumentAddsUp, s, d
<1> QED
  BY <1>1, AlwaysResults, PTL

-------------------------------------------------------------------------------
(***************************************************************************)
(* SeriesStatistics, for any durations and any policy.  Medians are taken  *)
(* as order statistics: what is said of them counts the places below and   *)
(* up to a value.                                                          *)
(***************************************************************************)

\* The places at which f is below x, up to x, and x.
BelowValue(f, x) == {i \in DOMAIN f : f[i] < x}
UpToValue(f, x) == {i \in DOMAIN f : f[i] <= x}
AtValue(f, x) == {i \in DOMAIN f : f[i] = x}

\* x is the k-th smallest value of f.
IsSmallest(f, k, x) ==
  /\ x \in Range(f)
  /\ Cardinality(BelowValue(f, x)) < k
  /\ k <= Cardinality(UpToValue(f, x))

\* How many of finitely many places there are.
LEMMA PlacesFacts ==
  ASSUME NEW D, IsFiniteSet(D), NEW f \in [D -> Int], NEW x \in Int
  PROVE  /\ IsFiniteSet(BelowValue(f, x)) /\ Cardinality(BelowValue(f, x)) \in Nat
         /\ IsFiniteSet(UpToValue(f, x)) /\ Cardinality(UpToValue(f, x)) \in Nat
         /\ IsFiniteSet(AtValue(f, x)) /\ Cardinality(AtValue(f, x)) \in Nat
         /\ Cardinality(D) \in Nat
         /\ Cardinality(AtValue(f, x)) <= Cardinality(UpToValue(f, x))
         /\ Cardinality(BelowValue(f, x)) + Cardinality(AtValue(f, x)) <= Cardinality(D)
<1>1. /\ BelowValue(f, x) \subseteq D /\ UpToValue(f, x) \subseteq D /\ AtValue(f, x) \subseteq D
      /\ AtValue(f, x) \subseteq UpToValue(f, x)
      /\ BelowValue(f, x) \cap AtValue(f, x) = {}
      /\ BelowValue(f, x) \cup AtValue(f, x) \subseteq D
  BY DEF BelowValue, UpToValue, AtValue
<1>2. IsFiniteSet(BelowValue(f, x)) /\ IsFiniteSet(UpToValue(f, x)) /\ IsFiniteSet(AtValue(f, x))
  BY <1>1, FS_Subset
<1>3. /\ Cardinality(BelowValue(f, x)) \in Nat /\ Cardinality(UpToValue(f, x)) \in Nat
      /\ Cardinality(AtValue(f, x)) \in Nat /\ Cardinality(D) \in Nat
  BY <1>2, FS_CardinalityType
<1>4. Cardinality(AtValue(f, x)) <= Cardinality(UpToValue(f, x))
  BY <1>1, <1>2, FS_Subset
<1>5. Cardinality(BelowValue(f, x) \cup AtValue(f, x)) <= Cardinality(D)
  BY <1>1, FS_Subset
<1>6. Cardinality(BelowValue(f, x) \cap AtValue(f, x)) = 0
  BY <1>1, FS_EmptySet
<1>7. Cardinality(BelowValue(f, x) \cup AtValue(f, x))
        = Cardinality(BelowValue(f, x)) + Cardinality(AtValue(f, x))
            - Cardinality(BelowValue(f, x) \cap AtValue(f, x))
  BY <1>2, FS_Union
<1> QED
  BY <1>2, <1>3, <1>4, <1>5, <1>6, <1>7

\* There is one k-th smallest value.
LEMMA SmallestFacts ==
  ASSUME NEW D, IsFiniteSet(D), NEW f \in [D -> Int], NEW k \in 1..Cardinality(D)
  PROVE  /\ IsSmallest(f, k, Smallest(f, k))
         /\ \A x : IsSmallest(f, k, x) => x = Smallest(f, k)
         /\ Smallest(f, k) \in Range(f) /\ Smallest(f, k) \in Int
<1> DEFINE V == {f[i] : i \in D}
           G == {x \in V : k <= Cardinality(UpToValue(f, x))}
<1>1. Range(f) = V /\ V \in SUBSET Int
  BY DEF Range
<1>2. IsFiniteSet(V)
  BY ImageIsFinite
<1>3. Cardinality(D) \in Nat /\ k \in Nat /\ k >= 1 /\ k <= Cardinality(D)
  BY FS_CardinalityType
<1>4. V # {}
  <2>1. D # {}
    BY <1>3, FS_EmptySet
  <2> QED
    BY <2>1
<1>5. G \in SUBSET Int /\ IsFiniteSet(G)
  <2>1. G \subseteq V
    OBVIOUS
  <2> HIDE DEF G, V
  <2> QED
    BY <1>1, <1>2, <2>1, FS_Subset
<1>6. G # {}
  <2>1. PICK m \in V : \A x \in V : x <= m
    <3> HIDE DEF V
    <3> QED
      BY <1>1, <1>2, <1>4, HasExtremes
  <2>2. UpToValue(f, m) = D
    BY <2>1 DEF UpToValue
  <2> QED
    BY <1>3, <2>1, <2>2
<1>7. PICK g \in G : \A x \in G : g <= x
  <2> HIDE DEF G
  <2> QED
    BY <1>5, <1>6, HasExtremes
<1>8. g \in V /\ g \in Int /\ k <= Cardinality(UpToValue(f, g))
  BY <1>1, <1>7
<1>9. Cardinality(BelowValue(f, g)) < k
  <2>1. CASE BelowValue(f, g) = {}
    BY <1>3, <2>1, FS_EmptySet
  <2>2. CASE BelowValue(f, g) # {}
    <3> DEFINE B == {x \in V : x < g}
    <3>1. B \in SUBSET Int /\ IsFiniteSet(B) /\ B # {}
      <4>1. B # {}
        BY <2>2 DEF BelowValue
      <4>2. B \subseteq V
        OBVIOUS
      <4> HIDE DEF B, V
      <4> QED
        BY <1>1, <1>2, <4>1, <4>2, FS_Subset
    <3>2. PICK u \in B : \A x \in B : x <= u
      <4> HIDE DEF B
      <4> QED
        BY <3>1, HasExtremes
    <3>3. u \in V /\ u \in Int /\ u < g
      BY <1>1, <3>2
    <3>4. BelowValue(f, g) = UpToValue(f, u)
      <4>1. \A i \in D : f[i] < g <=> f[i] <= u
        BY <1>8, <3>2, <3>3
      <4>2. \A i : i \in BelowValue(f, g) <=> i \in UpToValue(f, u)
        BY <4>1 DEF BelowValue, UpToValue
      <4> QED
        BY <4>2
    <3>5. ~(k <= Cardinality(UpToValue(f, u)))
      BY <1>7, <1>8, <3>3
    <3>6. Cardinality(UpToValue(f, u)) \in Nat
      BY <3>3, PlacesFacts
    <3> QED
      BY <1>3, <3>4, <3>5, <3>6
  <2> QED
    BY <2>1, <2>2
<1>10. IsSmallest(f, k, g)
  BY <1>1, <1>8, <1>9 DEF IsSmallest
<1>11. Smallest(f, k) = CHOOSE x : IsSmallest(f, k, x)
  <2>1. \A x : IsSmallest(f, k, x) <=>
          x \in Range(f) /\ (/\ Cardinality({i \in DOMAIN f : f[i] < x}) < k
                             /\ k <= Cardinality({i \in DOMAIN f : f[i] <= x}))
    BY DEF IsSmallest, BelowValue, UpToValue
  <2> QED
    BY <2>1 DEF Smallest
<1>12. ASSUME NEW x, NEW y, IsSmallest(f, k, x), IsSmallest(f, k, y) PROVE ~(x < y)
  <2>1. x \in Int /\ y \in Int
    BY <1>1, <1>12 DEF IsSmallest
  <2> SUFFICES ASSUME x < y PROVE FALSE
    OBVIOUS
  <2>2. UpToValue(f, x) \subseteq BelowValue(f, y)
    BY <2>1 DEF UpToValue, BelowValue
  <2>3. /\ IsFiniteSet(BelowValue(f, y)) /\ Cardinality(BelowValue(f, y)) \in Nat
        /\ Cardinality(UpToValue(f, x)) \in Nat
    BY <2>1, PlacesFacts
  <2>4. Cardinality(UpToValue(f, x)) <= Cardinality(BelowValue(f, y))
    BY <2>2, <2>3, FS_Subset
  <2>5. k <= Cardinality(UpToValue(f, x)) /\ Cardinality(BelowValue(f, y)) < k
    BY <1>12 DEF IsSmallest
  <2> QED
    BY <1>3, <2>3, <2>4, <2>5
<1>13. IsSmallest(f, k, Smallest(f, k))
  BY <1>10, <1>11
<1>14. \A x : IsSmallest(f, k, x) => x \in Int
  BY <1>1 DEF IsSmallest
<1>15. ASSUME NEW x, IsSmallest(f, k, x) PROVE x = Smallest(f, k)
  <2> DEFINE y == Smallest(f, k)
  <2>1. ~(x < y) /\ ~(y < x) /\ x \in Int /\ y \in Int
    BY <1>12, <1>13, <1>14, <1>15
  <2> HIDE DEF y
  <2>2. x = y
    BY <2>1
  <2> QED
    BY <2>2 DEF y
<1> QED
  BY <1>13, <1>14, <1>15 DEF IsSmallest

\* The median is the mean of the two values in the middle, or of one taken twice.
LEMMA MedianFacts ==
  ASSUME NEW D, IsFiniteSet(D), D # {}, NEW f \in [D -> Int]
  PROVE  \E lo, hi \in 1..Cardinality(D) :
           /\ lo + hi = Cardinality(D) + 1
           /\ 2 * lo >= Cardinality(D) /\ 2 * hi <= Cardinality(D) + 2 /\ lo <= hi
           /\ Median(f) = (Smallest(f, lo) + Smallest(f, hi)) \div 2
           /\ Smallest(f, lo) \in Int /\ Smallest(f, hi) \in Int
           /\ Median(f) \in Int
<1> DEFINE n == Cardinality(D)
           lo == (n + 1) \div 2
           hi == n \div 2 + 1
<1>1. n \in Nat /\ n # 0
  BY FS_CardinalityType, FS_EmptySet
<1>2. Median(f) = IF n % 2 = 1 THEN Smallest(f, lo)
                  ELSE (Smallest(f, lo) + Smallest(f, hi)) \div 2
  BY DEF Median
<1> HIDE DEF n
<1>3. /\ lo \in 1..n /\ hi \in 1..n /\ lo + hi = n + 1 /\ 2 * lo >= n /\ 2 * hi <= n + 2 /\ lo <= hi
      /\ n % 2 = 1 => lo = hi
  BY <1>1
<1>4. Smallest(f, lo) \in Int /\ Smallest(f, hi) \in Int
  BY <1>3, SmallestFacts DEF n
<1> HIDE DEF lo, hi
<1>5. Median(f) = (Smallest(f, lo) + Smallest(f, hi)) \div 2
  <2> DEFINE x == Smallest(f, lo)
             y == Smallest(f, hi)
  <2>1. x \in Int /\ y \in Int /\ (n % 2 = 1 => x = y)
    BY <1>3, <1>4
  <2>2. Median(f) = IF n % 2 = 1 THEN x ELSE (x + y) \div 2
    BY <1>2
  <2> HIDE DEF x, y
  <2>3. Median(f) = (x + y) \div 2
    BY <2>1, <2>2
  <2> QED
    BY <2>3 DEF x, y
<1>6. Median(f) \in Int
  BY <1>4, <1>5
<1> QED
  BY <1>3, <1>4, <1>5, <1>6 DEF n

\* The median lies between two of the values.
LEMMA MedianBetween ==
  ASSUME NEW D, IsFiniteSet(D), D # {}, NEW f \in [D -> Int]
  PROVE  \E i, j \in D : Median(f) = (f[i] + f[j]) \div 2
<1>1. PICK lo, hi \in 1..Cardinality(D) : Median(f) = (Smallest(f, lo) + Smallest(f, hi)) \div 2
  BY MedianFacts
<1>2. Smallest(f, lo) \in Range(f) /\ Smallest(f, hi) \in Range(f)
  BY SmallestFacts
<1>3. PICK i \in D : f[i] = Smallest(f, lo)
  BY <1>2 DEF Range
<1>4. PICK j \in D : f[j] = Smallest(f, hi)
  BY <1>2 DEF Range
<1> QED
  BY <1>1, <1>3, <1>4

\* What more than half of the values are is the median.
LEMMA Majority ==
  ASSUME NEW D, IsFiniteSet(D), NEW f \in [D -> Int], NEW v \in Int,
         2 * Cardinality(AtValue(f, v)) > Cardinality(D)
  PROVE  Median(f) = v
<1> DEFINE n == Cardinality(D)
           same == Cardinality(AtValue(f, v))
           below == Cardinality(BelowValue(f, v))
           upTo == Cardinality(UpToValue(f, v))
<1>1. n \in Nat /\ same \in Nat /\ below \in Nat /\ upTo \in Nat /\ same <= upTo /\ below + same <= n
  BY PlacesFacts
<1>2. D # {} /\ v \in Range(f)
  <2>1. same # 0
    BY <1>1
  <2>2. AtValue(f, v) # {}
    BY <2>1, FS_EmptySet
  <2> QED
    BY <2>2 DEF AtValue, Range
<1>3. PICK lo, hi \in 1..n : /\ lo + hi = n + 1
                             /\ 2 * lo >= n /\ 2 * hi <= n + 2 /\ lo <= hi
                             /\ Median(f) = (Smallest(f, lo) + Smallest(f, hi)) \div 2
  BY <1>2, MedianFacts
<1>4. 2 * same > n
  OBVIOUS
<1>5. ASSUME NEW k \in 1..n, 2 * k >= n, 2 * k <= n + 2 PROVE Smallest(f, k) = v
  <2>1. below < k /\ k <= upTo
    <3> HIDE DEF n, same, below, upTo
    <3> QED
      BY <1>1, <1>4, <1>5
  <2>2. IsSmallest(f, k, v)
    BY <1>2, <2>1 DEF IsSmallest
  <2> QED
    BY <2>2, SmallestFacts
<1>6. Smallest(f, lo) = v /\ Smallest(f, hi) = v
  <2>1. 2 * lo <= n + 2 /\ 2 * hi >= n
    <3> HIDE DEF n
    <3> QED
      BY <1>1, <1>3
  <2> QED
    BY <1>3, <1>5, <2>1
<1> QED
  BY <1>3, <1>6

\* All but one of at least three are most of them.
LEMMA MostAreEqual ==
  ASSUME NEW D, IsFiniteSet(D), Cardinality(D) >= 3, NEW f \in [D -> Int], NEW v \in Int, NEW x \in Int,
         \A i \in D : i # x => f[i] = v
  PROVE  2 * Cardinality(AtValue(f, v)) > Cardinality(D)
<1>1. IsFiniteSet({x}) /\ Cardinality({x}) = 1
  BY FS_Singleton
<1>2. /\ Cardinality(D \ {x}) = Cardinality(D) - Cardinality(D \cap {x})
      /\ Cardinality(D \cap {x}) <= Cardinality({x})
  <2>1. Cardinality(D \ {x}) = Cardinality(D) - Cardinality(D \cap {x})
    BY FS_Difference
  <2>2. D \cap {x} \subseteq {x}
    OBVIOUS
  <2> QED
    BY <1>1, <2>1, <2>2, FS_Subset
<1>3. D \ {x} \subseteq AtValue(f, v)
  BY DEF AtValue
<1>4. /\ IsFiniteSet(AtValue(f, v)) /\ Cardinality(AtValue(f, v)) \in Nat
      /\ Cardinality(D) \in Nat
  BY PlacesFacts
<1>5. Cardinality(D \ {x}) <= Cardinality(AtValue(f, v))
  BY <1>3, <1>4, FS_Subset
<1>6. Cardinality(D \ {x}) \in Nat /\ Cardinality(D \cap {x}) \in Nat
  BY FS_Subset, FS_CardinalityType
<1> QED
  BY <1>1, <1>2, <1>4, <1>5, <1>6

\* One value among equal ones does not move their median, nor does none.
LEMMA AllButOne ==
  ASSUME NEW D, IsFiniteSet(D), Cardinality(D) >= 3, NEW f \in [D -> Int], NEW v \in Int, NEW x \in Int,
         \A i \in D : i # x => f[i] = v
  PROVE  Median(f) = v
<1>1. 2 * Cardinality(AtValue(f, v)) > Cardinality(D)
  BY MostAreEqual
<1> QED
  BY <1>1, Majority

\* The median of equal values.
LEMMA AllSame ==
  ASSUME NEW D, IsFiniteSet(D), D # {}, NEW f \in [D -> Int], NEW v \in Int,
         \A i \in D : f[i] = v
  PROVE  Median(f) = v
<1>1. AtValue(f, v) = D
  BY DEF AtValue
<1>2. Cardinality(D) \in Nat /\ Cardinality(D) # 0
  BY FS_CardinalityType, FS_EmptySet
<1> QED
  BY <1>1, <1>2, Majority

\* As many places are below x in f as are below x + c in f moved by c.
LEMMA PlacesMoved ==
  ASSUME NEW D, IsFiniteSet(D), NEW f \in [D -> Int], NEW E, NEW g \in [E -> Int],
         NEW h \in Bijection(D, E), NEW c \in Int, \A i \in D : g[h[i]] = f[i] + c, NEW x \in Int
  PROVE  /\ Cardinality(BelowValue(g, x + c)) = Cardinality(BelowValue(f, x))
         /\ Cardinality(UpToValue(g, x + c)) = Cardinality(UpToValue(f, x))
<1>1. /\ h \in [D -> E] /\ \A i, j \in D : h[i] = h[j] => i = j
      /\ \A e \in E : \E i \in D : h[i] = e
  BY DEF Bijection, Injection, Surjection, IsInjective
<1>2. ASSUME NEW A \in SUBSET D, NEW B \in SUBSET E, \A i \in D : i \in A <=> h[i] \in B
      PROVE  Cardinality(B) = Cardinality(A)
  <2> DEFINE k == [i \in A |-> h[i]]
  <2>1. k \in Bijection(A, B)
    <3>1. k \in [A -> B] /\ \A i, j \in A : k[i] = k[j] => i = j
      BY <1>1, <1>2
    <3>2. \A e \in B : \E i \in A : k[i] = e
      BY <1>1, <1>2
    <3> HIDE DEF k
    <3> QED
      BY <3>1, <3>2 DEF Bijection, Injection, Surjection, IsInjective
  <2>2. ExistsBijection(A, B)
    BY <2>1 DEF ExistsBijection
  <2>3. IsFiniteSet(A)
    BY FS_Subset
  <2> QED
    BY <2>2, <2>3, FS_Bijection
<1>3. /\ BelowValue(f, x) \in SUBSET D /\ BelowValue(g, x + c) \in SUBSET E
      /\ UpToValue(f, x) \in SUBSET D /\ UpToValue(g, x + c) \in SUBSET E
  BY DEF BelowValue, UpToValue
<1>4. \A i \in D : i \in BelowValue(f, x) <=> h[i] \in BelowValue(g, x + c)
  BY <1>1 DEF BelowValue
<1>5. \A i \in D : i \in UpToValue(f, x) <=> h[i] \in UpToValue(g, x + c)
  BY <1>1 DEF UpToValue
<1> QED
  BY <1>2, <1>3, <1>4, <1>5

\* The values of g are those of f moved by c, at the places h says.
Moved(D, f, g, h, c) == \A i \in D : g[h[i]] = f[i] + c

\* The median moves with the values, in whatever order they are.
LEMMA MedianMoved ==
  ASSUME NEW D, IsFiniteSet(D), D # {}, NEW f \in [D -> Int], NEW E, NEW g \in [E -> Int],
         NEW h \in Bijection(D, E), NEW c \in Int, Moved(D, f, g, h, c)
  PROVE  Median(g) = Median(f) + c
<1> DEFINE n == Cardinality(D)
           lo == (n + 1) \div 2
           hi == n \div 2 + 1
<1>1. n \in Nat /\ n # 0
  BY FS_CardinalityType, FS_EmptySet
<1>2. IsFiniteSet(E) /\ Cardinality(E) = n
  <2>1. ExistsBijection(D, E)
    BY DEF ExistsBijection
  <2> QED
    BY <2>1, FS_Bijection
<1>3. /\ h \in [D -> E] /\ \A e \in E : \E i \in D : h[i] = e
  BY DEF Bijection, Injection, Surjection
<1>4. lo \in 1..n /\ hi \in 1..n
  <2> HIDE DEF n
  <2> QED
    BY <1>1
<1>5. ASSUME NEW k \in 1..n PROVE Smallest(g, k) = Smallest(f, k) + c
  <2> DEFINE x == Smallest(f, k)
  <2>1. x \in Int /\ x \in Range(f) /\ IsSmallest(f, k, x)
    BY <1>5, SmallestFacts
  <2>2. x + c \in Range(g)
    <3>1. PICK i \in D : f[i] = x
      BY <2>1 DEF Range
    <3>2. g[h[i]] = x + c /\ h[i] \in E
      BY <1>3, <3>1 DEF Moved
    <3> QED
      BY <3>2 DEF Range
  <2> HIDE DEF x
  <2>3. /\ Cardinality(BelowValue(g, x + c)) = Cardinality(BelowValue(f, x))
        /\ Cardinality(UpToValue(g, x + c)) = Cardinality(UpToValue(f, x))
    BY <2>1, PlacesMoved DEF Moved
  <2>4. IsSmallest(g, k, x + c)
    BY <2>1, <2>2, <2>3 DEF IsSmallest
  <2>5. x + c = Smallest(g, k)
    BY <1>2, <2>4, SmallestFacts
  <2> QED
    BY <2>5 DEF x
<1>6. /\ Median(f) = IF n % 2 = 1 THEN Smallest(f, lo)
                     ELSE (Smallest(f, lo) + Smallest(f, hi)) \div 2
      /\ Median(g) = IF n % 2 = 1 THEN Smallest(g, lo)
                     ELSE (Smallest(g, lo) + Smallest(g, hi)) \div 2
  BY <1>2 DEF Median
<1>7. Smallest(f, lo) \in Int /\ Smallest(f, hi) \in Int
  BY <1>4, SmallestFacts
<1>8. \A x, y \in Int : ((x + c) + (y + c)) \div 2 = (x + y) \div 2 + c
  OBVIOUS
<1>9. Smallest(g, lo) = Smallest(f, lo) + c /\ Smallest(g, hi) = Smallest(f, hi) + c
  BY <1>4, <1>5
<1> HIDE DEF n, lo, hi
<1>10. ((Smallest(f, lo) + c) + (Smallest(f, hi) + c)) \div 2
         = (Smallest(f, lo) + Smallest(f, hi)) \div 2 + c
  BY <1>7, <1>8
<1> QED
  BY <1>6, <1>9, <1>10

\* The values of g are the opposites of those of f, and their halves are integers.
Opposite(D, f, g, h) == \A i \in D : g[h[i]] = -f[i] /\ f[i] % 2 = 0

\* The median of opposite values is the opposite.
LEMMA MedianNegated ==
  ASSUME NEW D, IsFiniteSet(D), D # {}, NEW f \in [D -> Int], NEW E, NEW g \in [E -> Int],
         NEW h \in Bijection(D, E), Opposite(D, f, g, h)
  PROVE  Median(g) = -Median(f)
<1> DEFINE n == Cardinality(D)
           minus == [i \in D |-> -f[i]]
<1>1. n \in Nat /\ n # 0
  BY FS_CardinalityType, FS_EmptySet
<1>2. minus \in [D -> Int]
  OBVIOUS
<1>3. Median(g) = Median(minus)
  <2> DEFINE c == 0
  <2>1. c \in Int /\ Moved(D, minus, g, h, c)
    <3>1. \A i \in D : -f[i] = -f[i] + 0
      OBVIOUS
    <3> QED
      BY <3>1 DEF Moved, Opposite
  <2>2. Median(minus) \in Int
    BY <1>2, MedianFacts
  <2> HIDE DEF minus, c
  <2>3. Median(g) = Median(minus) + c
    BY <1>2, <2>1, MedianMoved
  <2>4. Median(minus) + c = Median(minus)
    BY <2>2 DEF c
  <2> QED
    BY <2>3, <2>4
<1>4. ASSUME NEW k \in 1..n PROVE Smallest(minus, n + 1 - k) = -Smallest(f, k)
  <2> DEFINE x == Smallest(f, k)
  <2>1. x \in Int /\ x \in Range(f) /\ IsSmallest(f, k, x)
    BY <1>4, SmallestFacts
  <2> HIDE DEF x
  <2>2. -x \in Int /\ -x \in Range(minus)
    <3>1. PICK i \in D : f[i] = x
      BY <2>1 DEF Range
    <3>2. minus[i] = -x
      BY <3>1
    <3> QED
      BY <2>1, <3>2 DEF Range
  <2>3. BelowValue(minus, -x) = D \ UpToValue(f, x)
    <3>1. \A i \in D : -f[i] < -x <=> ~(f[i] <= x)
      BY <2>1
    <3>2. \A i \in D : i \in BelowValue(minus, -x) <=> -f[i] < -x
      BY DEF BelowValue
    <3>3. \A i \in D : i \in UpToValue(f, x) <=> f[i] <= x
      BY DEF UpToValue
    <3>4. BelowValue(minus, -x) \subseteq D
      BY DEF BelowValue
    <3>5. \A i : i \in BelowValue(minus, -x) <=> i \in D /\ i \notin UpToValue(f, x)
      BY <3>1, <3>2, <3>3, <3>4
    <3> QED
      BY <3>5
  <2>4. UpToValue(minus, -x) = D \ BelowValue(f, x)
    <3>1. \A i \in D : -f[i] <= -x <=> ~(f[i] < x)
      BY <2>1
    <3>2. \A i \in D : i \in UpToValue(minus, -x) <=> -f[i] <= -x
      BY DEF UpToValue
    <3>3. \A i \in D : i \in BelowValue(f, x) <=> f[i] < x
      BY DEF BelowValue
    <3>4. UpToValue(minus, -x) \subseteq D
      BY DEF UpToValue
    <3>5. \A i : i \in UpToValue(minus, -x) <=> i \in D /\ i \notin BelowValue(f, x)
      BY <3>1, <3>2, <3>3, <3>4
    <3> QED
      BY <3>5
  <2>5. /\ Cardinality(D \ UpToValue(f, x)) = n - Cardinality(D \cap UpToValue(f, x))
        /\ Cardinality(D \ BelowValue(f, x)) = n - Cardinality(D \cap BelowValue(f, x))
    BY FS_Difference
  <2>6. D \cap UpToValue(f, x) = UpToValue(f, x) /\ D \cap BelowValue(f, x) = BelowValue(f, x)
    BY DEF UpToValue, BelowValue
  <2> DEFINE below == Cardinality(BelowValue(f, x))
             upTo == Cardinality(UpToValue(f, x))
  <2>7. below \in Nat /\ upTo \in Nat /\ below < k /\ k <= upTo /\ k \in Nat /\ k >= 1 /\ k <= n
    BY <1>1, <2>1, PlacesFacts DEF IsSmallest
  <2>8. /\ Cardinality(BelowValue(minus, -x)) = n - upTo
        /\ Cardinality(UpToValue(minus, -x)) = n - below
    BY <2>3, <2>4, <2>5, <2>6
  <2>9. n - upTo < n + 1 - k /\ n + 1 - k <= n - below /\ n + 1 - k \in 1..n
    <3> HIDE DEF n, below, upTo
    <3> QED
      BY <1>1, <2>7
  <2>10. IsSmallest(minus, n + 1 - k, -x)
    BY <2>2, <2>8, <2>9 DEF IsSmallest
  <2>11. -x = Smallest(minus, n + 1 - k)
    <3> HIDE DEF minus
    <3> QED
      BY <1>2, <2>9, <2>10, SmallestFacts
  <2> QED
    BY <2>11 DEF x
<1> DEFINE lo == (n + 1) \div 2
           hi == n \div 2 + 1
<1>5. /\ Median(f) = IF n % 2 = 1 THEN Smallest(f, lo)
                     ELSE (Smallest(f, lo) + Smallest(f, hi)) \div 2
      /\ Median(minus) = IF n % 2 = 1 THEN Smallest(minus, lo)
                         ELSE (Smallest(minus, lo) + Smallest(minus, hi)) \div 2
  BY DEF Median
<1>6. lo \in 1..n /\ hi \in 1..n /\ n + 1 - lo = hi /\ n + 1 - hi = lo /\ (n % 2 = 1 => lo = hi)
  <2> HIDE DEF n
  <2> QED
    BY <1>1
<1>7. /\ Smallest(f, lo) \in Range(f) /\ Smallest(f, hi) \in Range(f)
  BY <1>6, SmallestFacts
<1>8. /\ Smallest(f, lo) \in Int /\ Smallest(f, lo) % 2 = 0
      /\ Smallest(f, hi) \in Int /\ Smallest(f, hi) % 2 = 0
  BY <1>7 DEF Range, Opposite
<1>9. Smallest(minus, lo) = -Smallest(f, hi) /\ Smallest(minus, hi) = -Smallest(f, lo)
  <2> HIDE DEF minus
  <2> QED
    BY <1>4, <1>6
<1> DEFINE x == Smallest(f, lo)
           y == Smallest(f, hi)
<1>10. x \in Int /\ x % 2 = 0 /\ y \in Int /\ y % 2 = 0
  BY <1>8
<1>11. /\ Median(f) = IF n % 2 = 1 THEN x ELSE (x + y) \div 2
       /\ Median(minus) = IF n % 2 = 1 THEN -y ELSE (-y + -x) \div 2
       /\ n % 2 = 1 => x = y
  BY <1>5, <1>6, <1>9
<1> HIDE DEF n, x, y, minus
<1>12. (-y + -x) \div 2 = -((x + y) \div 2)
  BY <1>10
<1>13. Median(minus) = -Median(f)
  BY <1>11, <1>12
<1> QED
  BY <1>3, <1>13

-------------------------------------------------------------------------------
(* Series and their parts.                                                 *)

\* A part of a series.
LEMMA PartFacts ==
  ASSUME NEW s \in Seq(Int), NEW a \in Nat, NEW b \in Nat, 1 <= a, b <= Len(s), a <= b + 1
  PROVE  /\ SubSeq(s, a, b) \in [1..b + 1 - a -> Int]
         /\ SubSeq(s, a, b) \in Seq(Int)
         /\ Len(SubSeq(s, a, b)) = b + 1 - a
         /\ \A k \in 1..b + 1 - a : SubSeq(s, a, b)[k] = s[a + k - 1]
<1> DEFINE t == SubSeq(s, a, b)
<1>1. \A i \in a..b : s[i] \in Int
  <2>1. \A i \in a..b : i \in 1..Len(s)
    OBVIOUS
  <2> QED
    BY <2>1, ElementOfSeq
<1>2. /\ t \in Seq(Int)
      /\ Len(t) = IF a <= b THEN b - a + 1 ELSE 0
      /\ \A i \in 1..b - a + 1 : t[i] = s[a + i - 1]
  BY <1>1, SubSeqProperties
<1> HIDE DEF t
<1>3. Len(t) = b + 1 - a /\ b - a + 1 = b + 1 - a
  BY <1>2
<1>4. t \in [1..Len(t) -> Int]
  BY <1>2, LenProperties
<1> QED
  BY <1>2, <1>3, <1>4 DEF t

\* The largest of two or three numbers.
LEMMA LargestFacts ==
  ASSUME NEW x \in Int, NEW y \in Int, NEW z \in Int
  PROVE  /\ Largest({x, y}) \in {x, y} /\ Largest({x, y}) >= x /\ Largest({x, y}) >= y
         /\ Largest({x, y, z}) \in {x, y, z}
         /\ Largest({x, y, z}) >= x /\ Largest({x, y, z}) >= y /\ Largest({x, y, z}) >= z
<1>1. \E m \in {x, y} : \A n \in {x, y} : n <= m
  <2>1. x <= y \/ y <= x
    OBVIOUS
  <2> QED
    BY <2>1
<1>2. \E m \in {x, y, z} : \A n \in {x, y, z} : n <= m
  <2>1. \/ x <= y /\ z <= y
        \/ y <= x /\ z <= x
        \/ x <= z /\ y <= z
    OBVIOUS
  <2> QED
    BY <2>1
<1>3. Largest({x, y}) \in {x, y} /\ \A n \in {x, y} : n <= Largest({x, y})
  BY <1>1, Zenon DEF Largest
<1>4. Largest({x, y, z}) \in {x, y, z} /\ \A n \in {x, y, z} : n <= Largest({x, y, z})
  BY <1>2, Zenon DEF Largest
<1> QED
  BY <1>3, <1>4

\* Where the baseline of n observations begins.
Start(n) == IF BaselineWindow = NoWindow THEN 1 ELSE Largest({1, n - BaselineWindow})

\* It begins at the first, or leaves the window, and before the last one.
LEMMA StartFacts ==
  ASSUME NEW n \in Nat, n >= 1
  PROVE  /\ Start(n) \in 1..n
         /\ n >= 2 => Start(n) <= n - 1
         /\ Start(n) = 1 \/ (BaselineWindow # NoWindow /\ Start(n) = n - BaselineWindow)
<1>1. /\ BaselineWindow \in Nat /\ MinimumHistory \in Nat /\ MinimumHistory >= 2
      /\ BaselineWindow # NoWindow => BaselineWindow >= MinimumHistory - 1
  BY PolicyAssumption
<1>2. /\ Largest({1, n - BaselineWindow}) \in {1, n - BaselineWindow}
      /\ Largest({1, n - BaselineWindow}) >= 1
  BY <1>1, 1 \in Int, n - BaselineWindow \in Int, LargestFacts
<1> QED
  BY <1>1, <1>2 DEF Start

\* The baseline is the observations from Start on without the last one.
LEMMA BaselineFacts ==
  ASSUME NEW s \in Seq(Int), Len(s) >= 1
  PROVE  LET n == Len(s)
             a == Start(n)
         IN  /\ Baseline(s) = SubSeq(s, a, n - 1)
             /\ Baseline(s) \in [1..n - a -> Int]
             /\ Len(Baseline(s)) = n - a
             /\ \A k \in 1..n - a : Baseline(s)[k] = s[a + k - 1]
             /\ IsFiniteSet(1..n - a) /\ Cardinality(1..n - a) = n - a
             /\ n >= 2 => 1..n - a # {}
<1> DEFINE n == Len(s)
           a == Start(n)
<1>1. n \in Nat /\ n >= 1
  OBVIOUS
<1>2. Baseline(s) = SubSeq(s, a, n - 1)
  BY DEF Baseline, Start
<1> HIDE DEF n
<1>3. a \in Nat /\ a >= 1 /\ a <= n /\ (n >= 2 => a <= n - 1)
  BY <1>1, StartFacts
<1> HIDE DEF a
<1>4. n - 1 \in Nat /\ a <= (n - 1) + 1 /\ (n - 1) + 1 - a = n - a /\ n - 1 <= n /\ n - a \in Nat
  BY <1>1, <1>3
<1>5. /\ SubSeq(s, a, n - 1) \in [1..n - a -> Int]
      /\ Len(SubSeq(s, a, n - 1)) = n - a
      /\ \A k \in 1..n - a : SubSeq(s, a, n - 1)[k] = s[a + k - 1]
  <2>1. n = Len(s)
    BY DEF n
  <2> DEFINE b == n - 1
  <2>2. b \in Nat /\ b <= Len(s) /\ a <= b + 1 /\ b + 1 - a = n - a
    BY <1>4, <2>1
  <2> HIDE DEF b
  <2>3. /\ SubSeq(s, a, b) \in [1..b + 1 - a -> Int]
        /\ Len(SubSeq(s, a, b)) = b + 1 - a
        /\ \A k \in 1..b + 1 - a : SubSeq(s, a, b)[k] = s[a + k - 1]
    BY <1>3, <2>2, PartFacts
  <2> QED
    BY <2>2, <2>3 DEF b
<1>6. IsFiniteSet(1..n - a) /\ Cardinality(1..n - a) = n - a
  BY <1>4, FS_Interval
<1>7. n >= 2 => 1..n - a # {}
  <2>1. n >= 2 => 1 \in 1..n - a
    BY <1>1, <1>3
  <2> QED
    BY <2>1
<1> QED
  BY <1>2, <1>5, <1>6, <1>7 DEF n, a

\* Quarters of a second.
LEMMA QuartersFacts ==
  ASSUME NEW s \in Seq(Nat)
  PROVE  /\ Quarters(s) \in Seq(Int) /\ Len(Quarters(s)) = Len(s)
         /\ \A k \in 1..Len(s) : Quarters(s)[k] = 4 * s[k] /\ s[k] \in Nat
<1>1. Quarters(s) = [i \in 1..Len(s) |-> 4 * s[i]]
  BY DEF Quarters
<1>2. \A i \in 1..Len(s) : s[i] \in Nat /\ 4 * s[i] \in Int
  OBVIOUS
<1> QED
  BY <1>1, <1>2

-------------------------------------------------------------------------------
(* Drift.                                                                  *)

\* Absolute values and signs.
LEMMA AbsFacts ==
  \A x \in Int : /\ Abs(x) \in Nat /\ (Abs(x) = x \/ Abs(x) = -x) /\ Abs(x) >= x /\ Abs(x) >= -x
                 /\ Abs(x) = 0 <=> x = 0
                 /\ Sign(x) \in {-1, 0, 1}
                 /\ Sign(x) = 1 <=> x > 0
                 /\ Sign(x) = -1 <=> x < 0
BY DEF Abs, Sign

\* The larger factor gives the larger product.
LEMMA TimesGrows ==
  ASSUME NEW a \in Nat, NEW b \in Nat, NEW c \in Nat, a <= b
  PROVE  a * c \in Nat /\ b * c \in Nat /\ a * c <= b * c
<1>1. (b - a) * c >= 0
  <2>1. b - a \in Nat
    OBVIOUS
  <2> QED
    BY <2>1
<1>2. (b - a) * c = b * c - a * c
  OBVIOUS
<1>3. a * c \in Nat /\ b * c \in Nat
  OBVIOUS
<1> QED
  BY <1>1, <1>2, <1>3

\* The dispersion is positive and not below its relative floor.
LEMMA DispersionFacts ==
  ASSUME NEW D, IsFiniteSet(D), D # {}, NEW base \in [D -> Int]
  PROVE  /\ Median(base) \in Int
         /\ Deviations(base, Median(base)) \in [D -> Int]
         /\ Dispersion(base) \in Nat /\ Dispersion(base) > 0
         /\ RelativeDispersion * Abs(Median(base)) \in Nat
         /\ Dispersion(base) >= RelativeDispersion * Abs(Median(base))
<1> DEFINE center == Median(base)
           mad == Median(Deviations(base, center))
<1>1. center \in Int
  BY MedianFacts
<1> HIDE DEF center
<1>2. Deviations(base, center) \in [D -> Int]
  BY <1>1, AbsFacts DEF Deviations
<1>3. mad \in Int
  BY <1>2, MedianFacts
<1> HIDE DEF mad
<1>4. Dispersion(base) = Largest({1000 * mad, RelativeDispersion * Abs(center),
                                  4 * AbsoluteDispersion})
  BY DEF Dispersion, mad, center
<1> DEFINE r == RelativeDispersion * Abs(center)
           a == 4 * AbsoluteDispersion
           m == 1000 * mad
<1>5. r \in Nat /\ a \in Nat /\ a > 0 /\ m \in Int
  <2>1. RelativeDispersion \in Nat /\ AbsoluteDispersion \in Nat /\ AbsoluteDispersion > 0
    BY PolicyAssumption
  <2>2. Abs(center) \in Nat
    BY <1>1, AbsFacts
  <2> QED
    BY <1>3, <2>1, <2>2
<1> HIDE DEF r, a, m
<1>6. /\ Largest({m, r, a}) \in {m, r, a}
      /\ Largest({m, r, a}) >= r /\ Largest({m, r, a}) >= a
  BY <1>5, m \in Int, r \in Int, a \in Int, LargestFacts
<1>7. Largest({m, r, a}) \in Nat /\ Largest({m, r, a}) > 0
  BY <1>5, <1>6
<1> QED
  BY <1>1, <1>2, <1>4, <1>5, <1>6, <1>7 DEF m, r, a, center

\* The thresholds that a distance reaches, given the dispersion.
ReachedBy(distance, dispersion) ==
  {k \in DOMAIN Thresholds : 6745 * distance >= Thresholds[k] * dispersion}
Severity(distance, dispersion) == Cardinality(ReachedBy(distance, dispersion))

\* A severity is a number of thresholds.
LEMMA SeverityIsNatural ==
  ASSUME NEW x, NEW d
  PROVE  Severity(x, d) \in Nat
<1>1. DOMAIN Thresholds = 1..3
  BY PolicyAssumption
<1>2. IsFiniteSet(1..3)
  BY 1 \in Int, 3 \in Int, FS_Interval
<1>3. ReachedBy(x, d) \subseteq 1..3
  BY <1>1 DEF ReachedBy
<1>4. Cardinality(ReachedBy(x, d)) \in Nat
  BY <1>2, <1>3, FS_Subset, FS_CardinalityType
<1> QED
  BY <1>4 DEF Severity

\* It is NORMAL below the first threshold, and grows with the distance.
LEMMA SeverityFacts ==
  ASSUME NEW x \in Nat, NEW d \in Nat
  PROVE  /\ Severity(x, d) \in Nat
         /\ 6745 * x < Thresholds[1] * d => Severity(x, d) = 0
         /\ 6745 * x >= Thresholds[1] * d => Severity(x, d) > 0
         /\ \A y \in Nat : x <= y => Severity(x, d) <= Severity(y, d)
<1>1. /\ DOMAIN Thresholds = 1..3 /\ \A k \in 1..3 : Thresholds[k] \in Nat /\ Thresholds[1] <= Thresholds[k]
  <2>1. /\ Thresholds \in [1..3 -> Nat]
        /\ Thresholds[1] < Thresholds[2] /\ Thresholds[2] < Thresholds[3]
    BY PolicyAssumption
  <2>2. \A k \in 1..3 : k = 1 \/ k = 2 \/ k = 3
    OBVIOUS
  <2> QED
    BY <2>1, <2>2
<1>2. \A z : IsFiniteSet(ReachedBy(z, d)) /\ Cardinality(ReachedBy(z, d)) \in Nat
  <2>1. IsFiniteSet(1..3)
    BY 1 \in Int, 3 \in Int, FS_Interval
  <2>2. \A z : ReachedBy(z, d) \subseteq 1..3
    BY <1>1 DEF ReachedBy
  <2> QED
    BY <2>1, <2>2, FS_Subset, FS_CardinalityType
<1>3. \A k \in 1..3 : /\ Thresholds[1] * d \in Nat /\ Thresholds[k] * d \in Nat
                      /\ Thresholds[1] * d <= Thresholds[k] * d
  BY <1>1, TimesGrows
<1>4. 6745 * x \in Nat
  OBVIOUS
<1>5. ASSUME 6745 * x < Thresholds[1] * d PROVE Severity(x, d) = 0
  <2>1. \A k \in 1..3 : ~(6745 * x >= Thresholds[k] * d)
    BY <1>3, <1>4, <1>5
  <2>2. ReachedBy(x, d) = {}
    BY <1>1, <2>1 DEF ReachedBy
  <2> QED
    BY <2>2, FS_EmptySet DEF Severity
<1>6. ASSUME 6745 * x >= Thresholds[1] * d PROVE Severity(x, d) > 0
  <2>1. 1 \in ReachedBy(x, d)
    BY <1>1, <1>6 DEF ReachedBy
  <2>2. Cardinality(ReachedBy(x, d)) # 0
    BY <1>2, <2>1, FS_EmptySet
  <2>3. Cardinality(ReachedBy(x, d)) \in Nat
    BY <1>2
  <2> QED
    BY <2>2, <2>3 DEF Severity
<1>7. ASSUME NEW y \in Nat, x <= y PROVE Severity(x, d) <= Severity(y, d)
  <2>1. 6745 * x <= 6745 * y /\ 6745 * y \in Nat
    BY <1>7
  <2>2. \A k \in 1..3 : 6745 * x >= Thresholds[k] * d => 6745 * y >= Thresholds[k] * d
    BY <1>3, <1>4, <2>1
  <2>3. ReachedBy(x, d) \subseteq ReachedBy(y, d)
    BY <1>1, <2>2 DEF ReachedBy
  <2> QED
    BY <1>2, <2>3, FS_Subset DEF Severity
<1>8. Severity(x, d) \in Nat
  BY <1>2 DEF Severity
<1> QED
  BY <1>5, <1>6, <1>7, <1>8

\* The median and the last value of a series in quarters of a second.
Center(s) == Median(Baseline(Quarters(s)))
Distance(s) == 4 * s[Len(s)] - Center(s)

\* What a drift result is.
LEMMA DriftFacts ==
  ASSUME NEW s \in Seq(Nat), Len(s) >= MinimumHistory
  PROVE  /\ Len(s) >= 2 /\ Center(s) \in Int /\ Distance(s) \in Int
         /\ Dispersion(Baseline(Quarters(s))) \in Nat
         /\ Dispersion(Baseline(Quarters(s))) > 0
         /\ Dispersion(Baseline(Quarters(s))) >= RelativeDispersion * Abs(Center(s))
         /\ RelativeDispersion * Abs(Center(s)) \in Nat
         /\ Drift(s).severity = Severity(Abs(Distance(s)), Dispersion(Baseline(Quarters(s))))
         /\ Drift(s).direction = Sign(Distance(s))
<1> DEFINE q == Quarters(s)
           base == Baseline(q)
<1>1. Len(s) \in Nat /\ Len(s) >= 2
  BY PolicyAssumption
<1>2. q \in Seq(Int) /\ Len(q) = Len(s) /\ q[Len(s)] = 4 * s[Len(s)] /\ s[Len(s)] \in Nat
  <2>1. Len(s) \in 1..Len(s)
    BY <1>1
  <2> QED
    BY <2>1, QuartersFacts
<1>3. Last(q) = 4 * s[Len(s)]
  BY <1>2 DEF Last
<1> HIDE DEF q
<1>4. LET D == 1..Len(s) - Start(Len(s))
      IN  base \in [D -> Int] /\ IsFiniteSet(D) /\ D # {}
  BY <1>1, <1>2, BaselineFacts, SMTT(30)
<1>5. /\ Center(s) \in Int
      /\ Dispersion(base) \in Nat /\ Dispersion(base) > 0
      /\ RelativeDispersion * Abs(Center(s)) \in Nat
      /\ Dispersion(base) >= RelativeDispersion * Abs(Center(s))
  <2>1. Center(s) = Median(base)
    BY DEF Center, q
  <2> HIDE DEF base
  <2> QED
    BY <1>4, <2>1, DispersionFacts
<1>6. Distance(s) \in Int /\ Last(q) - Median(base) = Distance(s)
  BY <1>2, <1>3, <1>5 DEF Distance, Center, q
<1>7. ~(Len(s) < MinimumHistory)
  BY <1>1, PolicyAssumption
<1>8. Drift(s) = [severity |-> Severity(Abs(Last(q) - Median(base)), Dispersion(base)),
                  direction |-> Sign(Last(q) - Median(base))]
  BY <1>7 DEF Drift, Severity, ReachedBy, q
<1> QED
  BY <1>1, <1>5, <1>6, <1>8 DEF q

\* Without enough history there is no drift.
LEMMA InsufficientFacts ==
  ASSUME NEW s, Len(s) < MinimumHistory
  PROVE  Drift(s) = Insufficient
BY DEF Drift

-------------------------------------------------------------------------------
(* The inductive invariant.                                                *)

SeriesIInv ==
  /\ series \in Seq(Durations) /\ Len(series) <= HistoryLimit
  /\ \/ driftResult = Pending
     \/ /\ series # <<>>
        /\ driftResult = Drift(series)
        /\ changePoint = ChangePoint(series)
        /\ trend = Trend(series)

\* Results are those of the series an analysis sees now.
LEMMA SeriesAlways == SeriesSpec => []SeriesIInv
<1>1. HistoryLimit \in Nat /\ HistoryLimit >= 2
  BY PolicyAssumption, LimitAssumption
<1>2. ASSUME SeriesInit PROVE SeriesIInv
  <2>1. series = <<>> /\ driftResult = Pending
    BY <1>2 DEF SeriesInit
  <2>2. series \in Seq(Durations) /\ Len(series) = 0
    BY <2>1
  <2> QED
    BY <1>1, <2>1, <2>2 DEF SeriesIInv
<1>3. ASSUME SeriesIInv, [SeriesNext]_seriesVars PROVE SeriesIInv'
  <2>1. series \in Seq(Durations) /\ Len(series) <= HistoryLimit
    BY <1>3 DEF SeriesIInv
  <2>2. CASE RunFinishes
    <3>1. driftResult' = Pending
      BY <2>2 DEF RunFinishes
    <3>2. PICK d \in Durations :
            series' = Append(IF Len(series) < HistoryLimit THEN series ELSE Tail(series), d)
      BY <2>2 DEF RunFinishes
    <3> DEFINE rest == IF Len(series) < HistoryLimit THEN series ELSE Tail(series)
    <3>3. rest \in Seq(Durations) /\ Len(rest) < HistoryLimit
      <4>1. CASE Len(series) < HistoryLimit
        BY <2>1, <4>1
      <4>2. CASE ~(Len(series) < HistoryLimit)
        <5>1. Len(series) = HistoryLimit /\ series # <<>>
          BY <1>1, <2>1, <4>2
        <5>2. Tail(series) \in Seq(Durations) /\ Len(Tail(series)) = Len(series) - 1
          BY <2>1, <5>1, HeadTailProperties
        <5> QED
          BY <1>1, <4>2, <5>1, <5>2
      <4> QED
        BY <4>1, <4>2
    <3> HIDE DEF rest
    <3>4. series' = Append(rest, d)
      BY <3>2 DEF rest
    <3>5. series' \in Seq(Durations) /\ Len(series') <= HistoryLimit
      <4>1. Append(rest, d) \in Seq(Durations) /\ Len(Append(rest, d)) = Len(rest) + 1
        BY <3>2, <3>3, AppendProperties
      <4>2. Len(rest) \in Nat
        BY <3>3
      <4> QED
        BY <1>1, <3>3, <3>4, <4>1, <4>2
    <3> QED
      BY <3>1, <3>5 DEF SeriesIInv
  <2>3. CASE Analyze
    <3>1. /\ series # <<>> /\ series' = series
          /\ driftResult' = Drift(series)
          /\ changePoint' = ChangePoint(series)
          /\ trend' = Trend(series)
      BY <2>3 DEF Analyze
    <3> QED
      BY <2>1, <3>1 DEF SeriesIInv
  <2>4. CASE UNCHANGED seriesVars
    <3>1. /\ series' = series /\ driftResult' = driftResult
          /\ changePoint' = changePoint /\ trend' = trend
      BY <2>4 DEF seriesVars, results
    <3> QED
      BY <1>3, <3>1 DEF SeriesIInv
  <2> QED
    BY <1>3, <2>2, <2>3, <2>4 DEF SeriesNext
<1> QED
  BY <1>2, <1>3, PTL DEF SeriesSpec

\* What an analysis shows belongs to a series of its own.
LEMMA AnalyzedFacts ==
  ASSUME SeriesIInv, Analyzed
  PROVE  /\ series \in Seq(Nat) /\ Len(series) \in 1..7
         /\ driftResult = Drift(series)
         /\ changePoint = ChangePoint(series)
         /\ trend = Trend(series)
<1>1. /\ series \in Seq(Durations) /\ Len(series) <= HistoryLimit /\ series # <<>>
      /\ driftResult = Drift(series) /\ changePoint = ChangePoint(series) /\ trend = Trend(series)
  BY DEF SeriesIInv, Analyzed
<1>2. HistoryLimit \in Nat /\ HistoryLimit <= 7
  BY PolicyAssumption, LimitAssumption
<1>3. series \in Seq(Nat)
  <2>1. Durations \subseteq Nat
    BY DurationsAssumption
  <2> QED
    BY <1>1, <2>1, SeqMonotonic
<1>4. Len(series) \in 1..7
  <2>1. Len(series) \in Nat /\ Len(series) # 0 /\ Len(series) <= HistoryLimit
    BY <1>1, EmptySeq, LenProperties
  <2> DEFINE n == Len(series)
  <2>2. n \in Nat /\ n # 0 /\ n <= HistoryLimit
    BY <2>1
  <2> HIDE DEF n
  <2>3. n \in 1..7
    BY <1>2, <2>2
  <2> QED
    BY <2>3 DEF n
<1> QED
  BY <1>1, <1>3, <1>4

-------------------------------------------------------------------------------
(* SeverityProportionate.                                                  *)

\* A baseline in quarters of a second.
LEMMA QuartersBaseline ==
  ASSUME NEW s \in Seq(Nat), Len(s) >= 2
  PROVE  LET n == Len(s)
             a == Start(n)
             D == 1..n - a
         IN  /\ n \in Nat /\ a \in 1..n - 1
             /\ IsFiniteSet(D) /\ Cardinality(D) = n - a /\ D # {}
             /\ Baseline(Quarters(s)) \in [D -> Int]
             /\ \A k \in D : /\ a + k - 1 \in 1..n - 1
                             /\ Baseline(Quarters(s))[k] = 4 * s[a + k - 1]
                             /\ s[a + k - 1] \in Nat
<1> DEFINE n == Len(s)
           a == Start(n)
           q == Quarters(s)
<1>1. n \in Nat /\ n >= 2
  BY LenProperties
<1>2. q \in Seq(Int) /\ Len(q) = n /\ \A k \in 1..n : q[k] = 4 * s[k] /\ s[k] \in Nat
  BY QuartersFacts
<1>3. a \in 1..n /\ a <= n - 1
  BY <1>1, StartFacts
<1> HIDE DEF n, q, a
<1>4. /\ Baseline(q) \in [1..n - a -> Int]
      /\ \A k \in 1..n - a : Baseline(q)[k] = q[a + k - 1]
      /\ IsFiniteSet(1..n - a) /\ Cardinality(1..n - a) = n - a /\ 1..n - a # {}
  <2>1. Len(q) = n /\ a = Start(Len(q)) /\ n >= 1
    BY <1>1, <1>2 DEF a
  <2>2. LET m == Len(q)
            b == Start(m)
        IN  /\ Baseline(q) \in [1..m - b -> Int]
            /\ \A k \in 1..m - b : Baseline(q)[k] = q[b + k - 1]
            /\ IsFiniteSet(1..m - b) /\ Cardinality(1..m - b) = m - b
            /\ m >= 2 => 1..m - b # {}
    BY <1>2, <2>1, BaselineFacts
  <2> QED
    BY <1>1, <2>1, <2>2
<1>5. \A k \in 1..n - a : a + k - 1 \in 1..n - 1 /\ a + k - 1 \in 1..n
  BY <1>1, <1>3
<1>6. a \in 1..n - 1
  BY <1>1, <1>3
<1> QED
  BY <1>1, <1>2, <1>4, <1>5, <1>6 DEF n, a, q

\* The median of the baseline, in quarters, is twice the sum of two observations.
LEMMA CenterBetween ==
  ASSUME NEW s \in Seq(Nat), Len(s) >= 2
  PROVE  \E i, j \in 1..Len(s) - 1 : /\ s[i] \in Nat /\ s[j] \in Nat
                                     /\ Center(s) = 2 * (s[i] + s[j])
<1> DEFINE n == Len(s)
           a == Start(n)
           D == 1..n - a
           base == Baseline(Quarters(s))
<1>1. /\ n \in Nat /\ a \in 1..n - 1
      /\ IsFiniteSet(D) /\ D # {} /\ base \in [D -> Int]
      /\ \A k \in D : a + k - 1 \in 1..n - 1 /\ base[k] = 4 * s[a + k - 1] /\ s[a + k - 1] \in Nat
  BY QuartersBaseline
<1> HIDE DEF base
<1>2. PICK i, j \in D : Median(base) = (base[i] + base[j]) \div 2
  <2> HIDE DEF D
  <2> QED
    BY <1>1, MedianBetween
<1> HIDE DEF D
<1>3. Median(base) = (4 * s[a + i - 1] + 4 * s[a + j - 1]) \div 2
  BY <1>1, <1>2
<1>4. \A x, y \in Nat : (4 * x + 4 * y) \div 2 = 2 * (x + y)
  OBVIOUS
<1>5. Center(s) = Median(base)
  BY DEF Center, base
<1> DEFINE k == a + i - 1
           l == a + j - 1
<1>6. k \in 1..n - 1 /\ l \in 1..n - 1 /\ s[k] \in Nat /\ s[l] \in Nat
  BY <1>1, <1>2
<1>7. Center(s) = 2 * (s[k] + s[l])
  BY <1>3, <1>4, <1>5, <1>6
<1> HIDE DEF k, l
<1> QED
  BY <1>6, <1>7

\* Noise below the relative dispersion at the first threshold is NORMAL.
LEMMA NoiseIsNormal ==
  ASSUME NEW s \in Seq(Nat), Len(s) >= 1,
         \A i, j \in DOMAIN s :
           6745 * Abs(s[i] - s[j]) < Thresholds[1] * RelativeDispersion * s[i]
  PROVE  Drift(s).severity <= 0
<1>1. CASE Len(s) < MinimumHistory
  BY <1>1, InsufficientFacts DEF Insufficient
<1>2. CASE ~(Len(s) < MinimumHistory)
  <2> DEFINE n == Len(s)
             c == Center(s)
             d == Dispersion(Baseline(Quarters(s)))
             x == Abs(Distance(s))
  <2>1. n \in Nat /\ n >= MinimumHistory /\ MinimumHistory \in Nat
    BY <1>2, LenProperties, PolicyAssumption
  <2>2. /\ n >= 2 /\ c \in Int /\ Distance(s) \in Int /\ d \in Nat
        /\ d >= RelativeDispersion * Abs(c) /\ RelativeDispersion * Abs(c) \in Nat
        /\ Drift(s).severity = Severity(x, d)
    BY <2>1, DriftFacts
  <2>3. PICK i, j \in 1..n - 1 : s[i] \in Nat /\ s[j] \in Nat /\ c = 2 * (s[i] + s[j])
    BY <2>2, CenterBetween
  <2>4. n \in 1..n /\ i \in 1..n /\ j \in 1..n /\ DOMAIN s = 1..n
    <3>1. DOMAIN s = 1..n
      BY LenProperties
    <3> HIDE DEF n
    <3>2. i \in 1..n - 1 /\ j \in 1..n - 1
      BY <2>3 DEF n
    <3> QED
      BY <2>1, <2>2, <3>1, <3>2
  <2>5. s[n] \in Nat
    BY <2>4
  <2>6. Distance(s) = 4 * s[n] - c
    BY DEF Distance
  <2> DEFINE t == Thresholds[1]
             r == RelativeDispersion
             u == s[i]
             v == s[j]
             z == s[n]
  <2>7. t \in Nat /\ r \in Nat
    BY PolicyAssumption
  <2>8. 6745 * Abs(u - z) < (t * r) * u /\ 6745 * Abs(v - z) < (t * r) * v
    <3>1. i \in DOMAIN s /\ j \in DOMAIN s /\ n \in DOMAIN s
      BY <2>4
    <3>2. \A k, l \in DOMAIN s :
            6745 * Abs(s[k] - s[l]) < Thresholds[1] * RelativeDispersion * s[k]
      OBVIOUS
    <3> HIDE DEF n
    <3>3. /\ 6745 * Abs(s[i] - s[n]) < Thresholds[1] * RelativeDispersion * s[i]
          /\ 6745 * Abs(s[j] - s[n]) < Thresholds[1] * RelativeDispersion * s[j]
      BY <3>1, <3>2
    <3> QED
      BY <3>3
  <2> HIDE DEF n, c, d, x, t, r, u, v, z
  <2>9. u \in Nat /\ v \in Nat /\ z \in Nat /\ c = 2 * (u + v)
    BY <2>3, <2>5 DEF u, v, z
  <2>10. x \in Nat /\ x <= 2 * Abs(u - z) + 2 * Abs(v - z) /\ Abs(u - z) \in Nat /\ Abs(v - z) \in Nat
    <3>1. x = Abs(4 * z - 2 * (u + v))
      BY <2>6, <2>9 DEF x, z
    <3> QED
      BY <2>9, <3>1 DEF Abs
  <2>11. Abs(c) = 2 * (u + v) /\ c \in Nat
    BY <2>9 DEF Abs
  <2>12. t * (r * (2 * (u + v))) <= t * d
    <3>1. r * (2 * (u + v)) \in Nat /\ r * (2 * (u + v)) <= d
      BY <2>2, <2>11 DEF r
    <3> DEFINE e == r * (2 * (u + v))
    <3>2. e \in Nat /\ e <= d
      BY <3>1
    <3> HIDE DEF e
    <3>3. e * t <= d * t
      BY <2>2, <2>7, <3>2, TimesGrows
    <3>4. t * e <= t * d
      BY <2>2, <2>7, <3>2, <3>3
    <3> QED
      BY <3>4 DEF e
  <2>13. t * (r * (2 * (u + v))) = 2 * ((t * r) * u) + 2 * ((t * r) * v)
    BY <2>7, <2>9
  <2>14. (t * r) * u \in Nat /\ (t * r) * v \in Nat /\ t * d \in Nat
    BY <2>2, <2>7, <2>9
  <2>15. 6745 * x < t * d
    <3> DEFINE p == (t * r) * u
               w == (t * r) * v
               td == t * d
               au == Abs(u - z)
               av == Abs(v - z)
    <3>1. /\ p \in Nat /\ w \in Nat /\ td \in Nat /\ au \in Nat /\ av \in Nat
          /\ 2 * p + 2 * w <= td /\ 6745 * au < p /\ 6745 * av < w /\ x \in Nat /\ x <= 2 * au + 2 * av
      BY <2>8, <2>10, <2>12, <2>13, <2>14
    <3> HIDE DEF p, w, td, au, av
    <3>2. 6745 * x < td
      BY <3>1
    <3> QED
      BY <3>2 DEF td
  <2>16. Severity(x, d) = 0
    BY <2>2, <2>10, <2>15, SeverityFacts DEF t
  <2> QED
    BY <2>2, <2>16
<1> QED
  BY <1>1, <1>2

\* A series with another newest observation has the same baseline.
LEMMA MendedLast ==
  ASSUME NEW s \in Seq(Nat), Len(s) >= 2, NEW d \in Nat
  PROVE  LET t == Mended(s, Len(s), d)
         IN  /\ t \in Seq(Nat) /\ Len(t) = Len(s) /\ t[Len(s)] = d
             /\ Baseline(Quarters(t)) = Baseline(Quarters(s))
<1> DEFINE n == Len(s)
           t == Mended(s, n, d)
           a == Start(n)
           D == 1..n - a
<1>1. n \in Nat /\ n \in 1..Len(s)
  BY LenProperties
<1>2. t \in Seq(Nat) /\ Len(t) = n /\ \A j \in 1..n : t[j] = IF j = n THEN d ELSE s[j]
  BY <1>1, ExceptSeq DEF Mended
<1> HIDE DEF t
<1>3. /\ a \in 1..n - 1
      /\ Baseline(Quarters(s)) \in [D -> Int]
      /\ \A k \in D : a + k - 1 \in 1..n - 1 /\ Baseline(Quarters(s))[k] = 4 * s[a + k - 1]
  BY QuartersBaseline
<1>4. /\ Baseline(Quarters(t)) \in [D -> Int]
      /\ \A k \in D : Baseline(Quarters(t))[k] = 4 * t[a + k - 1]
  <2>1. Len(t) >= 2
    BY <1>2
  <2>2. LET m == Len(t)
            b == Start(m)
        IN  /\ Baseline(Quarters(t)) \in [1..m - b -> Int]
            /\ \A k \in 1..m - b : Baseline(Quarters(t))[k] = 4 * t[b + k - 1]
    BY <1>2, <2>1, QuartersBaseline
  <2> QED
    BY <1>2, <2>2
<1> HIDE DEF a, D
<1>5. \A k \in D : t[a + k - 1] = s[a + k - 1]
  <2>1. \A k \in 1..n - 1 : k \in 1..n /\ k # n
    BY <1>1
  <2> HIDE DEF n
  <2> QED
    BY <1>2, <1>3, <2>1
<1>6. Baseline(Quarters(t)) = Baseline(Quarters(s))
  <2> DEFINE f == Baseline(Quarters(t))
             g == Baseline(Quarters(s))
  <2>1. f \in [D -> Int] /\ g \in [D -> Int] /\ \A k \in D : f[k] = g[k]
    BY <1>3, <1>4, <1>5
  <2> HIDE DEF f, g
  <2>2. f = g
    BY <2>1
  <2> QED
    BY <2>2 DEF f, g
<1>7. t[n] = d
  BY <1>1, <1>2
<1> QED
  BY <1>2, <1>6, <1>7 DEF t

\* Further out on the same side is not milder.
LEMMA FurtherIsNotMilder ==
  ASSUME NEW s \in Seq(Nat), Len(s) >= 1, NEW d \in Nat,
         Drift(s).direction = Drift(Mended(s, Len(s), d)).direction,
         Sign(d - Last(s)) = Drift(Mended(s, Len(s), d)).direction
  PROVE  Drift(Mended(s, Len(s), d)).severity >= Drift(s).severity
<1> DEFINE n == Len(s)
           t == Mended(s, n, d)
<1>1. n \in Nat /\ n >= 1 /\ n \in 1..Len(s)
  BY LenProperties
<1>2. t \in Seq(Nat) /\ Len(t) = n
  BY <1>1, ExceptSeq DEF Mended
<1>3. CASE n < MinimumHistory
  <2>1. Drift(t) = Insufficient /\ Drift(s) = Insufficient
    BY <1>2, <1>3, InsufficientFacts
  <2> QED
    BY <2>1 DEF Insufficient
<1>4. CASE ~(n < MinimumHistory)
  <2>1. n >= MinimumHistory /\ n >= 2
    BY <1>1, <1>4, PolicyAssumption
  <2>2. t[n] = d /\ Baseline(Quarters(t)) = Baseline(Quarters(s))
    BY <2>1, MendedLast
  <2> DEFINE disp == Dispersion(Baseline(Quarters(s)))
             c == Center(s)
             z == s[n]
  <2>3. /\ c \in Int /\ Distance(s) \in Int /\ disp \in Nat
        /\ Drift(s).severity = Severity(Abs(Distance(s)), disp)
        /\ Drift(s).direction = Sign(Distance(s))
    BY <2>1, DriftFacts
  <2> HIDE DEF t
  <2>4. /\ Distance(t) \in Int
        /\ Drift(t).severity = Severity(Abs(Distance(t)), Dispersion(Baseline(Quarters(t))))
        /\ Drift(t).direction = Sign(Distance(t))
    BY <1>2, <2>1, DriftFacts
  <2>5. Distance(s) = 4 * z - c /\ Distance(t) = 4 * d - c
    BY <1>2, <2>2 DEF Distance, Center
  <2>6. z \in Nat
    BY <1>1
  <2>7. Sign(4 * z - c) = Sign(4 * d - c) /\ Sign(d - z) = Sign(4 * d - c)
    <3>1. Last(s) = z
      BY DEF Last
    <3>2. Drift(s).direction = Drift(t).direction /\ Sign(d - Last(s)) = Drift(t).direction
      BY DEF t
    <3> QED
      BY <2>3, <2>4, <2>5, <3>1, <3>2
  <2> HIDE DEF c, z, disp, n
  <2>8. Abs(4 * z - c) \in Nat /\ Abs(4 * d - c) \in Nat /\ Abs(4 * z - c) <= Abs(4 * d - c)
    BY <2>3, <2>6, <2>7 DEF Abs, Sign
  <2>9. /\ Severity(Abs(4 * z - c), disp) <= Severity(Abs(4 * d - c), disp)
        /\ Severity(Abs(4 * z - c), disp) \in Nat
        /\ Severity(Abs(4 * d - c), disp) \in Nat
    <3> DEFINE x == Abs(4 * z - c)
               y == Abs(4 * d - c)
    <3>1. x \in Nat /\ y \in Nat /\ x <= y /\ disp \in Nat
      BY <2>3, <2>8
    <3> HIDE DEF x, y
    <3>2. Severity(x, disp) <= Severity(y, disp)
      BY <3>1, SeverityFacts
    <3>3. Severity(x, disp) \in Nat /\ Severity(y, disp) \in Nat
      BY SeverityIsNatural
    <3> QED
      BY <3>2, <3>3 DEF x, y
  <2>10. /\ Drift(s).severity = Severity(Abs(4 * z - c), disp)
         /\ Drift(t).severity = Severity(Abs(4 * d - c), disp)
    BY <2>2, <2>3, <2>4, <2>5 DEF disp
  <2>11. Drift(t).severity >= Drift(s).severity
    BY <2>9, <2>10
  <2> QED
    BY <2>11 DEF t, n
<1> QED
  BY <1>3, <1>4

\* The severity of a drift is in proportion to the noise of the series and to the
\* distance of the newest observation, for every policy.
THEOREM SeverityIsProportionate == SeriesSpec => []SeverityProportionate
<1>1. ASSUME SeriesIInv PROVE SeverityProportionate
  <2> SUFFICES ASSUME Analyzed
               PROVE  /\ (\A i, j \in DOMAIN series :
                            6745 * Abs(series[i] - series[j])
                              < Thresholds[1] * RelativeDispersion * series[i])
                           => driftResult.severity <= 0
                      /\ \A d \in Durations :
                           LET other == Drift(Mended(series, Len(series), d))
                           IN  (/\ driftResult.direction = other.direction
                                /\ Sign(d - Last(series)) = other.direction)
                                 => other.severity >= driftResult.severity
    BY DEF SeverityProportionate
  <2>1. series \in Seq(Nat) /\ Len(series) >= 1 /\ driftResult = Drift(series)
    <3>1. series \in Seq(Nat) /\ Len(series) \in 1..7 /\ driftResult = Drift(series)
      BY <1>1, AnalyzedFacts
    <3>2. \A n \in 1..7 : n >= 1
      OBVIOUS
    <3> QED
      BY <3>1, <3>2
  <2>2. \A d \in Durations : d \in Nat
    BY DurationsAssumption
  <2>3. (\A i, j \in DOMAIN series :
            6745 * Abs(series[i] - series[j]) < Thresholds[1] * RelativeDispersion * series[i])
          => driftResult.severity <= 0
    BY <2>1, NoiseIsNormal
  <2>4. ASSUME NEW d \in Durations,
               driftResult.direction = Drift(Mended(series, Len(series), d)).direction,
               Sign(d - Last(series)) = Drift(Mended(series, Len(series), d)).direction
        PROVE  Drift(Mended(series, Len(series), d)).severity >= driftResult.severity
    BY <2>1, <2>2, <2>4, FurtherIsNotMilder
  <2> QED
    BY <2>3, <2>4
<1> QED
  BY <1>1, SeriesAlways, PTL

-------------------------------------------------------------------------------
(* Change points.                                                          *)

\* Of natural numbers the median is a natural number.
LEMMA MedianNatural ==
  ASSUME NEW D, IsFiniteSet(D), D # {}, NEW f \in [D -> Int], \A i \in D : f[i] >= 0
  PROVE  Median(f) \in Nat
<1>1. PICK i, j \in D : Median(f) = (f[i] + f[j]) \div 2
  BY MedianBetween
<1> DEFINE x == f[i]
           y == f[j]
<1>2. x \in Nat /\ y \in Nat
  BY <1>1
<1> HIDE DEF x, y
<1>3. (x + y) \div 2 \in Nat
  BY <1>2
<1> QED
  BY <1>1, <1>3 DEF x, y

\* The first places.
LEMMA FirstPlaces ==
  ASSUME NEW n \in Nat, n >= 1
  PROVE  IsFiniteSet(1..n) /\ Cardinality(1..n) = n /\ 1..n # {}
<1>1. IsFiniteSet(1..n) /\ Cardinality(1..n) = IF 1 > n THEN 0 ELSE n - 1 + 1
  BY 1 \in Int, n \in Int, FS_Interval
<1>2. 1 \in 1..n
  OBVIOUS
<1> QED
  BY <1>1, <1>2

\* The two segments of a split.
LEMMA SegmentFacts ==
  ASSUME NEW q \in Seq(Int), NEW i \in 1..Len(q) - 1
  PROVE  LET n == Len(q)
         IN  /\ n \in Nat /\ q \in [1..n -> Int] /\ n - i \in Nat
             /\ Older(q, i) \in [1..i -> Int]
             /\ \A k \in 1..i : k \in 1..n /\ Older(q, i)[k] = q[k]
             /\ Newer(q, i) \in [1..n - i -> Int]
             /\ \A k \in 1..n - i : i + k \in 1..n /\ Newer(q, i)[k] = q[i + k]
             /\ IsFiniteSet(1..i) /\ Cardinality(1..i) = i /\ 1..i # {}
             /\ IsFiniteSet(1..n - i) /\ Cardinality(1..n - i) = n - i /\ 1..n - i # {}
             /\ Median(Older(q, i)) \in Int /\ Median(Newer(q, i)) \in Int
             /\ Difference(q, i) \in Int
<1> DEFINE n == Len(q)
<1>0. n = Len(q)
  OBVIOUS
<1>1. n \in Nat /\ q \in [1..n -> Int]
  BY LenProperties
<1> HIDE DEF n
<1>2. i \in Nat /\ i >= 1 /\ i <= n - 1 /\ n - i \in Nat /\ n - i >= 1
  BY <1>0, <1>1
<1> DEFINE a == 1
           b == i + 1
<1>3. a \in Nat /\ 1 <= a /\ i <= Len(q) /\ a <= i + 1 /\ i + 1 - a = i
      /\ b \in Nat /\ 1 <= b /\ n <= Len(q) /\ b <= n + 1 /\ n + 1 - b = n - i
  BY <1>0, <1>1, <1>2
<1>4. /\ \A k \in 1..i : a + k - 1 = k
      /\ \A k \in 1..n - i : b + k - 1 = i + k
  BY <1>1, <1>2
<1>5. Older(q, i) = SubSeq(q, a, i) /\ Newer(q, i) = SubSeq(q, b, n)
  BY DEF Older, Newer, n
<1> HIDE DEF a, b
<1>6. /\ SubSeq(q, a, i) \in [1..i + 1 - a -> Int]
      /\ \A k \in 1..i + 1 - a : SubSeq(q, a, i)[k] = q[a + k - 1]
  BY <1>2, <1>3, PartFacts
<1>7. /\ SubSeq(q, b, n) \in [1..n + 1 - b -> Int]
      /\ \A k \in 1..n + 1 - b : SubSeq(q, b, n)[k] = q[b + k - 1]
  BY <1>1, <1>3, PartFacts
<1>8. Older(q, i) \in [1..i -> Int] /\ \A k \in 1..i : k \in 1..n /\ Older(q, i)[k] = q[k]
  <2>1. Older(q, i) \in [1..i -> Int] /\ \A k \in 1..i : Older(q, i)[k] = q[a + k - 1]
    BY <1>3, <1>5, <1>6
  <2>2. \A k \in 1..i : k \in 1..n
    BY <1>1, <1>2
  <2> QED
    BY <1>4, <2>1, <2>2
<1>9. /\ Newer(q, i) \in [1..n - i -> Int]
      /\ \A k \in 1..n - i : i + k \in 1..n /\ Newer(q, i)[k] = q[i + k]
  <2>1. Newer(q, i) \in [1..n - i -> Int] /\ \A k \in 1..n - i : Newer(q, i)[k] = q[b + k - 1]
    BY <1>3, <1>5, <1>7
  <2>2. \A k \in 1..n - i : i + k \in 1..n
    BY <1>1, <1>2
  <2> QED
    BY <1>4, <2>1, <2>2
<1>10. IsFiniteSet(1..i) /\ Cardinality(1..i) = i /\ 1..i # {}
  BY <1>2, FirstPlaces
<1>11. IsFiniteSet(1..n - i) /\ Cardinality(1..n - i) = n - i /\ 1..n - i # {}
  <2> DEFINE m == n - i
  <2>1. m \in Nat /\ m >= 1
    BY <1>2
  <2> HIDE DEF m
  <2>2. IsFiniteSet(1..m) /\ Cardinality(1..m) = m /\ 1..m # {}
    BY <2>1, FirstPlaces
  <2> QED
    BY <2>2 DEF m
<1>12. Median(Older(q, i)) \in Int
  BY <1>8, <1>10, MedianFacts
<1>13. Median(Newer(q, i)) \in Int
  BY <1>9, <1>11, MedianFacts
<1>14. Difference(q, i) \in Int
  BY <1>12, <1>13 DEF Difference
<1> QED
  BY <1>1, <1>2, <1>8, <1>9, <1>10, <1>11, <1>12, <1>13, <1>14 DEF n

\* The observations of the older segment.
LEMMA OlderFacts ==
  ASSUME NEW q \in Seq(Int), NEW i \in 1..Len(q) - 1
  PROVE  Older(q, i) \in [1..i -> Int] /\ \A k \in 1..i : Older(q, i)[k] = q[k]
<1>1. Older(q, i) \in [1..i -> Int]
  BY SegmentFacts
<1>2. \A k \in 1..i : Older(q, i)[k] = q[k]
  BY SegmentFacts
<1> QED
  BY <1>1, <1>2

\* The observations of the newer segment.
LEMMA NewerFacts ==
  ASSUME NEW q \in Seq(Int), NEW i \in 1..Len(q) - 1
  PROVE  /\ Newer(q, i) \in [1..Len(q) - i -> Int]
         /\ \A k \in 1..Len(q) - i : Newer(q, i)[k] = q[i + k]
<1>1. Newer(q, i) \in [1..Len(q) - i -> Int]
  BY SegmentFacts
<1>2. \A k \in 1..Len(q) - i : Newer(q, i)[k] = q[i + k]
  BY SegmentFacts
<1> QED
  BY <1>1, <1>2

\* The noise of a split is a natural number, and its score a fraction.
LEMMA SplitScoreFacts ==
  ASSUME NEW q \in Seq(Int), NEW i \in 1..Len(q) - 1
  PROVE  /\ Noise(q, i) \in Nat /\ CandidateScore(q, i) \in Fractions
         /\ Difference(q, i) = 0 => CandidateScore(q, i).num = 0
<1> DEFINE n == Len(q)
<1>1. /\ n \in Nat /\ q \in [1..n -> Int]
      /\ Median(Older(q, i)) \in Int /\ Median(Newer(q, i)) \in Int
      /\ Difference(q, i) \in Int
  BY SegmentFacts
<1> HIDE DEF n
<1> DEFINE older == Median(Older(q, i))
           newer == Median(Newer(q, i))
           f == [k \in 1..n |-> Abs(q[k] - IF k <= i THEN older ELSE newer)]
<1>2. f \in [1..n -> Int] /\ \A k \in 1..n : f[k] >= 0
  <2>1. \A k \in 1..n : q[k] - (IF k <= i THEN older ELSE newer) \in Int
    BY <1>1
  <2>2. \A k \in 1..n : Abs(q[k] - IF k <= i THEN older ELSE newer) \in Nat
    BY <2>1, AbsFacts
  <2> QED
    BY <2>2
<1>3. Noise(q, i) = Median(f)
  <2>1. DOMAIN q = 1..n
    BY <1>1
  <2> QED
    BY <2>1 DEF Noise
<1>4. IsFiniteSet(1..n) /\ 1..n # {}
  <2>1. n >= 1
    BY <1>1
  <2> QED
    BY <1>1, <2>1, FirstPlaces
<1> HIDE DEF f
<1>5. Noise(q, i) \in Nat
  BY <1>2, <1>3, <1>4, MedianNatural
<1>6. Abs(Difference(q, i)) \in Nat /\ (Difference(q, i) = 0 => Abs(Difference(q, i)) = 0)
  BY <1>1, AbsFacts
<1> QED
  BY <1>5, <1>6 DEF CandidateScore, Fractions

\* Where there is a split there is a best one, and so a first of them.
LEMMA BestSplitsFacts ==
  ASSUME NEW s \in Seq(Nat), Splits(s) # {}
  PROVE  /\ Splits(s) \subseteq 1..Len(s) - 1 /\ IsFiniteSet(Splits(s))
         /\ BestSplits(s) \subseteq Splits(s) /\ BestSplits(s) # {}
         /\ \A i : i \in BestSplits(s) <=>
                     /\ i \in Splits(s)
                     /\ \A j \in Splits(s) : AtLeast(CandidateScore(Quarters(s), i),
                                                     CandidateScore(Quarters(s), j))
         /\ \E i \in BestSplits(s) : /\ \A j \in BestSplits(s) : i <= j
                                     /\ i = CHOOSE k \in BestSplits(s) : \A j \in BestSplits(s) : k <= j
<1> DEFINE q == Quarters(s)
           n == Len(s)
           score(i) == CandidateScore(q, i)
           R == {p \in Splits(s) \X Splits(s) : AtLeast(score(p[1]), score(p[2]))}
<1>1. n \in Nat /\ SegmentSize \in Nat /\ SegmentSize >= 2
  BY LenProperties, PolicyAssumption
<1>2. q \in Seq(Int) /\ Len(q) = n
  BY QuartersFacts
<1>3. Splits(s) \subseteq 1..n - 1 /\ Splits(s) \in SUBSET Int
  BY <1>1 DEF Splits
<1>4. IsFiniteSet(Splits(s))
  BY <1>1, n - SegmentSize \in Int, FS_Interval DEF Splits
<1> HIDE DEF n, q
<1>5. \A i \in Splits(s) : score(i) \in Fractions
  BY <1>2, <1>3, SplitScoreFacts
<1> HIDE DEF score
<1>6. \A i, j \in Splits(s) : <<i, j>> \in R <=> AtLeast(score(i), score(j))
  OBVIOUS
<1> HIDE DEF R
<1>7. \A i, j \in Splits(s) : <<i, j>> \in R \/ <<j, i>> \in R
  BY <1>5, <1>6, FractionsCompare
<1>8. \A i, j, k \in Splits(s) : <<i, j>> \in R /\ <<j, k>> \in R => <<i, k>> \in R
  <2>1. ASSUME NEW i \in Splits(s), NEW j \in Splits(s), NEW k \in Splits(s),
               <<i, j>> \in R, <<j, k>> \in R
        PROVE  <<i, k>> \in R
    BY <1>5, <1>6, <2>1, FractionsCompare
  <2> QED
    BY <2>1
<1>9. PICK g \in Splits(s) : \A j \in Splits(s) : <<g, j>> \in R
  BY <1>4, <1>7, <1>8, HasGreatest
<1>10. \A i : i \in BestSplits(s) <=> /\ i \in Splits(s)
                                      /\ \A j \in Splits(s) : AtLeast(score(i), score(j))
  BY DEF BestSplits, score, q
<1>11. g \in BestSplits(s)
  BY <1>6, <1>9, <1>10
<1>12. BestSplits(s) \subseteq Splits(s) /\ BestSplits(s) \in SUBSET Int /\ IsFiniteSet(BestSplits(s))
  <2>1. BestSplits(s) \subseteq Splits(s)
    BY <1>10
  <2> QED
    BY <1>3, <1>4, <2>1, FS_Subset
<1>13. \E i \in BestSplits(s) : \A j \in BestSplits(s) : i <= j
  BY <1>11, <1>12, HasExtremes
<1> DEFINE first == CHOOSE k \in BestSplits(s) : \A j \in BestSplits(s) : k <= j
<1>14. first \in BestSplits(s) /\ \A j \in BestSplits(s) : first <= j
  BY <1>13
<1> HIDE DEF first
<1>15. \E i \in BestSplits(s) : (\A j \in BestSplits(s) : i <= j) /\ i = first
  BY <1>14
<1> QED
  BY <1>3, <1>4, <1>10, <1>11, <1>12, <1>15 DEF first, score, q, n

\* A change point is the first of the best splits, if that reaches the threshold.
LEMMA ChangePointFacts ==
  ASSUME NEW s \in Seq(Nat)
  PROVE  \/ Splits(s) = {} /\ ChangePoint(s) = NoChange
         \/ \E i \in BestSplits(s) :
              /\ \A j \in BestSplits(s) : i <= j
              /\ ChangePoint(s) =
                   IF Reaches(CandidateScore(Quarters(s), i), ChangeThreshold)
                   THEN [index |-> i, direction |-> ChangeDirection(Quarters(s), i)]
                   ELSE NoChange
<1>1. CASE Splits(s) = {}
  BY <1>1 DEF ChangePoint
<1>2. CASE Splits(s) # {}
  <2>1. PICK i \in BestSplits(s) :
          /\ \A j \in BestSplits(s) : i <= j
          /\ i = CHOOSE k \in BestSplits(s) : \A j \in BestSplits(s) : k <= j
    BY <1>2, BestSplitsFacts
  <2>2. ChangePoint(s) = IF Splits(s) = {} \/ ~Reaches(CandidateScore(Quarters(s), i), ChangeThreshold)
                         THEN NoChange
                         ELSE [index |-> i, direction |-> ChangeDirection(Quarters(s), i)]
    BY <2>1 DEF ChangePoint
  <2> QED
    BY <1>2, <2>1, <2>2
<1> QED
  BY <1>1, <1>2

\* A split without a difference does not reach the threshold.
LEMMA LevelSplitIsLow ==
  ASSUME NEW s \in Seq(Nat), NEW i \in 1..Len(s) - 1, Difference(Quarters(s), i) = 0
  PROVE  ~Reaches(CandidateScore(Quarters(s), i), ChangeThreshold)
<1> DEFINE q == Quarters(s)
           x == CandidateScore(q, i)
<1>1. q \in Seq(Int) /\ Len(q) = Len(s)
  BY QuartersFacts
<1>2. Difference(q, i) = 0
  OBVIOUS
<1> HIDE DEF q
<1>3. x \in Fractions /\ x.num = 0
  BY <1>1, <1>2, SplitScoreFacts
<1>4. x.den \in Nat /\ x.den > 0
  BY <1>3 DEF Fractions
<1> HIDE DEF x
<1>5. ChangeThreshold \in Nat /\ ChangeThreshold > 0
  BY PolicyAssumption
<1>6. (200 * ChangeThreshold) * x.den > 0
  <2> DEFINE a == 200 * ChangeThreshold
             b == x.den
  <2>1. a \in Nat /\ a > 0 /\ b \in Nat /\ b > 0
    BY <1>4, <1>5
  <2> HIDE DEF a, b
  <2>2. a * b > 0
    BY <2>1
  <2> QED
    BY <2>2 DEF a, b
<1>7. ~Reaches(x, ChangeThreshold)
  BY <1>3, <1>4, <1>5, <1>6 DEF Reaches
<1> QED
  BY <1>7 DEF x, q

\* Where no segments differ, nothing changed.
LEMMA NoDifferenceNoChange ==
  ASSUME NEW s \in Seq(Nat), \A i \in Splits(s) : Difference(Quarters(s), i) = 0
  PROVE  ChangePoint(s) = NoChange
<1>1. CASE Splits(s) = {}
  BY <1>1 DEF ChangePoint
<1>2. CASE Splits(s) # {}
  <2>1. PICK i \in BestSplits(s) :
              ChangePoint(s) =
                   IF Reaches(CandidateScore(Quarters(s), i), ChangeThreshold)
                   THEN [index |-> i, direction |-> ChangeDirection(Quarters(s), i)]
                   ELSE NoChange
    BY <1>2, ChangePointFacts
  <2>2. i \in Splits(s) /\ i \in 1..Len(s) - 1
    BY <1>2, BestSplitsFacts
  <2>3. ~Reaches(CandidateScore(Quarters(s), i), ChangeThreshold)
    BY <2>2, LevelSplitIsLow
  <2> QED
    BY <2>1, <2>3
<1> QED
  BY <1>1, <1>2

-------------------------------------------------------------------------------
(* One bad run.                                                            *)

\* A series without its i-th observation.
LEMMA RemoveAtFacts ==
  ASSUME NEW s \in Seq(Nat), NEW n, n = Len(s), NEW i \in 1..n
  PROVE  LET t == RemoveAt(s, i)
         IN  /\ t \in Seq(Nat) /\ Len(t) = n - 1 /\ DOMAIN t = 1..n - 1
             /\ \A j \in 1..n - 1 : t[j] = s[IF j < i THEN j ELSE j + 1]
<1>1. n \in Nat /\ s \in [1..n -> Nat] /\ i \in Nat /\ i >= 1 /\ i <= n
  BY LenProperties
<1> DEFINE u == SubSeq(s, 1, i - 1)
           v == SubSeq(s, i + 1, n)
<1>2. u \in Seq(Nat) /\ Len(u) = i - 1 /\ \A j \in 1..i - 1 : u[j] = s[j]
  <2> DEFINE a == 1
             b == i - 1
  <2>1. a \in Int /\ b \in Int /\ \A j \in a..b : s[j] \in Nat
    BY <1>1
  <2>2. /\ (IF a <= b THEN b - a + 1 ELSE 0) = i - 1
        /\ \A j \in 1..i - 1 : j \in 1..b - a + 1 /\ a + j - 1 = j
    BY <1>1
  <2> HIDE DEF a, b
  <2>3. /\ SubSeq(s, a, b) \in Seq(Nat)
        /\ Len(SubSeq(s, a, b)) = IF a <= b THEN b - a + 1 ELSE 0
        /\ \A j \in 1..b - a + 1 : SubSeq(s, a, b)[j] = s[a + j - 1]
    BY <2>1, SubSeqProperties
  <2>4. u = SubSeq(s, a, b)
    BY DEF a, b
  <2> HIDE DEF u
  <2> QED
    BY <2>2, <2>3, <2>4
<1>3. v \in Seq(Nat) /\ Len(v) = n - i /\ \A j \in 1..n - i : v[j] = s[i + j]
  <2> DEFINE a == i + 1
  <2>1. a \in Int /\ n \in Int /\ \A j \in a..n : s[j] \in Nat
    BY <1>1
  <2>2. /\ (IF a <= n THEN n - a + 1 ELSE 0) = n - i
        /\ \A j \in 1..n - i : j \in 1..n - a + 1 /\ a + j - 1 = i + j
    BY <1>1
  <2> HIDE DEF a
  <2>3. /\ SubSeq(s, a, n) \in Seq(Nat)
        /\ Len(SubSeq(s, a, n)) = IF a <= n THEN n - a + 1 ELSE 0
        /\ \A j \in 1..n - a + 1 : SubSeq(s, a, n)[j] = s[a + j - 1]
    BY <2>1, SubSeqProperties
  <2>4. v = SubSeq(s, a, n)
    BY DEF a
  <2> HIDE DEF v
  <2> QED
    BY <2>2, <2>3, <2>4
<1>4. RemoveAt(s, i) = u \o v
  BY DEF RemoveAt
<1> HIDE DEF u, v
<1> DEFINE t == u \o v
<1>5. /\ t \in Seq(Nat) /\ Len(t) = Len(u) + Len(v)
      /\ \A j \in 1..Len(u) + Len(v) : t[j] = IF j <= Len(u) THEN u[j] ELSE v[j - Len(u)]
  BY <1>2, <1>3, ConcatProperties
<1> HIDE DEF t
<1>6. Len(t) = n - 1
  BY <1>1, <1>2, <1>3, <1>5
<1>7. ASSUME NEW j \in 1..n - 1 PROVE t[j] = s[IF j < i THEN j ELSE j + 1]
  <2>1. t[j] = IF j <= i - 1 THEN u[j] ELSE v[j - (i - 1)]
    BY <1>1, <1>2, <1>3, <1>5
  <2>2. CASE j < i
    <3>1. j <= i - 1 /\ j \in 1..i - 1
      BY <1>1, <2>2
    <3> QED
      BY <1>2, <2>1, <2>2, <3>1
  <2>3. CASE ~(j < i)
    <3>1. ~(j <= i - 1) /\ j - (i - 1) \in 1..n - i /\ i + (j - (i - 1)) = j + 1
      BY <1>1, <2>3
    <3>2. v[j - (i - 1)] = s[i + (j - (i - 1))]
      BY <1>3, <3>1
    <3> QED
      BY <2>1, <2>3, <3>1, <3>2
  <2> QED
    BY <2>2, <2>3
<1>8. DOMAIN t = 1..n - 1
  BY <1>5, <1>6, LenProperties
<1> QED
  BY <1>4, <1>5, <1>6, <1>7, <1>8 DEF t

\* If the rest is level, the other observations are all the same.
LEMMA RestIsLevel ==
  ASSUME NEW s \in Seq(Nat), NEW n, n = Len(s), NEW i \in 1..n, Constant(RemoveAt(s, i))
  PROVE  /\ \A j, k \in 1..n : j # i /\ k # i => s[j] = s[k]
         /\ n >= 2 => \A j \in 1..n : j # i => s[j] = RemoveAt(s, i)[1]
<1> DEFINE t == RemoveAt(s, i)
<1>1. n \in Nat /\ i \in Nat /\ i >= 1 /\ i <= n
  BY LenProperties
<1>2. /\ DOMAIN t = 1..n - 1
      /\ \A j \in 1..n - 1 : t[j] = s[IF j < i THEN j ELSE j + 1]
  BY RemoveAtFacts, ZenonT(30)
<1>3. \A j, k \in DOMAIN t : t[j] = t[k]
  BY DEF Constant
<1> HIDE DEF t
<1>4. ASSUME NEW j \in 1..n, j # i PROVE \E k \in 1..n - 1 : t[k] = s[j]
  <2> DEFINE k == IF j < i THEN j ELSE j - 1
  <2>1. k \in 1..n - 1 /\ (IF k < i THEN k ELSE k + 1) = j
    BY <1>1, <1>4
  <2> HIDE DEF k
  <2> QED
    BY <1>2, <2>1
<1>5. ASSUME NEW j \in 1..n, NEW k \in 1..n, j # i, k # i PROVE s[j] = s[k]
  <2>1. PICK a \in 1..n - 1 : t[a] = s[j]
    BY <1>4, <1>5
  <2>2. PICK b \in 1..n - 1 : t[b] = s[k]
    BY <1>4, <1>5
  <2>3. a \in DOMAIN t /\ b \in DOMAIN t
    BY <1>2
  <2> QED
    BY <1>3, <2>1, <2>2, <2>3
<1>6. ASSUME n >= 2, NEW j \in 1..n, j # i PROVE s[j] = t[1]
  <2>1. 1 \in 1..n - 1
    BY <1>1, <1>6
  <2> QED
    BY <1>2, <1>3, <1>4, <1>6, <2>1, ZenonT(30)
<1> QED
  BY <1>5, <1>6 DEF t

\* A level series with one bad run has no change point, of segments of three.
LEMMA BadRunIsNoChange ==
  ASSUME NEW s \in Seq(Nat), NEW x \in Int, SegmentSize >= 3,
         \A j, k \in 1..Len(s) : j # x /\ k # x => s[j] = s[k]
  PROVE  ChangePoint(s) = NoChange
<1> DEFINE n == Len(s)
           q == Quarters(s)
<1>1. q \in Seq(Int) /\ n = Len(q) /\ \A k \in 1..n : q[k] = 4 * s[k] /\ s[k] \in Nat
  BY QuartersFacts
<1>2. n \in Nat /\ SegmentSize \in Nat
  BY LenProperties, PolicyAssumption
<1>3. \A j, k \in 1..n : j # x /\ k # x => q[j] = q[k]
  BY <1>1
<1> HIDE DEF n, q
<1>4. ASSUME NEW i \in Splits(s) PROVE Difference(q, i) = 0
  <2>1. i \in 1..n - 1 /\ i >= 3 /\ n - i >= 3 /\ i \in Nat
    BY <1>2, <1>4 DEF Splits, n
  <2>2. PICK z \in 1..n : z # x
    <3>1. 1 \in 1..n /\ 2 \in 1..n /\ (1 # x \/ 2 # x)
      BY <1>2, <2>1
    <3> QED
      BY <3>1
  <2> DEFINE v == q[z]
  <2>3. v \in Int
    BY <1>1, <2>2
  <2>4. \A k \in 1..n : k # x => q[k] = v
    BY <1>3, <2>2
  <2> HIDE DEF v
  <2>5. /\ Older(q, i) \in [1..i -> Int] /\ \A k \in 1..i : k \in 1..n /\ Older(q, i)[k] = q[k]
        /\ Newer(q, i) \in [1..n - i -> Int]
        /\ \A k \in 1..n - i : i + k \in 1..n /\ Newer(q, i)[k] = q[i + k]
        /\ IsFiniteSet(1..i) /\ Cardinality(1..i) = i
        /\ IsFiniteSet(1..n - i) /\ Cardinality(1..n - i) = n - i
    <3>1. q \in Seq(Int) /\ n = Len(q) /\ i \in 1..Len(q) - 1
      BY <1>1, <2>1
    <3>2. LET m == Len(q)
          IN  /\ Older(q, i) \in [1..i -> Int]
              /\ \A k \in 1..i : k \in 1..m /\ Older(q, i)[k] = q[k]
              /\ Newer(q, i) \in [1..m - i -> Int]
              /\ \A k \in 1..m - i : i + k \in 1..m /\ Newer(q, i)[k] = q[i + k]
              /\ IsFiniteSet(1..i) /\ Cardinality(1..i) = i
              /\ IsFiniteSet(1..m - i) /\ Cardinality(1..m - i) = m - i
      BY <3>1, SegmentFacts
    <3> QED
      BY <3>1, <3>2
  <2>6. Median(Older(q, i)) = v
    <3> DEFINE D == 1..i
               f == Older(q, i)
    <3>1. \A k \in D : k # x => f[k] = v
      BY <2>4, <2>5
    <3>2. IsFiniteSet(D) /\ Cardinality(D) >= 3 /\ f \in [D -> Int]
      BY <2>1, <2>5
    <3> HIDE DEF D, f
    <3>3. Median(f) = v
      BY <2>3, <3>1, <3>2, AllButOne
    <3> QED
      BY <3>3 DEF f
  <2>7. Median(Newer(q, i)) = v
    <3> DEFINE D == 1..n - i
               f == Newer(q, i)
               y == x - i
    <3>1. y \in Int /\ \A k \in D : k # y => f[k] = v
      <4>1. ASSUME NEW k \in D, k # y PROVE i + k # x
        BY <2>1, <4>1
      <4>2. \A k \in D : f[k] = q[i + k] /\ i + k \in 1..n
        BY <2>5
      <4>3. y \in Int
        BY <2>1
      <4> HIDE DEF D, f, y
      <4> QED
        BY <2>4, <4>1, <4>2, <4>3
    <3>2. IsFiniteSet(D) /\ Cardinality(D) >= 3 /\ f \in [D -> Int]
      BY <2>1, <2>5
    <3> HIDE DEF D, f, y
    <3>3. Median(f) = v
      BY <2>3, <3>1, <3>2, AllButOne
    <3> QED
      BY <3>3 DEF f
  <2> QED
    BY <2>3, <2>6, <2>7 DEF Difference
<1> QED
  BY <1>4, NoDifferenceNoChange DEF q

\* There are finitely many pairs of places.
LEMMA PairsFacts ==
  ASSUME NEW n \in Nat
  PROVE  /\ IsFiniteSet(Pairs(n)) /\ Cardinality(Pairs(n)) \in Nat
         /\ \A p \in Pairs(n) : /\ p[1] \in 1..n /\ p[2] \in 1..n /\ p[1] < p[2]
                                /\ p = <<p[1], p[2]>>
         /\ \A i, j \in 1..n : i < j => <<i, j>> \in Pairs(n)
<1>1. IsFiniteSet(1..n)
  BY 1 \in Int, n \in Int, FS_Interval
<1>2. IsFiniteSet((1..n) \X (1..n))
  <2> DEFINE D == 1..n
  <2> HIDE DEF D
  <2>1. IsFiniteSet(D \X D)
    BY <1>1, FS_Product DEF D
  <2> QED
    BY <2>1 DEF D
<1>3. Pairs(n) \subseteq (1..n) \X (1..n)
  BY DEF Pairs
<1>4. IsFiniteSet(Pairs(n)) /\ Cardinality(Pairs(n)) \in Nat
  BY <1>2, <1>3, FS_Subset, FS_CardinalityType
<1> QED
  BY <1>4 DEF Pairs

\* More pairs of five or more places avoid one of them than have it.
LEMMA MostPairsAvoid ==
  ASSUME NEW n \in Nat, n >= 5, NEW i \in 1..n
  PROVE  2 * Cardinality({p \in Pairs(n) : p[1] # i /\ p[2] # i}) > Cardinality(Pairs(n))
<1> DEFINE P == Pairs(n)
           A == {p \in P : p[1] # i /\ p[2] # i}
           B == {p \in P : ~(p[1] # i /\ p[2] # i)}
           others == (1..n) \ {i}
           N == 1..n
<1>0. /\ IsFiniteSet(P) /\ Cardinality(P) \in Nat
      /\ \A p \in P : p[1] \in 1..n /\ p[2] \in 1..n /\ p[1] < p[2] /\ p = <<p[1], p[2]>>
      /\ \A j, k \in 1..n : j < k => <<j, k>> \in P
  BY PairsFacts
<1>1. IsFiniteSet(N) /\ Cardinality(N) = n
  <2>1. n >= 1
    OBVIOUS
  <2> QED
    BY <2>1, FirstPlaces
<1>2. IsFiniteSet(others) /\ Cardinality(others) = n - 1
  <2> HIDE DEF N
  <2>1. others = N \ {i} /\ i \in N
    BY DEF N
  <2> HIDE DEF others
  <2> QED
    BY <1>1, <2>1, FS_RemoveElement
<1>3. /\ IsFiniteSet(A) /\ Cardinality(A) \in Nat /\ IsFiniteSet(B) /\ Cardinality(B) \in Nat
      /\ Cardinality(P) = Cardinality(A) + Cardinality(B)
  <2>1. A \subseteq P /\ B \subseteq P /\ A \cup B = P /\ A \cap B = {}
    OBVIOUS
  <2> HIDE DEF A, B, P
  <2>2. IsFiniteSet(A) /\ IsFiniteSet(B)
    BY <1>0, <2>1, FS_Subset
  <2>3. Cardinality(A) \in Nat /\ Cardinality(B) \in Nat
    BY <2>2, FS_CardinalityType
  <2>4. Cardinality(A \cup B) = Cardinality(A) + Cardinality(B) - Cardinality(A \cap B)
    BY <2>2, FS_Union
  <2>5. Cardinality(A \cap B) = 0
    BY <2>1, FS_EmptySet
  <2>6. Cardinality(P) = Cardinality(A) + Cardinality(B) - 0
    BY <2>1, <2>4, <2>5
  <2> QED
    BY <2>2, <2>3, <2>6
<1>4. Cardinality(B) <= n - 1
  <2> DEFINE f == [p \in B |-> p[1] + p[2] - i]
  <2>1. \A p \in B : /\ p[1] \in 1..n /\ p[2] \in 1..n /\ p[1] < p[2] /\ p = <<p[1], p[2]>>
                     /\ (p[1] = i \/ p[2] = i)
    BY <1>0
  <2>2. \A p \in B : f[p] \in others
    BY <2>1
  <2>3. ASSUME NEW p \in B, NEW r \in B, f[p] = f[r] PROVE p = r
    <3>1. p[1] + p[2] = r[1] + r[2] /\ i \in Int
      BY <2>1, <2>3
    <3>2. p[1] = r[1] /\ p[2] = r[2]
      BY <2>1, <3>1
    <3>3. p = <<p[1], p[2]>> /\ r = <<r[1], r[2]>>
      BY <2>1
    <3> QED
      BY <3>2, <3>3
  <2>4. f \in [B -> others]
    BY <2>2
  <2> HIDE DEF f, B, others
  <2>5. f \in Injection(B, others)
    BY <2>3, <2>4 DEF Injection, IsInjective
  <2> QED
    BY <1>2, <2>5, FS_Injection
<1>5. n <= Cardinality(A)
  <2> DEFINE r(k) == IF k < i THEN k ELSE k + 1
             f == [k \in N |-> IF k <= n - 2 THEN <<r(k), r(k + 1)>>
                               ELSE IF k = n - 1 THEN <<r(1), r(3)>> ELSE <<r(1), r(4)>>]
  <2>1. \A k \in 1..n - 1 : r(k) \in 1..n /\ r(k) # i
    OBVIOUS
  <2>2. \A k, l \in 1..n - 1 : k < l => r(k) < r(l)
    OBVIOUS
  <2>3. \A k, l \in 1..n - 1 : k < l => <<r(k), r(l)>> \in A
    BY <1>0, <2>1, <2>2
  <2>4. \A k, l \in 1..n - 1 : r(k) = r(l) => k = l
    OBVIOUS
  <2> HIDE DEF A, r
  <2>5. f \in [N -> A]
    <3>1. ASSUME NEW k \in N PROVE f[k] \in A
      <4>1. CASE k <= n - 2
        <5>1. k \in 1..n - 1 /\ k + 1 \in 1..n - 1 /\ k < k + 1
          BY <4>1
        <5> QED
          BY <2>3, <4>1, <5>1
      <4>2. CASE ~(k <= n - 2)
        <5>1. 1 \in 1..n - 1 /\ 3 \in 1..n - 1 /\ 4 \in 1..n - 1 /\ 1 < 3 /\ 1 < 4
          OBVIOUS
        <5> QED
          BY <2>3, <4>2, <5>1
      <4> QED
        BY <4>1, <4>2
    <3> QED
      BY <3>1
  <2>6. ASSUME NEW k \in N, NEW l \in N, f[k] = f[l] PROVE k = l
    <3> DEFINE u(m) == IF m <= n - 2 THEN m ELSE 1
               v(m) == IF m <= n - 2 THEN m + 1 ELSE IF m = n - 1 THEN 3 ELSE 4
    <3>1. \A m \in N : f[m] = <<r(u(m)), r(v(m))>> /\ u(m) \in 1..n - 1 /\ v(m) \in 1..n - 1
      OBVIOUS
    <3>2. r(u(k)) = r(u(l)) /\ r(v(k)) = r(v(l))
      BY <2>6, <3>1
    <3>3. u(k) = u(l) /\ v(k) = v(l)
      BY <2>4, <3>1, <3>2
    <3> QED
      BY <3>3
  <2> HIDE DEF f, N
  <2>7. f \in Injection(N, A)
    BY <2>5, <2>6 DEF Injection, IsInjective
  <2>8. Cardinality(N) <= Cardinality(A)
    BY <1>3, <2>7, FS_Injection
  <2> QED
    BY <1>1, <2>8
<1> HIDE DEF A, B, P
<1>6. 2 * Cardinality(A) > Cardinality(P)
  BY <1>3, <1>4, <1>5
<1> QED
  BY <1>6 DEF A, P

\* The slopes between the observations of a series.
Slopes(s) == [p \in Pairs(Len(s)) |-> (480 * (s[p[2]] - s[p[1]])) \div (p[2] - p[1])]

\* The slope is the median of integers.
LEMMA SlopesFacts ==
  ASSUME NEW s \in Seq(Nat)
  PROVE  /\ Slope(s) = Median(Slopes(s))
         /\ Slopes(s) \in [Pairs(Len(s)) -> Int]
<1>1. Slope(s) = Median(Slopes(s))
  BY DEF Slope, Slopes
<1>2. Len(s) \in Nat /\ s \in [1..Len(s) -> Nat]
  BY LenProperties
<1>3. ASSUME NEW p \in Pairs(Len(s))
      PROVE  (480 * (s[p[2]] - s[p[1]])) \div (p[2] - p[1]) \in Int
  <2>1. p[1] \in 1..Len(s) /\ p[2] \in 1..Len(s) /\ p[1] < p[2]
    BY <1>2, <1>3, PairsFacts
  <2> DEFINE x == 480 * (s[p[2]] - s[p[1]])
             d == p[2] - p[1]
  <2>2. x \in Int /\ d \in Nat /\ d > 0
    <3> DEFINE i == p[1]
               j == p[2]
    <3>1. i \in 1..Len(s) /\ j \in 1..Len(s) /\ i < j
      BY <2>1
    <3> HIDE DEF i, j
    <3>2. s[i] \in Nat /\ s[j] \in Nat
      BY <1>2, <3>1
    <3>3. 480 * (s[j] - s[i]) \in Int
      BY <3>2
    <3>4. j - i \in Nat /\ j - i > 0
      BY <1>2, <3>1
    <3> QED
      BY <3>3, <3>4 DEF i, j
  <2> HIDE DEF x, d
  <2>3. x \div d \in Int
    BY <2>2
  <2> QED
    BY <2>3 DEF x, d
<1> QED
  BY <1>1, <1>3 DEF Slopes

\* A level series with one bad run has no trend, of five observations.
LEMMA BadRunIsNoTrend ==
  ASSUME NEW s \in Seq(Nat), NEW x \in 1..Len(s), TrendObservations >= 5,
         \A j, k \in 1..Len(s) : j # x /\ k # x => s[j] = s[k]
  PROVE  Trend(s) = 0
<1> DEFINE n == Len(s)
           P == Pairs(n)
           f == Slopes(s)
           A == {p \in P : p[1] # x /\ p[2] # x}
<1>1. n \in Nat /\ s \in [1..n -> Nat] /\ TrendObservations \in Nat
  BY LenProperties, PolicyAssumption
<1>2. CASE ~(n >= TrendObservations)
  BY <1>2 DEF Trend
<1>3. CASE n >= TrendObservations
  <2>1. n >= 5
    BY <1>1, <1>3
  <2>2. 2 * Cardinality(A) > Cardinality(P)
    BY <1>1, <2>1, MostPairsAvoid
  <2>3. f \in [P -> Int] /\ Slope(s) = Median(f)
    BY SlopesFacts
  <2>4. /\ IsFiniteSet(P) /\ Cardinality(P) \in Nat
        /\ \A p \in P : p[1] \in 1..n /\ p[2] \in 1..n /\ p[1] < p[2]
    BY <1>1, PairsFacts
  <2>5. A \subseteq AtValue(f, 0)
    <3>1. ASSUME NEW p \in A PROVE f[p] = 0
      <4>1. p \in P /\ p[1] \in 1..n /\ p[2] \in 1..n /\ p[1] < p[2] /\ p[1] # x /\ p[2] # x
        BY <2>4
      <4>2. s[p[2]] = s[p[1]]
        BY <4>1
      <4>3. f[p] = (480 * (s[p[2]] - s[p[1]])) \div (p[2] - p[1])
        BY <4>1 DEF Slopes
      <4>4. 480 * (s[p[2]] - s[p[1]]) = 0
        BY <1>1, <4>1, <4>2
      <4>5. p[2] - p[1] \in Nat /\ p[2] - p[1] > 0
        BY <4>1
      <4>6. \A d \in Nat : d > 0 => 0 \div d = 0
        OBVIOUS
      <4> QED
        BY <4>3, <4>4, <4>5, <4>6
    <3> HIDE DEF f
    <3> QED
      BY <2>3, <3>1 DEF AtValue
  <2> HIDE DEF A, f, P
  <2>6. IsFiniteSet(AtValue(f, 0)) /\ Cardinality(AtValue(f, 0)) \in Nat
    BY <2>3, <2>4, 0 \in Int, PlacesFacts
  <2>7. Cardinality(A) <= Cardinality(AtValue(f, 0)) /\ Cardinality(A) \in Nat
    BY <2>5, <2>6, FS_Subset, FS_CardinalityType
  <2>8. 2 * Cardinality(AtValue(f, 0)) > Cardinality(P)
    BY <2>2, <2>4, <2>6, <2>7
  <2>9. Median(f) = 0
    BY <2>3, <2>4, <2>8, 0 \in Int, Majority
  <2> QED
    BY <2>3, <2>9 DEF Trend
<1> QED
  BY <1>2, <1>3

\* A baseline most of which is level disperses as little as one that is level.
LEMMA LevelDispersion ==
  ASSUME NEW D, IsFiniteSet(D), NEW base \in [D -> Int], NEW v \in Int,
         2 * Cardinality(AtValue(base, v)) > Cardinality(D)
  PROVE  /\ Median(base) = v
         /\ Dispersion(base) = Largest({0, RelativeDispersion * Abs(v), 4 * AbsoluteDispersion})
<1>1. Median(base) = v
  BY Majority
<1> DEFINE f == Deviations(base, v)
<1>2. f \in [D -> Int]
  BY AbsFacts DEF Deviations
<1>3. AtValue(f, 0) = AtValue(base, v)
  <2>1. \A i \in D : f[i] = 0 <=> base[i] = v
    <3>1. ASSUME NEW i \in D PROVE f[i] = 0 <=> base[i] = v
      <4>1. f[i] = Abs(base[i] - v) /\ base[i] - v \in Int
        BY DEF Deviations
      <4>2. Abs(base[i] - v) = 0 <=> base[i] - v = 0
        BY <4>1, AbsFacts
      <4>3. base[i] \in Int
        OBVIOUS
      <4> HIDE DEF f
      <4> QED
        BY <4>1, <4>2, <4>3
    <3> QED
      BY <3>1
  <2> HIDE DEF f
  <2>2. \A i : i \in AtValue(f, 0) <=> i \in AtValue(base, v)
    BY <1>2, <2>1 DEF AtValue
  <2> QED
    BY <2>2
<1> HIDE DEF f
<1>4. Median(f) = 0
  BY <1>2, <1>3, 0 \in Int, Majority
<1>5. 1000 * Median(f) = 0
  BY <1>4
<1> QED
  BY <1>1, <1>5 DEF Dispersion, f

\* A drift depends on the median, the dispersion and the newest observation.
LEMMA SameDrift ==
  ASSUME NEW s \in Seq(Nat), NEW t \in Seq(Nat), Len(s) = Len(t), Len(s) >= 2,
         s[Len(s)] = t[Len(s)], Center(s) = Center(t),
         Dispersion(Baseline(Quarters(s))) = Dispersion(Baseline(Quarters(t)))
  PROVE  Drift(s) = Drift(t)
<1> DEFINE n == Len(s)
<1>1. n \in Nat /\ n \in 1..n /\ n >= 2
  <2>1. n \in Nat
    BY LenProperties
  <2> QED
    BY <2>1
<1>2. /\ Quarters(s)[n] = 4 * s[n] /\ Len(Quarters(s)) = n
      /\ Quarters(t)[n] = 4 * t[n] /\ Len(Quarters(t)) = n
  BY <1>1, QuartersFacts
<1>3. Last(Quarters(s)) = Last(Quarters(t))
  BY <1>2 DEF Last
<1>4. Median(Baseline(Quarters(s))) = Median(Baseline(Quarters(t)))
  BY DEF Center
<1> QED
  BY <1>3, <1>4 DEF Drift

\* Where all but one of a baseline of three or more are level, it is as if that one were.
LEMMA BadRunSpoilsNothing ==
  ASSUME NEW s \in Seq(Nat), NEW v \in Nat, Len(s) - Start(Len(s)) >= 3,
         NEW i \in Start(Len(s))..Len(s) - 1,
         \A j \in Start(Len(s))..Len(s) - 1 : j # i => s[j] = v
  PROVE  Drift(s) = Drift(Mended(s, i, v))
<1> DEFINE n == Len(s)
           a == Start(n)
           D == 1..n - a
           t == Mended(s, i, v)
           x == i - a + 1
<1>1. n \in Nat /\ a \in Int /\ a >= 1 /\ a <= n /\ n >= 2
  <2>1. n \in Nat
    BY LenProperties
  <2>2. n # 0
    <3>1. Start(0) >= 1 /\ Start(0) \in Int
      <4>1. BaselineWindow \in Nat
        BY PolicyAssumption
      <4>2. /\ Largest({1, 0 - BaselineWindow}) \in {1, 0 - BaselineWindow}
            /\ Largest({1, 0 - BaselineWindow}) >= 1
        BY <4>1, 1 \in Int, 0 - BaselineWindow \in Int, LargestFacts
      <4> QED
        BY <4>1, <4>2 DEF Start
    <3> QED
      BY <3>1
  <2>3. a \in 1..n
    BY <2>1, <2>2, n >= 1, StartFacts
  <2> QED
    BY <2>1, <2>3
<1> HIDE DEF n
<1> HIDE DEF a
<1>2. i \in a..n - 1 /\ n - a >= 3 /\ \A j \in a..n - 1 : j # i => s[j] = v
  BY DEF n, a
<1>3. i \in 1..n /\ i # n
  BY <1>1, <1>2
<1>4. t \in Seq(Nat) /\ Len(t) = n /\ \A j \in 1..n : t[j] = IF j = i THEN v ELSE s[j]
  BY <1>3, ExceptSeq DEF Mended, n
<1> HIDE DEF t
<1>5. ASSUME NEW u \in Seq(Nat), Len(u) = n, \A j \in a..n - 1 : j # i => u[j] = v
      PROVE  /\ Center(u) = 4 * v
             /\ Dispersion(Baseline(Quarters(u)))
                  = Largest({0, RelativeDispersion * Abs(4 * v), 4 * AbsoluteDispersion})
  <2> DEFINE base == Baseline(Quarters(u))
             w == 4 * v
  <2>1. /\ IsFiniteSet(D) /\ Cardinality(D) = n - a
        /\ base \in [D -> Int]
        /\ \A k \in D : a + k - 1 \in 1..n - 1 /\ base[k] = 4 * u[a + k - 1]
    <3>1. Len(u) >= 2
      BY <1>1, <1>5
    <3>2. LET m == Len(u)
              b == Start(m)
          IN  /\ IsFiniteSet(1..m - b) /\ Cardinality(1..m - b) = m - b
              /\ base \in [1..m - b -> Int]
              /\ \A k \in 1..m - b : b + k - 1 \in 1..m - 1 /\ base[k] = 4 * u[b + k - 1]
      BY <1>5, <3>1, QuartersBaseline
    <3> QED
      BY <1>5, <3>2 DEF a
  <2>2. x \in Int /\ \A k \in D : k # x => base[k] = w
    <3>1. \A k \in D : k # x => a + k - 1 # i /\ a + k - 1 \in a..n - 1
      BY <1>1, <1>2
    <3>2. x \in Int
      BY <1>1, <1>2
    <3> QED
      BY <1>5, <2>1, <3>1, <3>2
  <2>3. Cardinality(D) >= 3 /\ w \in Int
    BY <1>2, <2>1
  <2> HIDE DEF D, base, w, x
  <2>4. 2 * Cardinality(AtValue(base, w)) > Cardinality(D)
    BY <2>1, <2>2, <2>3, MostAreEqual
  <2>5. /\ Median(base) = w
        /\ Dispersion(base) = Largest({0, RelativeDispersion * Abs(w), 4 * AbsoluteDispersion})
    BY <2>1, <2>3, <2>4, LevelDispersion
  <2> QED
    BY <2>5 DEF Center, base, w
<1>6. \A j \in a..n - 1 : j # i => t[j] = v
  BY <1>1, <1>2, <1>4, SMTT(30)
<1>7. /\ Center(s) = Center(t)
      /\ Dispersion(Baseline(Quarters(s))) = Dispersion(Baseline(Quarters(t)))
  BY <1>2, <1>4, <1>5, <1>6 DEF n
<1>8. s[n] = t[n]
  BY <1>1, <1>3, <1>4
<1> QED
  BY <1>1, <1>4, <1>7, <1>8, SameDrift DEF n, t

\* One bad run is no structure and spoils no baseline, for every policy.
THEOREM BadRunsAreHarmless == SeriesSpec => []OneBadRunIsHarmless
<1>1. ASSUME SeriesIInv PROVE OneBadRunIsHarmless
  <2> SUFFICES ASSUME Analyzed PROVE OneBadRunIsHarmless
    BY DEF OneBadRunIsHarmless
  <2> DEFINE n == Len(series)
             b == n - Len(Baseline(series))
  <2>1. /\ series \in Seq(Nat) /\ n \in Nat /\ n >= 1 /\ DOMAIN series = 1..n
        /\ driftResult = Drift(series) /\ changePoint = ChangePoint(series) /\ trend = Trend(series)
    <3>1. /\ series \in Seq(Nat) /\ n \in 1..7
          /\ driftResult = Drift(series) /\ changePoint = ChangePoint(series) /\ trend = Trend(series)
      BY <1>1, AnalyzedFacts
    <3>2. \A m \in 1..7 : m \in Nat /\ m >= 1
      OBVIOUS
    <3>3. DOMAIN series = 1..n
      BY <3>1, LenProperties
    <3> QED
      BY <3>1, <3>2, <3>3
  <2>2. ASSUME NEW i \in 1..n, Constant(RemoveAt(series, i))
        PROVE  /\ SegmentSize >= 3 => changePoint = NoChange
               /\ TrendObservations >= 5 => trend = 0
    <3>1. \A j, k \in 1..Len(series) : j # i /\ k # i => series[j] = series[k]
      BY <2>1, <2>2, RestIsLevel
    <3>2. i \in 1..Len(series) /\ i \in Int
      BY <2>1, <2>2
    <3>3. SegmentSize >= 3 => changePoint = NoChange
      BY <2>1, <3>1, <3>2, BadRunIsNoChange
    <3>4. TrendObservations >= 5 => trend = 0
      BY <2>1, <3>1, <3>2, BadRunIsNoTrend
    <3> QED
      BY <3>3, <3>4
  <2>3. ASSUME NEW i \in 1..n, i \in b..n - 1, n - b >= 3,
               Constant(RemoveAt(Baseline(series), i - b + 1))
        PROVE  driftResult = Drift(Mended(series, i, RemoveAt(Baseline(series), i - b + 1)[1]))
    <3> DEFINE base == Baseline(series)
               a == Start(n)
               x == i - b + 1
               v == RemoveAt(base, x)[1]
    <3>1. series \in Seq(Int)
      BY <2>1, Nat \subseteq Int, SeqMonotonic
    <3>2. /\ base = SubSeq(series, a, n - 1) /\ Len(base) = n - a
          /\ \A k \in 1..n - a : base[k] = series[a + k - 1]
      BY <2>1, <3>1, BaselineFacts
    <3>3. a \in 1..n
      BY <2>1, StartFacts
    <3>4. b = a
      BY <2>1, <3>2, <3>3
    <3> HIDE DEF n, b, a, base
    <3>5. /\ x \in 1..n - a /\ n - a >= 3 /\ i = a + x - 1 /\ i \in a..n - 1
          /\ \A k \in 1..n - a : a + k - 1 \in 1..n
      BY <2>1, <2>3, <3>3, <3>4
    <3>6. base \in Seq(Nat)
      <4>1. \A j \in a..n - 1 : series[j] \in Nat
        <5>1. \A j \in a..n - 1 : j \in 1..Len(series)
          BY <2>1, <3>3 DEF n
        <5> QED
          BY <2>1, <5>1, ElementOfSeq
      <4>2. a \in Int /\ n - 1 \in Int
        BY <2>1, <3>3
      <4> DEFINE e == n - 1
      <4> HIDE DEF e
      <4>3. SubSeq(series, a, e) \in Seq(Nat)
        BY <4>1, <4>2, SubSeqProperties DEF e
      <4> QED
        BY <3>2, <4>3 DEF e
    <3> HIDE DEF x
    <3>7. v \in Nat /\ \A k \in 1..n - a : k # x => base[k] = v
      <4>0. Constant(RemoveAt(base, x))
        BY <2>3, Zenon DEF x, base
      <4>1. x \in 1..Len(base) /\ Len(base) >= 2 /\ Constant(RemoveAt(base, x))
        <5>1. n - a \in Int
          BY <2>1, <3>3
        <5>2. Len(base) = n - a /\ n - a >= 3 /\ x \in 1..n - a
          BY <3>2, <3>5
        <5>3. x \in 1..Len(base) /\ Len(base) >= 2
          BY <5>1, <5>2
        <5> QED
          BY <4>0, <5>3
      <4>2. \A k \in 1..Len(base) : k # x => base[k] = v
        BY <3>6, <4>1, RestIsLevel
      <4>3. 1 \in 1..Len(base) - 1
        <5>1. n - a \in Int
          BY <2>1, <3>3
        <5>2. Len(base) = n - a /\ n - a >= 3
          BY <3>2, <3>5
        <5> QED
          BY <5>1, <5>2
      <4>4. RemoveAt(base, x) \in Seq(Nat) /\ Len(RemoveAt(base, x)) = Len(base) - 1
        BY <3>6, <4>1, RemoveAtFacts
      <4>5. v \in Nat
        BY <4>3, <4>4, ElementOfSeq
      <4> QED
        BY <3>2, <4>2, <4>5
    <3> HIDE DEF v
    <3>8. \A j \in a..n - 1 : j # i => series[j] = v
      <4>1. ASSUME NEW j \in a..n - 1, j # i PROVE series[j] = v
        <5> DEFINE k == j - a + 1
        <5>1. k \in 1..n - a /\ a + k - 1 = j /\ k # x
          BY <2>1, <3>3, <3>5, <4>1
        <5> HIDE DEF k
        <5>2. base[k] = v /\ base[k] = series[a + k - 1]
          BY <3>2, <3>7, <5>1
        <5> QED
          BY <5>1, <5>2
      <4> QED
        BY <4>1
    <3>9. Drift(series) = Drift(Mended(series, i, v))
      BY <2>1, <3>5, <3>7, <3>8, BadRunSpoilsNothing DEF a, n
    <3> QED
      BY <2>1, <3>9 DEF v, x, base
  <2> HIDE DEF n
  <2>4. ASSUME NEW i \in DOMAIN series
        PROVE  LET others == RemoveAt(series, i)
                   m == Len(series) - Len(Baseline(series))
               IN  /\ Constant(others) => /\ SegmentSize >= 3 => changePoint = NoChange
                                          /\ TrendObservations >= 5 => trend = 0
                   /\ (i \in m..Len(series) - 1 /\ Len(series) - m >= 3) =>
                         LET level == RemoveAt(Baseline(series), i - m + 1)
                         IN  Constant(level) => driftResult = Drift(Mended(series, i, level[1]))
    <3>1. i \in 1..n
      BY <2>1, <2>4
    <3>2. Constant(RemoveAt(series, i)) => /\ SegmentSize >= 3 => changePoint = NoChange
                                           /\ TrendObservations >= 5 => trend = 0
      BY <2>2, <3>1
    <3>3. (i \in b..n - 1 /\ n - b >= 3 /\ Constant(RemoveAt(Baseline(series), i - b + 1)))
            => driftResult = Drift(Mended(series, i, RemoveAt(Baseline(series), i - b + 1)[1]))
      BY <2>3, <3>1
    <3> QED
      BY <3>2, <3>3, Zenon DEF n
  <2> QED
    BY <2>4, Zenon DEF OneBadRunIsHarmless
<1> QED
  BY <1>1, SeriesAlways, PTL

-------------------------------------------------------------------------------
(* A level shift.                                                          *)

\* The median is within the bounds of the values.
LEMMA MedianBounds ==
  ASSUME NEW D, IsFiniteSet(D), D # {}, NEW f \in [D -> Int], NEW v \in Int
  PROVE  /\ (\A i \in D : f[i] >= v) => Median(f) >= v
         /\ (\A i \in D : f[i] <= v) => Median(f) <= v
<1>1. PICK i, j \in D : Median(f) = (f[i] + f[j]) \div 2
  BY MedianBetween
<1> DEFINE x == f[i]
           y == f[j]
<1>2. x \in Int /\ y \in Int
  OBVIOUS
<1> HIDE DEF x, y
<1>3. x >= v /\ y >= v => (x + y) \div 2 >= v
  BY <1>2
<1>4. x <= v /\ y <= v => (x + y) \div 2 <= v
  BY <1>2
<1>5. Median(f) = (x + y) \div 2
  BY <1>1 DEF x, y
<1> QED
  BY <1>3, <1>4, <1>5 DEF x, y

\* One level before the i-th run, and another one after it.
IsShift(s, i, x, y) ==
  /\ s \in Seq(Nat) /\ i \in 1..Len(s) - 1 /\ x \in Nat /\ y \in Nat /\ x # y
  /\ \A k \in 1..i : s[k] = x
  /\ \A k \in i + 1..Len(s) : s[k] = y

\* Between two levels no split shows a difference the other way.
LEMMA ShiftHasOneWay ==
  ASSUME NEW s, NEW i, NEW x, NEW y, IsShift(s, i, x, y), NEW j \in 1..Len(s) - 1
  PROVE  /\ Difference(Quarters(s), j) \in Int
         /\ x < y => Difference(Quarters(s), j) >= 0
         /\ y < x => Difference(Quarters(s), j) <= 0
         /\ j = i => Difference(Quarters(s), j) = 4 * (y - x) /\ Noise(Quarters(s), j) = 0
<1> DEFINE q == Quarters(s)
           n == Len(s)
           older == Older(q, j)
           newer == Newer(q, j)
           u == 4 * x
           w == 4 * y
<1>1. /\ s \in Seq(Nat) /\ n \in Nat /\ i \in 1..n - 1 /\ x \in Nat /\ y \in Nat /\ x # y
      /\ \A k \in 1..i : s[k] = x
      /\ \A k \in i + 1..n : s[k] = y
  BY LenProperties DEF IsShift
<1>2. q \in Seq(Int) /\ Len(q) = n /\ \A k \in 1..n : q[k] = 4 * s[k]
  BY <1>1, QuartersFacts
<1>3. /\ u \in Int /\ w \in Int /\ \A k \in 1..n : (k <= i => q[k] = u) /\ (k > i => q[k] = w)
      /\ x < y => u <= w
      /\ y < x => w <= u
  <2>1. \A k \in 1..n : k <= i => k \in 1..i
    BY <1>1
  <2>2. \A k \in 1..n : k > i => k \in i + 1..n
    BY <1>1
  <2>3. \A k \in 1..n : (k <= i => q[k] = u) /\ (k > i => q[k] = w)
    BY <1>1, <1>2, <2>1, <2>2
  <2> QED
    BY <1>1, <2>3
<1> HIDE DEF q, n, u, w
<1>4. j \in 1..Len(q) - 1 /\ j \in 1..n - 1
  BY <1>2 DEF n
<1>5. /\ older \in [1..j -> Int] /\ \A k \in 1..j : k \in 1..n /\ older[k] = q[k]
      /\ newer \in [1..n - j -> Int]
      /\ \A k \in 1..n - j : j + k \in 1..n /\ newer[k] = q[j + k]
      /\ IsFiniteSet(1..j) /\ 1..j # {}
      /\ IsFiniteSet(1..n - j) /\ 1..n - j # {}
      /\ Median(older) \in Int /\ Median(newer) \in Int
      /\ Difference(q, j) \in Int
  <2>1. LET m == Len(q)
        IN  /\ older \in [1..j -> Int] /\ \A k \in 1..j : k \in 1..m /\ older[k] = q[k]
            /\ newer \in [1..m - j -> Int]
            /\ \A k \in 1..m - j : j + k \in 1..m /\ newer[k] = q[j + k]
            /\ IsFiniteSet(1..j) /\ 1..j # {}
            /\ IsFiniteSet(1..m - j) /\ 1..m - j # {}
            /\ Median(older) \in Int /\ Median(newer) \in Int
            /\ Difference(q, j) \in Int
    BY <1>2, <1>4, SegmentFacts
  <2> QED
    BY <1>2, <2>1
<1>6. Difference(q, j) = Median(newer) - Median(older)
  BY DEF Difference
<1> DEFINE D == 1..j
           E == 1..n - j
<1> HIDE DEF older, newer
<1>7. j <= i => Median(older) = u
  <2> SUFFICES ASSUME j <= i PROVE Median(older) = u
    OBVIOUS
  <2>1. \A k \in D : older[k] = u
    <3>1. \A k \in D : k <= i
      BY <1>1, <1>4
    <3> QED
      BY <1>3, <1>5, <3>1
  <2>2. older \in [D -> Int] /\ IsFiniteSet(D) /\ D # {}
    BY <1>5
  <2> HIDE DEF D
  <2> QED
    BY <1>3, <2>1, <2>2, AllSame
<1>8. j >= i => Median(newer) = w
  <2> SUFFICES ASSUME j >= i PROVE Median(newer) = w
    OBVIOUS
  <2>1. \A k \in E : newer[k] = w
    <3>1. \A k \in E : j + k > i
      BY <1>1, <1>4
    <3> QED
      BY <1>3, <1>5, <3>1
  <2>2. newer \in [E -> Int] /\ IsFiniteSet(E) /\ E # {}
    BY <1>5
  <2> HIDE DEF E
  <2> QED
    BY <1>3, <2>1, <2>2, AllSame
<1>9. /\ \A k \in D : older[k] = u \/ older[k] = w
      /\ \A k \in E : newer[k] = u \/ newer[k] = w
  <2>1. \A k \in 1..n : k <= i \/ k > i
    BY <1>1
  <2> QED
    BY <1>3, <1>5, <2>1
<1>10. x < y => Median(newer) >= u /\ Median(older) <= w
  <2> SUFFICES ASSUME x < y PROVE Median(newer) >= u /\ Median(older) <= w
    OBVIOUS
  <2>1. (\A k \in D : older[k] <= w) /\ \A k \in E : newer[k] >= u
    BY <1>3, <1>9
  <2>2. /\ older \in [D -> Int] /\ IsFiniteSet(D) /\ D # {}
        /\ newer \in [E -> Int] /\ IsFiniteSet(E) /\ E # {}
    BY <1>5
  <2> HIDE DEF D, E
  <2> QED
    BY <1>3, <2>1, <2>2, MedianBounds
<1>11. y < x => Median(newer) <= u /\ Median(older) >= w
  <2> SUFFICES ASSUME y < x PROVE Median(newer) <= u /\ Median(older) >= w
    OBVIOUS
  <2>1. (\A k \in D : older[k] >= w) /\ \A k \in E : newer[k] <= u
    BY <1>3, <1>9
  <2>2. /\ older \in [D -> Int] /\ IsFiniteSet(D) /\ D # {}
        /\ newer \in [E -> Int] /\ IsFiniteSet(E) /\ E # {}
    BY <1>5
  <2> HIDE DEF D, E
  <2> QED
    BY <1>3, <2>1, <2>2, MedianBounds
<1>12. j <= i \/ j >= i
  BY <1>1, <1>4
<1>13. x < y => Difference(q, j) >= 0
  <2> DEFINE a == Median(older)
             b == Median(newer)
  <2> SUFFICES ASSUME x < y PROVE Difference(q, j) >= 0
    OBVIOUS
  <2>1. a \in Int /\ b \in Int /\ Difference(q, j) = b - a
    BY <1>5, <1>6
  <2>2. b >= u /\ a <= w /\ (a = u \/ b = w)
    BY <1>7, <1>8, <1>10, <1>12
  <2>3. u \in Int /\ w \in Int /\ u <= w
    BY <1>3
  <2> HIDE DEF a, b, u, w
  <2>4. b - a >= 0
    BY <2>1, <2>2, <2>3
  <2> QED
    BY <2>1, <2>4
<1>14. y < x => Difference(q, j) <= 0
  <2> DEFINE a == Median(older)
             b == Median(newer)
  <2> SUFFICES ASSUME y < x PROVE Difference(q, j) <= 0
    OBVIOUS
  <2>1. a \in Int /\ b \in Int /\ Difference(q, j) = b - a
    BY <1>5, <1>6
  <2>2. b <= u /\ a >= w /\ (a = u \/ b = w)
    BY <1>7, <1>8, <1>11, <1>12
  <2>3. u \in Int /\ w \in Int /\ w <= u
    BY <1>3
  <2> HIDE DEF a, b, u, w
  <2>4. b - a <= 0
    BY <2>1, <2>2, <2>3
  <2> QED
    BY <2>1, <2>4
<1>15. ASSUME j = i PROVE Difference(q, j) = 4 * (y - x) /\ Noise(q, j) = 0
  <2>1. Median(older) = u /\ Median(newer) = w
    BY <1>1, <1>7, <1>8, <1>15
  <2>2. Difference(q, j) = 4 * (y - x)
    BY <1>1, <1>6, <2>1 DEF u, w
  <2> DEFINE N == 1..n
             f == [k \in N |-> Abs(q[k] - IF k <= j THEN Median(older) ELSE Median(newer))]
  <2>3. Noise(q, j) = Median(f)
    <3>1. DOMAIN q = N
      BY <1>2, LenProperties
    <3> QED
      BY <3>1 DEF Noise, older, newer
  <2>4. \A k \in N : f[k] = 0
    <3>1. \A k \in N : q[k] = IF k <= j THEN u ELSE w
      BY <1>1, <1>3, <1>15
    <3>2. u - u = 0 /\ w - w = 0 /\ Abs(0) = 0
      BY <1>3, AbsFacts
    <3> QED
      BY <2>1, <3>1, <3>2
  <2>5. f \in [N -> Int]
    BY <2>4
  <2>6. IsFiniteSet(N) /\ N # {}
    BY <1>1, n >= 1, FirstPlaces
  <2> HIDE DEF N, f
  <2>7. Median(f) = 0
    BY <2>4, <2>5, <2>6, 0 \in Int, AllSame
  <2> QED
    BY <2>2, <2>3, <2>7
<1> QED
  BY <1>5, <1>13, <1>14, <1>15 DEF q

\* A shift with a segment on both sides is a change point.
LEMMA ShiftIsChange ==
  ASSUME NEW s, NEW i, NEW x, NEW y, IsShift(s, i, x, y), i \in Splits(s), ChangeThreshold <= 50
  PROVE  ChangePoint(s).direction = Sign(y - x)
<1> DEFINE q == Quarters(s)
<1>1. s \in Seq(Nat) /\ i \in 1..Len(s) - 1 /\ x \in Nat /\ y \in Nat /\ x # y
  BY DEF IsShift
<1>2. PICK g \in BestSplits(s) :
        ChangePoint(s) = IF Reaches(CandidateScore(q, g), ChangeThreshold)
                         THEN [index |-> g, direction |-> ChangeDirection(q, g)]
                         ELSE NoChange
  BY <1>1, ChangePointFacts
<1>3. /\ g \in 1..Len(s) - 1
      /\ AtLeast(CandidateScore(q, g), CandidateScore(q, i))
  BY <1>1, BestSplitsFacts
<1>4. /\ Difference(q, g) \in Int
      /\ x < y => Difference(q, g) >= 0
      /\ y < x => Difference(q, g) <= 0
  BY <1>3, ShiftHasOneWay
<1>5. Difference(q, i) = 4 * (y - x) /\ Noise(q, i) = 0
  BY <1>1, ShiftHasOneWay
<1>6. q \in Seq(Int) /\ Len(q) = Len(s)
  BY <1>1, QuartersFacts
<1> HIDE DEF q
<1>7. Difference(q, i) # 0
  BY <1>1, <1>5
<1>8. CandidateScore(q, i) = [num |-> 10000, den |-> 1349]
  BY <1>5, <1>7 DEF CandidateScore
<1> DEFINE c == CandidateScore(q, g)
<1>9. c \in Fractions /\ (Difference(q, g) = 0 => c.num = 0)
  BY <1>3, <1>6, SplitScoreFacts
<1>10. c.num \in Nat /\ c.den \in Nat /\ c.den > 0
  BY <1>9 DEF Fractions
<1>11. c.num * 1349 >= 10000 * c.den
  BY <1>3, <1>8 DEF AtLeast
<1>12. Reaches(c, ChangeThreshold) /\ c.num # 0
  <2> DEFINE a == c.num
             b == c.den
             t == ChangeThreshold
  <2>1. a \in Nat /\ b \in Nat /\ b > 0 /\ a * 1349 >= 10000 * b /\ t \in Nat /\ t <= 50
    BY <1>10, <1>11, PolicyAssumption
  <2> HIDE DEF a, b, t
  <2>2. t * b <= 50 * b /\ t * b \in Nat
    BY <2>1, 50 \in Nat, TimesGrows
  <2>3. 200 * t * b = 200 * (t * b)
    BY <2>1
  <2>4. 1349 * a >= 200 * t * b
    BY <2>1, <2>2, <2>3
  <2>5. a # 0
    BY <2>1
  <2> QED
    BY <2>4, <2>5 DEF a, b, t, Reaches
<1>13. ChangePoint(s).direction = ChangeDirection(q, g) /\ Difference(q, g) # 0
  BY <1>2, <1>9, <1>12 DEF q
<1>14. x < y \/ y < x
  BY <1>1
<1> QED
  BY <1>1, <1>4, <1>13, <1>14 DEF ChangeDirection, Sign

\* Where most of the places are known to be at v, most are at v.
LEMMA PartIsMost ==
  ASSUME NEW D, IsFiniteSet(D), NEW f \in [D -> Int], NEW v \in Int, NEW E \in SUBSET D,
         \A k \in E : f[k] = v, 2 * Cardinality(E) > Cardinality(D)
  PROVE  2 * Cardinality(AtValue(f, v)) > Cardinality(D)
<1>1. /\ IsFiniteSet(AtValue(f, v)) /\ Cardinality(AtValue(f, v)) \in Nat /\ Cardinality(D) \in Nat
  BY PlacesFacts
<1>2. E \subseteq AtValue(f, v)
  BY DEF AtValue
<1>3. Cardinality(E) <= Cardinality(AtValue(f, v)) /\ Cardinality(E) \in Nat
  BY <1>1, <1>2, FS_Subset, FS_CardinalityType
<1> QED
  BY <1>1, <1>3

\* A shift that has no segment yet stands out from a baseline of the old level.
LEMMA ShiftIsDrift ==
  ASSUME NEW s, NEW i, NEW x, NEW y, IsShift(s, i, x, y),
         i >= SegmentSize, i \notin Splits(s), Len(s) >= MinimumHistory,
         BaselineWindow = NoWindow \/ BaselineWindow > 2 * (SegmentSize - 2),
         6745 * 4 * Abs(y - x) >= Thresholds[1] * Dispersion(<<4 * x>>)
  PROVE  Drift(s).severity > 0 /\ Drift(s).direction = Sign(y - x)
<1> DEFINE n == Len(s)
           a == Start(n)
           D == 1..n - a
           base == Baseline(Quarters(s))
           v == 4 * x
<1>1. /\ s \in Seq(Nat) /\ n \in Nat /\ i \in 1..n - 1 /\ x \in Nat /\ y \in Nat /\ x # y
      /\ \A k \in 1..i : s[k] = x
      /\ s[n] = y
  <2>1. /\ s \in Seq(Nat) /\ n \in Nat /\ i \in 1..n - 1 /\ x \in Nat /\ y \in Nat /\ x # y
        /\ \A k \in 1..i : s[k] = x
        /\ \A k \in i + 1..n : s[k] = y
    BY LenProperties DEF IsShift
  <2> HIDE DEF n
  <2>2. n \in i + 1..n
    BY <2>1
  <2> QED
    BY <2>1, <2>2
<1>2. /\ SegmentSize \in Nat /\ SegmentSize >= 2 /\ n >= 2 /\ BaselineWindow \in Nat
      /\ i >= SegmentSize /\ n - i < SegmentSize
  <2>1. SegmentSize \in Nat /\ SegmentSize >= 2 /\ BaselineWindow \in Nat
    BY PolicyAssumption
  <2>2. ~(i <= n - SegmentSize)
    BY <1>1, <2>1 DEF Splits
  <2> HIDE DEF n
  <2> QED
    BY <1>1, <2>1, <2>2
<1>3. /\ a \in 1..n - 1
      /\ IsFiniteSet(D) /\ Cardinality(D) = n - a /\ base \in [D -> Int]
      /\ \A k \in D : a + k - 1 \in 1..n - 1 /\ base[k] = 4 * s[a + k - 1]
  <2>1. s \in Seq(Nat) /\ Len(s) >= 2
    BY <1>1, <1>2
  <2> QED
    BY <2>1, QuartersBaseline, SMTT(30)
<1>4. a = 1 \/ (BaselineWindow # NoWindow /\ a = n - BaselineWindow)
  <2>1. n >= 1
    BY <1>2
  <2> QED
    BY <1>1, <2>1, StartFacts
<1> HIDE DEF n, a, base
<1>5. i >= a /\ 2 * (i - a + 1) > n - a
  <2> DEFINE w == BaselineWindow
             z == SegmentSize
  <2>1. /\ w \in Nat /\ z \in Nat /\ z >= 2 /\ i >= z /\ n - i < z
        /\ a = 1 \/ (w > 2 * (z - 2) /\ a = n - w)
    BY <1>2, <1>4
  <2> HIDE DEF w, z
  <2> QED
    BY <1>1, <1>3, <2>1
<1>6. 2 * Cardinality(AtValue(base, v)) > Cardinality(D)
  <2> DEFINE m == i - a + 1
             E == 1..m
  <2>1. m \in Nat /\ m >= 1 /\ m <= n - a
    BY <1>1, <1>3, <1>5
  <2>2. \A k \in E : k \in D /\ base[k] = v
    <3>1. \A k \in E : k \in D /\ a + k - 1 \in 1..i
      BY <1>1, <1>3, <1>5
    <3>2. ASSUME NEW k \in E PROVE base[k] = v
      <4> DEFINE l == a + k - 1
      <4>1. l \in 1..i /\ base[k] = 4 * s[l]
        BY <1>3, <3>1
      <4> HIDE DEF l
      <4>2. s[l] = x
        BY <1>1, <4>1
      <4> QED
        BY <4>1, <4>2
    <3> QED
      BY <3>1, <3>2
  <2>3. 2 * m > n - a
    BY <1>5
  <2> HIDE DEF m
  <2>4. IsFiniteSet(E) /\ Cardinality(E) = m
    BY <2>1, FirstPlaces
  <2>5. E \subseteq D /\ IsFiniteSet(D) /\ base \in [D -> Int] /\ v \in Int
    <3>1. E \subseteq D
      BY <2>2
    <3>2. v \in Int
      BY <1>1
    <3> QED
      BY <1>3, <3>1, <3>2
  <2>6. Cardinality(D) = n - a
    BY <1>3
  <2> HIDE DEF E, D, v
  <2>7. 2 * Cardinality(E) > Cardinality(D)
    BY <2>3, <2>4, <2>6
  <2> QED
    BY <2>2, <2>5, <2>7, PartIsMost
<1>7. v \in Int /\ v \in Nat
  BY <1>1
<1> DEFINE disp == Largest({0, RelativeDispersion * Abs(v), 4 * AbsoluteDispersion})
<1>8. Median(base) = v /\ Dispersion(base) = disp
  <2>1. IsFiniteSet(D) /\ base \in [D -> Int] /\ v \in Int
    BY <1>3, <1>7
  <2> HIDE DEF D, v
  <2> QED
    BY <1>6, <2>1, LevelDispersion
<1>9. Dispersion(<<v>>) = disp
  <2> DEFINE one == <<v>>
             N == 1..1
  <2>1. one \in [N -> Int] /\ \A k \in N : one[k] = v
    BY <1>7
  <2>2. IsFiniteSet(N) /\ Cardinality(N) = 1
    <3> DEFINE m == 1
    <3>1. m \in Nat /\ m >= 1
      OBVIOUS
    <3> HIDE DEF m
    <3>2. IsFiniteSet(1..m) /\ Cardinality(1..m) = m
      BY <3>1, FirstPlaces
    <3> QED
      BY <3>2 DEF m
  <2> HIDE DEF one, v
  <2>3. AtValue(one, v) = N
    BY <2>1 DEF AtValue
  <2> HIDE DEF N
  <2>4. 2 * Cardinality(AtValue(one, v)) > Cardinality(N)
    BY <2>2, <2>3
  <2>5. Dispersion(one) = Largest({0, RelativeDispersion * Abs(v), 4 * AbsoluteDispersion})
    BY <1>7, <2>1, <2>2, <2>4, LevelDispersion
  <2> QED
    BY <2>5 DEF one, v
<1> HIDE DEF disp
<1>10. /\ Dispersion(base) \in Nat
       /\ Drift(s).severity = Severity(Abs(Distance(s)), Dispersion(base))
       /\ Drift(s).direction = Sign(Distance(s))
  BY <1>1, DriftFacts DEF base
<1>11. Distance(s) = 4 * (y - x)
  <2>1. Distance(s) = 4 * s[n] - Median(base)
    BY DEF Distance, Center, base, n
  <2> QED
    BY <1>1, <1>8, <2>1
<1> DEFINE z == Abs(Distance(s))
<1>12. z \in Nat /\ z = 4 * Abs(y - x) /\ Sign(Distance(s)) = Sign(y - x)
  BY <1>1, <1>11 DEF Abs, Sign
<1>13. 6745 * z >= Thresholds[1] * Dispersion(base)
  <2>1. 6745 * 4 * Abs(y - x) >= Thresholds[1] * disp
    BY <1>9
  <2>2. Abs(y - x) \in Nat
    BY <1>1 DEF Abs
  <2>3. 6745 * z = 6745 * 4 * Abs(y - x)
    BY <1>12, <2>2
  <2> QED
    BY <1>8, <2>1, <2>3
<1> HIDE DEF z
<1>14. Severity(z, Dispersion(base)) > 0
  <2> DEFINE d == Dispersion(base)
  <2>1. z \in Nat /\ d \in Nat /\ 6745 * z >= Thresholds[1] * d
    BY <1>10, <1>12, <1>13
  <2> HIDE DEF d
  <2>2. Severity(z, d) > 0
    BY <2>1, SeverityFacts
  <2> QED
    BY <2>2 DEF d
<1> QED
  BY <1>10, <1>12, <1>14 DEF z

\* Two level segments are a shift.
LEMMA LevelSegments ==
  ASSUME NEW s \in Seq(Nat), NEW i \in 1..Len(s) - 1, s[1] # s[Len(s)],
         Constant(Older(s, i)), Constant(Newer(s, i))
  PROVE  IsShift(s, i, s[1], s[Len(s)])
<1> DEFINE n == Len(s)
           x == s[1]
           y == s[n]
<1>1. s \in Seq(Int) /\ n \in Nat /\ s \in [1..n -> Nat]
  BY Nat \subseteq Int, SeqMonotonic, LenProperties
<1>2. /\ Older(s, i) \in [1..i -> Int] /\ \A k \in 1..i : Older(s, i)[k] = s[k]
      /\ Newer(s, i) \in [1..n - i -> Int]
      /\ \A k \in 1..n - i : Newer(s, i)[k] = s[i + k]
  <2>1. s \in Seq(Int) /\ i \in 1..Len(s) - 1
    BY <1>1
  <2>2. Older(s, i) \in [1..i -> Int] /\ \A k \in 1..i : Older(s, i)[k] = s[k]
    BY <2>1, OlderFacts
  <2>3. /\ Newer(s, i) \in [1..Len(s) - i -> Int]
        /\ \A k \in 1..Len(s) - i : Newer(s, i)[k] = s[i + k]
    BY <2>1, NewerFacts
  <2> QED
    BY <2>2, <2>3
<1> HIDE DEF n
<1>3. /\ i \in 1..n - 1 /\ i \in 1..i /\ 1 \in 1..i /\ n - i \in 1..n - i /\ i + (n - i) = n
      /\ 1 \in 1..n /\ n \in 1..n
  BY <1>1 DEF n
<1>4. \A k \in 1..i : s[k] = x
  BY <1>2, <1>3, ZenonT(30) DEF Constant
<1>5. \A k \in i + 1..n : s[k] = y
  <2>1. ASSUME NEW k \in i + 1..n PROVE s[k] = y
    <3> DEFINE j == k - i
    <3>1. j \in 1..n - i /\ i + j = k
      BY <1>1, <1>3
    <3> HIDE DEF j
    <3>2. Newer(s, i)[j] = Newer(s, i)[n - i]
      BY <1>2, <1>3, <3>1, ZenonT(30) DEF Constant
    <3>3. Newer(s, i)[j] = s[k] /\ Newer(s, i)[n - i] = s[n]
      BY <1>2, <1>3, <3>1
    <3> QED
      BY <3>2, <3>3
  <2> QED
    BY <2>1
<1>6. x \in Nat /\ y \in Nat
  BY <1>1, <1>3
<1> QED
  BY <1>1, <1>3, <1>4, <1>5, <1>6 DEF IsShift, n

\* A level shift is reported at every moment, for every policy.
THEOREM LevelShiftsAreReported == SeriesSpec => []LevelShiftReported
<1>1. ASSUME SeriesIInv PROVE LevelShiftReported
  <2> SUFFICES ASSUME Analyzed, ChangeThreshold <= 50, NEW i \in 1..Len(series) - 1,
                      Constant(Older(series, i)), Constant(Newer(series, i)),
                      Last(series) - series[1] # 0
               PROVE  LET before == series[1]
                          after == Last(series)
                          shift == after - before
                      IN  /\ i \in Splits(series) => changePoint.direction = Sign(shift)
                          /\ (/\ i >= SegmentSize
                              /\ Len(series) >= MinimumHistory
                              /\ BaselineWindow = NoWindow \/ BaselineWindow > 2 * (SegmentSize - 2)
                              /\ 6745 * 4 * Abs(shift) >= Thresholds[1] * Dispersion(<<4 * before>>))
                             => \/ driftResult.severity > 0 /\ driftResult.direction = Sign(shift)
                                \/ changePoint.direction = Sign(shift)
    BY DEF LevelShiftReported
  <2> DEFINE n == Len(series)
             x == series[1]
             y == series[n]
  <2>1. /\ series \in Seq(Nat) /\ driftResult = Drift(series) /\ changePoint = ChangePoint(series)
    BY <1>1, AnalyzedFacts
  <2>2. Last(series) = y
    BY DEF Last
  <2>3. x # y
    <3>1. \A m \in Nat : m - m = 0
      OBVIOUS
    <3>2. 1 \in 1..Len(series) /\ series[1] \in Nat
      <4>1. Len(series) \in Nat
        BY <2>1, LenProperties
      <4>2. 1 \in 1..Len(series)
        BY <4>1
      <4> QED
        BY <2>1, <4>2, ElementOfSeq
    <3> QED
      BY <2>2, <3>1, <3>2
  <2>9. IsShift(series, i, x, y)
    BY <2>1, <2>3, LevelSegments
  <2> HIDE DEF x, y
  <2>10. i \in Splits(series) => changePoint.direction = Sign(y - x)
    BY <2>1, <2>9, ShiftIsChange
  <2>11. ASSUME i >= SegmentSize, Len(series) >= MinimumHistory,
                BaselineWindow = NoWindow \/ BaselineWindow > 2 * (SegmentSize - 2),
                6745 * 4 * Abs(y - x) >= Thresholds[1] * Dispersion(<<4 * x>>)
         PROVE  \/ driftResult.severity > 0 /\ driftResult.direction = Sign(y - x)
                \/ changePoint.direction = Sign(y - x)
    BY <2>1, <2>9, <2>10, <2>11, ShiftIsDrift
  <2>12. series[1] = x /\ Last(series) = y
    BY <2>2 DEF x, y
  <2> QED
    BY <2>10, <2>11, <2>12
<1> QED
  BY <1>1, SeriesAlways, PTL

-------------------------------------------------------------------------------
(* Read backwards.                                                         *)

\* The places of a series, the last one first.
LEMMA BackwardsPlaces ==
  ASSUME NEW n \in Nat
  PROVE  [k \in 1..n |-> n + 1 - k] \in Bijection(1..n, 1..n)
<1> DEFINE h == [k \in 1..n |-> n + 1 - k]
<1>1. h \in [1..n -> 1..n]
  OBVIOUS
<1>2. \A k, l \in 1..n : h[k] = h[l] => k = l
  OBVIOUS
<1>3. \A k \in 1..n : \E l \in 1..n : h[l] = k
  <2>1. \A k \in 1..n : n + 1 - k \in 1..n /\ h[n + 1 - k] = k
    OBVIOUS
  <2> QED
    BY <2>1
<1> HIDE DEF h
<1>4. h \in Bijection(1..n, 1..n)
  BY <1>1, <1>2, <1>3 DEF Bijection, Injection, Surjection, IsInjective
<1> QED
  BY <1>4 DEF h

\* Backwards, the values of g are those of f moved by c.
IsMirrored(n, f, g, c) == \A k, l \in 1..n : k + l = n + 1 => g[k] = f[l] + c

\* Backwards and moved, values have their median moved.
LEMMA Mirrored ==
  ASSUME NEW n \in Nat, n >= 1, NEW f \in [1..n -> Int], NEW g \in [1..n -> Int], NEW c \in Int,
         IsMirrored(n, f, g, c)
  PROVE  Median(g) = Median(f) + c
<1> DEFINE D == 1..n
           h == [k \in 1..n |-> n + 1 - k]
<1>1. h \in Bijection(D, D)
  BY BackwardsPlaces
<1>2. Moved(D, f, g, h, c)
  <2>1. \A k \in 1..n : h[k] \in 1..n /\ h[k] + k = n + 1
    OBVIOUS
  <2> HIDE DEF h
  <2>2. \A k \in 1..n : g[h[k]] = f[k] + c
    BY <2>1 DEF IsMirrored
  <2> QED
    BY <2>2 DEF Moved
<1>3. IsFiniteSet(D) /\ D # {} /\ f \in [D -> Int] /\ g \in [D -> Int]
  BY FirstPlaces
<1> HIDE DEF D, h
<1> QED
  BY <1>1, <1>2, <1>3, MedianMoved, SMTT(30)

\* Backwards, values have the same median.
LEMMA Backwards ==
  ASSUME NEW n \in Nat, n >= 1, NEW f \in [1..n -> Int], NEW g \in [1..n -> Int],
         IsMirrored(n, f, g, 0)
  PROVE  Median(g) = Median(f)
<1> DEFINE c == 0
<1>1. c \in Int /\ IsMirrored(n, f, g, c)
  OBVIOUS
<1>2. Median(f) \in Int
  <2> DEFINE D == 1..n
  <2>1. IsFiniteSet(D) /\ D # {} /\ f \in [D -> Int]
    BY FirstPlaces
  <2> HIDE DEF D
  <2> QED
    BY <2>1, MedianFacts
<1> HIDE DEF c
<1>3. Median(g) = Median(f) + c
  BY <1>1, Mirrored
<1> QED
  BY <1>2, <1>3 DEF c

\* A series read backwards.
LEMMA ReverseFacts ==
  ASSUME NEW s \in Seq(Nat)
  PROVE  LET n == Len(s)
             q == Quarters(s)
             r == Quarters(Reverse(s))
         IN  /\ n \in Nat /\ s \in [1..n -> Nat]
             /\ Reverse(s) \in Seq(Nat) /\ Len(Reverse(s)) = n
             /\ \A k, l \in 1..n : k + l = n + 1 => Reverse(s)[k] = s[l]
             /\ q \in Seq(Int) /\ Len(q) = n /\ q \in [1..n -> Int]
             /\ r \in Seq(Int) /\ Len(r) = n /\ r \in [1..n -> Int]
             /\ IsMirrored(n, q, r, 0)
<1> DEFINE n == Len(s)
           t == Reverse(s)
           q == Quarters(s)
           r == Quarters(t)
<1>1. n \in Nat /\ s \in [1..n -> Nat]
  BY LenProperties
<1>2. t = [k \in 1..n |-> s[(n - k) + 1]]
  BY DEF Reverse
<1> HIDE DEF n, t
<1>3. \A k \in 1..n : (n - k) + 1 \in 1..n /\ s[(n - k) + 1] \in Nat
  BY <1>1
<1>4. t \in [1..n -> Nat] /\ \A k, l \in 1..n : k + l = n + 1 => t[k] = s[l]
  <2>1. t \in [1..n -> Nat]
    BY <1>2, <1>3
  <2>2. \A k, l \in 1..n : k + l = n + 1 => (n - k) + 1 = l
    BY <1>1
  <2> QED
    BY <1>2, <2>1, <2>2
<1>5. t \in Seq(Nat) /\ Len(t) = n
  BY <1>1, <1>4
<1>6. q \in Seq(Int) /\ Len(q) = n /\ \A k \in 1..n : q[k] = 4 * s[k]
  BY QuartersFacts DEF n
<1>7. r \in Seq(Int) /\ Len(r) = n /\ \A k \in 1..n : r[k] = 4 * t[k]
  BY <1>5, QuartersFacts
<1> HIDE DEF q, r
<1>8. q \in [1..n -> Int] /\ r \in [1..n -> Int]
  BY <1>6, <1>7, LenProperties
<1>9. IsMirrored(n, q, r, 0)
  <2>1. ASSUME NEW k \in 1..n, NEW l \in 1..n, k + l = n + 1 PROVE r[k] = q[l] + 0
    <3>1. t[k] = s[l] /\ r[k] = 4 * t[k] /\ q[l] = 4 * s[l] /\ s[l] \in Nat
      BY <1>1, <1>4, <1>6, <1>7, <2>1
    <3> QED
      BY <3>1
  <2> QED
    BY <2>1 DEF IsMirrored
<1> QED
  BY <1>1, <1>4, <1>5, <1>6, <1>7, <1>8, <1>9 DEF n, t, q, r

\* A segment is one of the reversed series.
LEMMA MirroredSegments ==
  ASSUME NEW q \in Seq(Int), NEW r \in Seq(Int), NEW n \in Nat, Len(q) = n, Len(r) = n,
         NEW i \in 1..n - 1, NEW m \in 1..n - 1, i + m = n, IsMirrored(n, q, r, 0)
  PROVE  Median(Newer(r, m)) = Median(Older(q, i))
<1> DEFINE f == Older(q, i)
           g == Newer(r, m)
<1>1. f \in [1..i -> Int] /\ \A k \in 1..i : f[k] = q[k]
  <2>1. i \in 1..Len(q) - 1
    OBVIOUS
  <2> QED
    BY <2>1, OlderFacts
<1>2. g \in [1..i -> Int] /\ \A k \in 1..i : g[k] = r[m + k]
  <2>1. m \in 1..Len(r) - 1 /\ Len(r) - m = i
    OBVIOUS
  <2>2. /\ g \in [1..Len(r) - m -> Int]
        /\ \A k \in 1..Len(r) - m : g[k] = r[m + k]
    BY <2>1, NewerFacts
  <2> QED
    BY <2>1, <2>2
<1> HIDE DEF f, g
<1>3. IsMirrored(i, f, g, 0)
  <2>1. ASSUME NEW k \in 1..i, NEW l \in 1..i, k + l = i + 1 PROVE g[k] = f[l] + 0
    <3> DEFINE j == m + k
    <3>1. j \in 1..n /\ l \in 1..n /\ j + l = n + 1
      BY <2>1
    <3>2. g[k] = r[j]
      BY <1>2
    <3> HIDE DEF j
    <3>3. r[j] = q[l] + 0
      BY <3>1 DEF IsMirrored
    <3> QED
      BY <1>1, <3>2, <3>3
  <2> QED
    BY <2>1 DEF IsMirrored
<1>4. i \in Nat /\ i >= 1
  OBVIOUS
<1>5. Median(g) = Median(f)
  BY <1>1, <1>2, <1>3, <1>4, Backwards
<1> QED
  BY <1>5 DEF f, g

\* A split of the series is one of the reversed series, the opposite way.
LEMMA MirroredSplit ==
  ASSUME NEW q \in Seq(Int), NEW r \in Seq(Int), NEW n \in Nat, Len(q) = n, Len(r) = n,
         NEW i \in 1..n - 1, NEW m \in 1..n - 1, i + m = n, IsMirrored(n, q, r, 0)
  PROVE  /\ Difference(q, i) \in Int
         /\ Difference(r, m) = -Difference(q, i)
         /\ CandidateScore(r, m) = CandidateScore(q, i)
<1>1. Median(Newer(r, m)) = Median(Older(q, i))
  BY MirroredSegments
<1>2. Median(Newer(q, i)) = Median(Older(r, m))
  <2>1. IsMirrored(n, r, q, 0)
    <3>1. ASSUME NEW k \in 1..n, NEW l \in 1..n, k + l = n + 1 PROVE q[k] = r[l] + 0
      <4>1. l + k = n + 1
        BY <3>1
      <4>2. r[l] = q[k] + 0
        BY <4>1 DEF IsMirrored
      <4>3. q[k] \in Int
        BY ElementOfSeq
      <4> QED
        BY <4>2, <4>3
    <3> QED
      BY <3>1 DEF IsMirrored
  <2>2. m + i = n
    OBVIOUS
  <2> QED
    BY <2>1, <2>2, MirroredSegments
<1> DEFINE old == Median(Older(q, i))
           new == Median(Newer(q, i))
<1>3. old \in Int /\ new \in Int
  <2>1. i \in 1..Len(q) - 1
    OBVIOUS
  <2> QED
    BY <2>1, SegmentFacts
<1>4. Difference(q, i) = new - old /\ Difference(r, m) = old - new
  BY <1>1, <1>2 DEF Difference
<1>5. Noise(r, m) = Noise(q, i)
  <2> DEFINE f == [k \in 1..n |-> Abs(q[k] - IF k <= i THEN old ELSE new)]
             g == [k \in 1..n |-> Abs(r[k] - IF k <= m THEN new ELSE old)]
  <2>1. DOMAIN q = 1..n /\ DOMAIN r = 1..n /\ q \in [1..n -> Int] /\ r \in [1..n -> Int]
    BY LenProperties
  <2>2. Noise(q, i) = Median(f) /\ Noise(r, m) = Median(g)
    BY <1>1, <1>2, <2>1 DEF Noise
  <2> HIDE DEF old, new
  <2>3. f \in [1..n -> Int] /\ g \in [1..n -> Int]
    <3>1. ASSUME NEW k \in 1..n
          PROVE  /\ Abs(q[k] - IF k <= i THEN old ELSE new) \in Int
                 /\ Abs(r[k] - IF k <= m THEN new ELSE old) \in Int
      <4> DEFINE x == IF k <= i THEN old ELSE new
                 y == IF k <= m THEN new ELSE old
      <4>1. x \in Int /\ y \in Int
        BY <1>3
      <4> HIDE DEF x, y
      <4>2. q[k] \in Int /\ r[k] \in Int
        BY <2>1
      <4>3. q[k] - x \in Int /\ r[k] - y \in Int
        BY <4>1, <4>2
      <4>4. Abs(q[k] - x) \in Nat /\ Abs(r[k] - y) \in Nat
        BY <4>3, AbsFacts
      <4>5. Abs(q[k] - x) \in Int /\ Abs(r[k] - y) \in Int
        BY <4>4
      <4> QED
        BY <4>5 DEF x, y
    <3> QED
      BY <3>1
  <2>4. IsMirrored(n, f, g, 0)
    <3>1. ASSUME NEW k \in 1..n, NEW l \in 1..n, k + l = n + 1 PROVE g[k] = f[l] + 0
      <4>1. k <= m <=> ~(l <= i)
        BY <3>1
      <4>2. r[k] = q[l]
        <5>1. r[k] = q[l] + 0 /\ q[l] \in Int
          BY <2>1, <3>1 DEF IsMirrored
        <5> QED
          BY <5>1
      <4>3. (IF k <= m THEN new ELSE old) = IF l <= i THEN old ELSE new
        BY <4>1
      <4>4. /\ g[k] = Abs(r[k] - IF k <= m THEN new ELSE old)
            /\ f[l] = Abs(q[l] - IF l <= i THEN old ELSE new)
        OBVIOUS
      <4> HIDE DEF f, g
      <4>5. g[k] = f[l]
        BY <4>2, <4>3, <4>4, Zenon
      <4>6. f[l] \in Int
        BY <2>3
      <4> QED
        BY <4>5, <4>6
    <3> QED
      BY <3>1 DEF IsMirrored
  <2>5. n >= 1
    OBVIOUS
  <2> HIDE DEF f, g
  <2>6. Median(g) = Median(f)
    BY <2>3, <2>4, <2>5, Backwards
  <2> QED
    BY <2>2, <2>6
<1> HIDE DEF old, new
<1> DEFINE x == Difference(q, i)
           y == Difference(r, m)
<1>6. x \in Int /\ y = -x
  BY <1>3, <1>4
<1> HIDE DEF x, y
<1>7. Abs(y) = Abs(x) /\ (y = 0 <=> x = 0)
  BY <1>6 DEF Abs
<1>8. CandidateScore(r, m) = CandidateScore(q, i)
  BY <1>5, <1>7 DEF CandidateScore, x, y
<1> QED
  BY <1>6, <1>8 DEF x, y

\* What is at least a score that reaches the threshold reaches it.
LEMMA ReachesToo ==
  ASSUME NEW x \in Fractions, NEW y \in Fractions, NEW t \in Nat, AtLeast(x, y), Reaches(y, t)
  PROVE  Reaches(x, t)
<1> DEFINE f == [num |-> 200 * t, den |-> 1349]
<1>1. f \in Fractions
  BY DEF Fractions
<1>2. \A z \in Fractions : z.num \in Nat /\ z.den \in Nat
  BY DEF Fractions
<1>3. \A z \in Fractions : AtLeast(z, f) <=> Reaches(z, t)
  <2>1. ASSUME NEW z \in Fractions PROVE AtLeast(z, f) <=> Reaches(z, t)
    <3>1. z.num * 1349 = 1349 * z.num
      BY <1>2
    <3> QED
      BY <3>1 DEF AtLeast, Reaches
  <2> QED
    BY <2>1
<1> HIDE DEF f
<1>4. AtLeast(y, f)
  BY <1>3
<1>5. AtLeast(x, f)
  BY <1>1, <1>4, FractionsCompare
<1> QED
  BY <1>3, <1>5

\* The splits of the reversed series are those of the series from the other end.
LEMMA MirroredSplits ==
  ASSUME NEW s \in Seq(Nat)
  PROVE  LET n == Len(s)
             t == Reverse(s)
         IN  /\ t \in Seq(Nat) /\ Len(t) = n
             /\ Splits(t) = Splits(s)
             /\ \A i \in Splits(s) :
                  /\ n - i \in Splits(s)
                  /\ Difference(Quarters(s), i) \in Int
                  /\ CandidateScore(Quarters(s), i) \in Fractions
                  /\ Difference(Quarters(s), i) = 0 => CandidateScore(Quarters(s), i).num = 0
                  /\ Difference(Quarters(t), n - i) = -Difference(Quarters(s), i)
                  /\ CandidateScore(Quarters(t), n - i) = CandidateScore(Quarters(s), i)
<1> DEFINE n == Len(s)
           t == Reverse(s)
           q == Quarters(s)
           r == Quarters(t)
<1>1. /\ n \in Nat /\ t \in Seq(Nat) /\ Len(t) = n
      /\ q \in Seq(Int) /\ Len(q) = n /\ r \in Seq(Int) /\ Len(r) = n
      /\ IsMirrored(n, q, r, 0)
  BY ReverseFacts
<1>2. SegmentSize \in Nat /\ SegmentSize >= 2
  BY PolicyAssumption
<1>3. Splits(t) = Splits(s)
  BY <1>1 DEF Splits
<1>4. Splits(s) = SegmentSize..n - SegmentSize
  BY DEF Splits
<1> HIDE DEF n, t, q, r
<1>5. ASSUME NEW i \in Splits(s)
      PROVE  /\ n - i \in Splits(s)
             /\ Difference(q, i) \in Int
             /\ CandidateScore(q, i) \in Fractions
             /\ Difference(q, i) = 0 => CandidateScore(q, i).num = 0
             /\ Difference(r, n - i) = -Difference(q, i)
             /\ CandidateScore(r, n - i) = CandidateScore(q, i)
  <2> DEFINE m == n - i
             z == SegmentSize
  <2>0. i \in z..n - z /\ z \in Nat /\ z >= 2 /\ n \in Nat
    BY <1>1, <1>2, <1>4
  <2> HIDE DEF z
  <2>1. i \in 1..n - 1 /\ m \in 1..n - 1 /\ i + m = n /\ m \in z..n - z
    BY <2>0
  <2> HIDE DEF m
  <2>2. i \in 1..Len(q) - 1
    BY <1>1, <2>1
  <2>3. /\ CandidateScore(q, i) \in Fractions
        /\ Difference(q, i) = 0 => CandidateScore(q, i).num = 0
    BY <1>1, <2>2, SplitScoreFacts
  <2>4. /\ Difference(q, i) \in Int
        /\ Difference(r, m) = -Difference(q, i)
        /\ CandidateScore(r, m) = CandidateScore(q, i)
    BY <1>1, <2>1, MirroredSplit
  <2> QED
    BY <1>4, <2>1, <2>3, <2>4 DEF m, z
<1> QED
  BY <1>1, <1>3, <1>5 DEF n, t, q, r

\* Level is its own opposite.
LEMMA MinusZero ==
  0 = -0
<1>1. \A x \in Int : -x = 0 - x
  OBVIOUS
<1>2. -0 = 0 - 0
  BY <1>1, 0 \in Int, Zenon
<1> QED
  BY <1>2

\* Read backwards, a series has the opposite change.
LEMMA ReversedChange ==
  ASSUME NEW s \in Seq(Nat),
         \A i, j \in BestSplits(s) :
           ChangeDirection(Quarters(s), i) = ChangeDirection(Quarters(s), j)
  PROVE  ChangePoint(Reverse(s)).direction = -ChangePoint(s).direction
<1> DEFINE n == Len(s)
           t == Reverse(s)
           q == Quarters(s)
           r == Quarters(t)
           S == Splits(s)
           score(i) == CandidateScore(q, i)
           back(i) == CandidateScore(r, i)
<1>1. /\ t \in Seq(Nat) /\ Splits(t) = S
      /\ \A i \in S : /\ n - i \in S
                      /\ Difference(q, i) \in Int
                      /\ CandidateScore(q, i) \in Fractions
                      /\ Difference(q, i) = 0 => CandidateScore(q, i).num = 0
                      /\ Difference(r, n - i) = -Difference(q, i)
                      /\ CandidateScore(r, n - i) = CandidateScore(q, i)
  BY MirroredSplits
<1>0. NoChange.direction = -NoChange.direction
  <2>1. NoChange.direction = 0
    BY DEF NoChange
  <2> QED
    BY <2>1, MinusZero
<1>2. CASE S = {}
  <2>1. Splits(s) = {} /\ Splits(t) = {}
    BY <1>1, <1>2
  <2>2. ChangePoint(s) = NoChange
    BY <2>1 DEF ChangePoint
  <2>3. ChangePoint(t) = NoChange
    BY <2>1 DEF ChangePoint
  <2> QED
    BY <1>0, <2>2, <2>3
<1>3. CASE S # {}
  <2>1. PICK g \in BestSplits(s) :
          ChangePoint(s) = IF Reaches(score(g), ChangeThreshold)
                           THEN [index |-> g, direction |-> ChangeDirection(q, g)]
                           ELSE NoChange
    BY <1>3, ChangePointFacts
  <2>2. PICK e \in BestSplits(t) :
          ChangePoint(t) = IF Reaches(back(e), ChangeThreshold)
                           THEN [index |-> e, direction |-> ChangeDirection(r, e)]
                           ELSE NoChange
    BY <1>1, <1>3, ChangePointFacts
  <2>3. /\ \A i : i \in BestSplits(s) <=> i \in S /\ \A j \in S : AtLeast(score(i), score(j))
        /\ S \subseteq 1..n - 1
    BY <1>3, BestSplitsFacts
  <2>4. \A i : i \in BestSplits(t) <=> i \in S /\ \A j \in S : AtLeast(back(i), back(j))
    BY <1>1, <1>3, BestSplitsFacts
  <2> DEFINE f == n - e
  <2>5. e \in S /\ f \in S /\ n - f = e
    <3>1. e \in S /\ e \in 1..n - 1
      BY <2>2, <2>3, <2>4
    <3>2. n - e \in S
      BY <1>1, <3>1
    <3>3. n \in Nat
      BY LenProperties
    <3> HIDE DEF n
    <3>4. n - (n - e) = e
      BY <3>1, <3>3
    <3> QED
      BY <3>1, <3>2, <3>4
  <2>6. back(e) = score(f) /\ Difference(r, e) = -Difference(q, f)
    BY <1>1, <2>5
  <2> HIDE DEF f
  <2>7. \A j \in S : AtLeast(score(f), score(j))
    <3>1. ASSUME NEW j \in S PROVE AtLeast(score(f), score(j))
      <4>1. n - j \in S /\ back(n - j) = score(j)
        BY <1>1
      <4>2. AtLeast(back(e), back(n - j))
        BY <2>2, <2>4, <4>1
      <4> QED
        BY <2>6, <4>1, <4>2
    <3> QED
      BY <3>1
  <2>8. f \in BestSplits(s) /\ g \in S /\ AtLeast(score(f), score(g)) /\ AtLeast(score(g), score(f))
    BY <2>1, <2>3, <2>5, <2>7
  <2>9. /\ score(f) \in Fractions /\ score(g) \in Fractions
        /\ Difference(q, f) \in Int
        /\ Difference(q, f) = 0 => score(f).num = 0
    BY <1>1, <2>5, <2>8
  <2>10. ChangeThreshold \in Nat /\ ChangeThreshold > 0
    BY PolicyAssumption
  <2>11. Reaches(score(f), ChangeThreshold) <=> Reaches(score(g), ChangeThreshold)
    <3> DEFINE x == score(f)
               y == score(g)
               k == ChangeThreshold
    <3>1. x \in Fractions /\ y \in Fractions /\ AtLeast(x, y) /\ AtLeast(y, x) /\ k \in Nat
      BY <2>8, <2>9, <2>10
    <3> HIDE DEF x, y, k
    <3>2. Reaches(y, k) => Reaches(x, k)
      BY <3>1, ReachesToo
    <3>3. Reaches(x, k) => Reaches(y, k)
      BY <3>1, ReachesToo
    <3> QED
      BY <3>2, <3>3 DEF x, y, k
  <2>12. CASE ~Reaches(score(g), ChangeThreshold)
    <3>1. ChangePoint(s) = NoChange /\ ChangePoint(t) = NoChange
      BY <2>1, <2>2, <2>6, <2>11, <2>12
    <3> QED
      BY <1>0, <3>1
  <2>13. CASE Reaches(score(g), ChangeThreshold)
    <3>1. /\ ChangePoint(s).direction = ChangeDirection(q, g)
          /\ ChangePoint(t).direction = ChangeDirection(r, e)
      BY <2>1, <2>2, <2>6, <2>11, <2>13
    <3>2. ChangeDirection(q, g) = ChangeDirection(q, f)
      BY <2>1, <2>8
    <3>3. score(f).num # 0
      <4> DEFINE x == score(f)
                 k == ChangeThreshold
      <4>1. x.den \in Nat /\ x.den > 0 /\ 1349 * x.num >= 200 * k * x.den
        BY <2>9, <2>11, <2>13 DEF Reaches, Fractions
      <4> DEFINE d == x.den
                 u == x.num
      <4>2. d \in Nat /\ d > 0 /\ 1349 * u >= 200 * k * d /\ k \in Nat /\ k > 0
        BY <2>10, <4>1
      <4> HIDE DEF d, u, k, x
      <4>3. k * d > 0 /\ 200 * k * d = 200 * (k * d)
        BY <4>2
      <4>4. u # 0
        BY <4>2, <4>3
      <4> QED
        BY <4>4 DEF u, x
    <3>4. Difference(q, f) # 0
      BY <2>9, <3>3
    <3>5. ChangeDirection(r, e) = -ChangeDirection(q, f)
      <4> DEFINE x == Difference(q, f)
                 y == Difference(r, e)
      <4>1. x \in Int /\ x # 0 /\ y = -x
        BY <2>6, <2>9, <3>4
      <4> HIDE DEF x, y
      <4>2. (IF y > 0 THEN 1 ELSE -1) = -(IF x > 0 THEN 1 ELSE -1)
        BY <4>1
      <4> QED
        BY <4>2 DEF ChangeDirection, x, y
    <3> QED
      BY <3>1, <3>2, <3>5
  <2> QED
    BY <2>12, <2>13
<1> QED
  BY <1>2, <1>3

\* The pair of places that a pair is, backwards.
PairBack(n) == [p \in Pairs(n) |-> <<n + 1 - p[2], n + 1 - p[1]>>]

\* Backwards, the pairs are the pairs.
LEMMA PairBackFacts ==
  ASSUME NEW n \in Nat
  PROVE  PairBack(n) \in Bijection(Pairs(n), Pairs(n))
<1> DEFINE P == Pairs(n)
           h == PairBack(n)
<1>1. \A p \in P : /\ p[1] \in 1..n /\ p[2] \in 1..n /\ p[1] < p[2]
                   /\ p = <<p[1], p[2]>>
  BY PairsFacts
<1>2. \A i, j \in 1..n : i < j => <<i, j>> \in P
  BY PairsFacts
<1>3. DOMAIN h = P /\ \A p \in P : h[p] = <<n + 1 - p[2], n + 1 - p[1]>>
  BY DEF PairBack
<1>4. h = [p \in P |-> h[p]]
  BY DEF PairBack
<1> HIDE DEF P, h
<1>5. ASSUME NEW p \in P
      PROVE  h[p] \in P /\ h[h[p]] = p
  <2> DEFINE a == n + 1 - p[2]
             b == n + 1 - p[1]
  <2>1. a \in 1..n /\ b \in 1..n /\ a < b
    BY <1>1
  <2>2. n + 1 - b = p[1] /\ n + 1 - a = p[2]
    BY <1>1
  <2>3. h[p] = <<a, b>>
    BY <1>3
  <2> HIDE DEF a, b
  <2>4. <<a, b>> \in P
    BY <1>2, <2>1
  <2>5. h[<<a, b>>] = <<n + 1 - b, n + 1 - a>>
    BY <1>3, <2>4
  <2> QED
    BY <1>1, <2>2, <2>3, <2>4, <2>5
<1>6. h \in [P -> P]
  BY <1>4, <1>5
<1>7. \A p, e \in P : h[p] = h[e] => p = e
  BY <1>5
<1>8. \A p \in P : \E e \in P : h[e] = p
  BY <1>5
<1>9. h \in Bijection(P, P)
  BY <1>6, <1>7, <1>8 DEF Bijection, Injection, Surjection, IsInjective
<1> QED
  BY <1>9 DEF P, h

\* Between at most seven runs, 480 is divided without a rest, and the halves of
\* the slopes are integers.
LEMMA ExactSlopes ==
  ASSUME NEW x \in Int, NEW d \in 1..6
  PROVE  /\ (480 * x) \div d \in Int
         /\ ((480 * x) \div d) % 2 = 0
         /\ (480 * (-x)) \div d = -((480 * x) \div d)
<1>1. \A y \in Int : (2 * y) % 2 = 0
  OBVIOUS
<1>2. -x \in Int
  OBVIOUS
<1>3. CASE d = 1
  <2>1. \A y \in Int : (480 * y) \div 1 = 2 * (240 * y)
    OBVIOUS
  <2> QED
    BY <1>1, <1>2, <1>3, <2>1
<1>4. CASE d = 2
  <2>1. \A y \in Int : (480 * y) \div 2 = 2 * (120 * y)
    OBVIOUS
  <2> QED
    BY <1>1, <1>2, <1>4, <2>1
<1>5. CASE d = 3
  <2>1. \A y \in Int : (480 * y) \div 3 = 2 * (80 * y)
    OBVIOUS
  <2> QED
    BY <1>1, <1>2, <1>5, <2>1
<1>6. CASE d = 4
  <2>1. \A y \in Int : (480 * y) \div 4 = 2 * (60 * y)
    OBVIOUS
  <2> QED
    BY <1>1, <1>2, <1>6, <2>1
<1>7. CASE d = 5
  <2>1. \A y \in Int : (480 * y) \div 5 = 2 * (48 * y)
    OBVIOUS
  <2> QED
    BY <1>1, <1>2, <1>7, <2>1
<1>8. CASE d = 6
  <2>1. \A y \in Int : (480 * y) \div 6 = 2 * (40 * y)
    OBVIOUS
  <2> QED
    BY <1>1, <1>2, <1>8, <2>1
<1> QED
  BY <1>3, <1>4, <1>5, <1>6, <1>7, <1>8

\* Read backwards, a series has the opposite slope.
LEMMA ReversedSlope ==
  ASSUME NEW s \in Seq(Nat), Len(s) \in 2..7
  PROVE  Slope(Reverse(s)) = -Slope(s) /\ Slope(s) \in Int
<1> DEFINE n == Len(s)
           t == Reverse(s)
           P == Pairs(n)
           f == Slopes(s)
           g == Slopes(t)
           h == PairBack(n)
<1>1. /\ n \in Nat /\ s \in [1..n -> Nat] /\ t \in Seq(Nat) /\ Len(t) = n
      /\ \A k, l \in 1..n : k + l = n + 1 => t[k] = s[l]
  BY ReverseFacts
<1>2. /\ f \in [P -> Int] /\ Slope(s) = Median(f)
      /\ g \in [P -> Int] /\ Slope(t) = Median(g)
  BY <1>1, SlopesFacts
<1>3. IsFiniteSet(P) /\ h \in Bijection(P, P)
  BY <1>1, PairsFacts, PairBackFacts
<1>4. P # {}
  <2>1. <<1, 2>> \in P
    BY <1>1, 1 \in 1..n, 2 \in 1..n, 1 < 2, PairsFacts
  <2> QED
    BY <2>1
<1>5. ASSUME NEW p \in P
      PROVE  g[h[p]] = -f[p] /\ f[p] % 2 = 0
  <2>1. p[1] \in 1..n /\ p[2] \in 1..n /\ p[1] < p[2]
    BY <1>1, PairsFacts
  <2> DEFINE a == n + 1 - p[2]
             b == n + 1 - p[1]
             d == p[2] - p[1]
             x == s[p[2]] - s[p[1]]
  <2>2. /\ a \in 1..n /\ b \in 1..n /\ b + p[1] = n + 1 /\ a + p[2] = n + 1
        /\ d \in 1..6 /\ b - a = d
    <3> DEFINE i == p[1]
               j == p[2]
    <3>1. n \in 2..7 /\ i \in 1..n /\ j \in 1..n /\ i < j
      BY <2>1
    <3> HIDE DEF n, i, j
    <3>2. n + 1 - j \in 1..n /\ n + 1 - i \in 1..n
      BY <3>1
    <3>3. j - i \in 1..6
      BY <3>1
    <3>4. (n + 1 - i) + i = n + 1 /\ (n + 1 - j) + j = n + 1 /\ (n + 1 - i) - (n + 1 - j) = j - i
      BY <3>1
    <3> QED
      BY <3>2, <3>3, <3>4 DEF i, j
  <2>3. x \in Int /\ s[p[1]] - s[p[2]] = -x
    BY <1>1, <2>1, SMTT(30)
  <2>4. h[p] = <<a, b>> /\ h[p] \in P
    <3>1. h[p] = <<a, b>>
      BY DEF PairBack
    <3>2. h[p] \in P
      BY <1>3 DEF Bijection, Injection
    <3> QED
      BY <3>1, <3>2
  <2>5. t[b] = s[p[1]] /\ t[a] = s[p[2]]
    BY <1>1, <2>1, <2>2
  <2>6. f[p] = (480 * x) \div d
    BY DEF Slopes
  <2>7. g[<<a, b>>] = (480 * (t[b] - t[a])) \div (b - a)
    <3> HIDE DEF a, b
    <3> QED
      BY <1>1, <2>4 DEF Slopes
  <2>8. g[h[p]] = (480 * (-x)) \div d
    BY <2>2, <2>3, <2>4, <2>5, <2>7
  <2> HIDE DEF x, d, f, g, h
  <2>9. (480 * (-x)) \div d = -((480 * x) \div d) /\ ((480 * x) \div d) % 2 = 0
    <3>1. x \in Int /\ d \in 1..6
      BY <2>2, <2>3
    <3> HIDE DEF a, b, n, t, P
    <3> QED
      BY <3>1, ExactSlopes
  <2> QED
    BY <2>6, <2>8, <2>9
<1>6. Opposite(P, f, g, h)
  BY <1>5 DEF Opposite
<1> HIDE DEF P, f, g, h
<1>7. Median(g) = -Median(f) /\ Median(f) \in Int
  <2>1. Median(f) \in Int
    BY <1>2, <1>3, <1>4, MedianFacts
  <2>2. Median(g) = -Median(f)
    BY <1>2, <1>3, <1>4, <1>6, MedianNegated
  <2> QED
    BY <2>1, <2>2
<1> QED
  BY <1>2, <1>7

\* Backwards, as many steps go the way of the opposite slope.
LEMMA ReversedSteps ==
  ASSUME NEW s \in Seq(Nat), NEW slope \in Int
  PROVE  Cardinality(Aligned(Reverse(s), -slope)) = Cardinality(Aligned(s, slope))
<1> DEFINE n == Len(s)
           t == Reverse(s)
           A == Aligned(s, slope)
           B == Aligned(t, -slope)
           h == [i \in A |-> n - i]
<1>1. /\ n \in Nat /\ s \in [1..n -> Nat] /\ t \in Seq(Nat) /\ Len(t) = n
      /\ \A k, l \in 1..n : k + l = n + 1 => t[k] = s[l]
  BY ReverseFacts
<1>2. \A x \in Int : Sign(-x) = -Sign(x) /\ Sign(x) \in Int
  BY DEF Sign
<1>3. ASSUME NEW i \in 1..n - 1
      PROVE  n - i \in 1..n - 1 /\ (n - i \in B <=> i \in A)
  <2> DEFINE j == n - i
             x == s[i + 1] - s[i]
  <2>1. /\ j \in 1..n - 1 /\ j \in 1..n /\ j + 1 \in 1..n /\ i \in 1..n /\ i + 1 \in 1..n
        /\ j + (i + 1) = n + 1 /\ (j + 1) + i = n + 1
    BY <1>1
  <2> HIDE DEF j
  <2>2. t[j] = s[i + 1] /\ t[j + 1] = s[i]
    BY <1>1, <2>1
  <2>3. x \in Int /\ s[i] - s[i + 1] = -x
    BY <1>1, <2>1, SMTT(30)
  <2>4. i \in A <=> Sign(x) = Sign(slope)
    BY DEF Aligned
  <2>5. j \in B <=> Sign(t[j + 1] - t[j]) = Sign(-slope)
    BY <1>1, <2>1 DEF Aligned
  <2> HIDE DEF x, A, B
  <2>6. Sign(-x) = -Sign(x) /\ Sign(-slope) = -Sign(slope) /\ Sign(x) \in Int /\ Sign(slope) \in Int
    BY <1>2, <2>3
  <2>7. -Sign(x) = -Sign(slope) <=> Sign(x) = Sign(slope)
    BY <2>6
  <2> QED
    BY <2>1, <2>2, <2>3, <2>4, <2>5, <2>6, <2>7 DEF j
<1>4. A \subseteq 1..n - 1 /\ B \subseteq 1..n - 1
  BY <1>1 DEF Aligned
<1> HIDE DEF A, B, n, t
<1>5. h \in [A -> B]
  BY <1>3, <1>4
<1>6. \A i, j \in A : h[i] = h[j] => i = j
  BY <1>1, <1>4
<1>7. \A j \in B : \E i \in A : h[i] = j
  <2>1. ASSUME NEW j \in B PROVE n - j \in A /\ h[n - j] = j
    <3>1. j \in 1..n - 1 /\ n - j \in 1..n - 1 /\ n - (n - j) = j
      BY <1>1, <1>4
    <3>2. n - j \in A
      BY <1>3, <3>1
    <3> QED
      BY <3>1, <3>2
  <2> QED
    BY <2>1
<1> HIDE DEF h
<1>8. h \in Bijection(A, B)
  BY <1>5, <1>6, <1>7 DEF Bijection, Injection, Surjection, IsInjective
<1>9. IsFiniteSet(A) /\ IsFiniteSet(B)
  <2>1. IsFiniteSet(1..n - 1)
    BY <1>1, 1 \in Int, n - 1 \in Int, FS_Interval
  <2> QED
    BY <1>4, <2>1, FS_Subset
<1>10. Cardinality(A) = Cardinality(B)
  BY <1>8, <1>9, FS_Bijection DEF ExistsBijection
<1> QED
  BY <1>10 DEF A, B, t

\* Read backwards, a series is as far from its line.
LEMMA ReversedResidual ==
  ASSUME NEW s \in Seq(Nat), Len(s) >= 1, NEW slope \in Int
  PROVE  ResidualMad(Reverse(s), -slope) = ResidualMad(s, slope)
<1> DEFINE n == Len(s)
           t == Reverse(s)
           f == [i \in DOMAIN s |-> 480 * s[i] - slope * (i - 1)]
           g == [i \in DOMAIN t |-> 480 * t[i] - (-slope) * (i - 1)]
           c == slope * (n - 1)
<1>1. /\ n \in Nat /\ n >= 1 /\ s \in [1..n -> Nat] /\ t \in Seq(Nat) /\ Len(t) = n
      /\ \A k, l \in 1..n : k + l = n + 1 => t[k] = s[l]
  BY ReverseFacts
<1>2. t \in [1..n -> Nat] /\ DOMAIN s = 1..n /\ DOMAIN t = 1..n
  BY <1>1, LenProperties
<1>3. /\ ResidualMad(s, slope) = Median(Deviations(f, Median(f)))
      /\ ResidualMad(t, -slope) = Median(Deviations(g, Median(g)))
  BY DEF ResidualMad
<1>4. \A i \in 1..n : f[i] = 480 * s[i] - slope * (i - 1) /\ g[i] = 480 * t[i] - (-slope) * (i - 1)
  BY <1>2
<1>5. \A x \in Nat, i \in 1..n : 480 * x - slope * (i - 1) \in Int /\ 480 * x - (-slope) * (i - 1) \in Int
  OBVIOUS
<1>6. f \in [1..n -> Int] /\ g \in [1..n -> Int]
  <2>1. \A i \in 1..n : /\ 480 * s[i] - slope * (i - 1) \in Int
                       /\ 480 * t[i] - (-slope) * (i - 1) \in Int
    <3> HIDE DEF n, t
    <3>1. \A i \in 1..n : s[i] \in Nat /\ t[i] \in Nat
      BY <1>1, <1>2
    <3> QED
      BY <1>5, <3>1
  <2>2. f = [i \in 1..n |-> f[i]] /\ g = [i \in 1..n |-> g[i]]
    BY <1>2
  <2> HIDE DEF f, g, n, t
  <2>3. ASSUME NEW i \in 1..n PROVE f[i] \in Int /\ g[i] \in Int
    <3> DEFINE x == 480 * s[i] - slope * (i - 1)
               y == 480 * t[i] - (-slope) * (i - 1)
    <3>1. f[i] = x /\ g[i] = y
      BY <1>4
    <3>2. x \in Int /\ y \in Int
      BY <2>1
    <3> HIDE DEF x, y
    <3> QED
      BY <3>1, <3>2
  <2> QED
    BY <2>2, <2>3
<1>7. c \in Int
  BY <1>1
<1> HIDE DEF f, g
<1>8. IsMirrored(n, f, g, c)
  <2>1. ASSUME NEW k \in 1..n, NEW l \in 1..n, k + l = n + 1 PROVE g[k] = f[l] + c
    <3>1. t[k] = s[l] /\ s[l] \in Nat
      BY <1>1, <2>1
    <3> DEFINE x == s[l]
               u == l - 1
               v == k - 1
               w == n - 1
    <3>2. f[l] = 480 * x - slope * u /\ g[k] = 480 * x - (-slope) * v
      <4>1. f[l] = 480 * s[l] - slope * (l - 1) /\ g[k] = 480 * t[k] - (-slope) * (k - 1)
        BY <1>4
      <4> HIDE DEF n, t
      <4> QED
        BY <3>1, <4>1
    <3>3. x \in Int /\ u \in Int /\ v \in Int /\ w \in Int /\ u + v = w
      BY <1>1, <2>1, <3>1
    <3>4. c = slope * w
      OBVIOUS
    <3> HIDE DEF x, u, v, w, c, n, t
    <3>5. slope * u \in Int /\ slope * v \in Int /\ slope * w = slope * u + slope * v
      BY <3>3
    <3>6. (-slope) * v = -(slope * v)
      BY <3>3
    <3>7. 480 * x \in Int
      BY <3>3
    <3> QED
      BY <3>2, <3>4, <3>5, <3>6, <3>7
  <2> QED
    BY <2>1 DEF IsMirrored
<1> HIDE DEF c, n
<1>9. Median(g) = Median(f) + c
  BY <1>1, <1>6, <1>7, <1>8, Mirrored
<1>10. Median(f) \in Int
  <2>1. IsFiniteSet(1..n) /\ 1..n # {}
    BY <1>1, FirstPlaces
  <2> QED
    BY <1>6, <2>1, MedianFacts
<1> DEFINE x == Median(f)
           y == Median(g)
           a == Deviations(f, x)
           b == Deviations(g, y)
<1>11. x \in Int /\ y = x + c
  BY <1>9, <1>10
<1>12. DOMAIN f = 1..n /\ DOMAIN g = 1..n
  BY <1>6
<1> HIDE DEF x, y
<1>13. \A k \in 1..n : a[k] = Abs(f[k] - x) /\ b[k] = Abs(g[k] - y)
  BY <1>12 DEF Deviations
<1>14. a \in [1..n -> Int] /\ b \in [1..n -> Int]
  <2>1. \A k \in 1..n : f[k] - x \in Int /\ g[k] - y \in Int
    BY <1>6, <1>7, <1>11
  <2>2. \A k \in 1..n : Abs(f[k] - x) \in Int /\ Abs(g[k] - y) \in Int
    <3>1. \A z \in Int : Abs(z) \in Int
      BY AbsFacts
    <3> QED
      BY <2>1, <3>1
  <2> QED
    BY <1>12, <2>2 DEF Deviations
<1> HIDE DEF a, b
<1>15. IsMirrored(n, a, b, 0)
  <2>1. ASSUME NEW k \in 1..n, NEW l \in 1..n, k + l = n + 1 PROVE b[k] = a[l] + 0
    <3>1. g[k] = f[l] + c
      BY <1>8, <2>1 DEF IsMirrored
    <3>2. g[k] - y = f[l] - x
      <4>1. f[l] \in Int
        BY <1>6
      <4> QED
        BY <1>7, <1>11, <3>1, <4>1
    <3>3. b[k] = a[l] /\ a[l] \in Int
      BY <1>13, <1>14, <3>2
    <3> QED
      BY <3>3
  <2> QED
    BY <2>1 DEF IsMirrored
<1>16. Median(b) = Median(a)
  BY <1>1, <1>14, <1>15, Backwards
<1> QED
  BY <1>3, <1>16 DEF a, b, x, y, t

\* Read backwards, a series has the opposite trend.
LEMMA ReversedTrend ==
  ASSUME NEW s \in Seq(Nat), Len(s) \in 1..7
  PROVE  Trend(Reverse(s)) = -Trend(s)
<1> DEFINE n == Len(s)
           t == Reverse(s)
<1>1. n \in 1..7 /\ t \in Seq(Nat) /\ Len(t) = n
  BY ReverseFacts
<1>2. TrendObservations \in Nat /\ TrendObservations >= 3
  BY PolicyAssumption
<1>3. CASE ~(n >= TrendObservations)
  <2>1. Trend(s) = 0 /\ Trend(t) = 0
    BY <1>1, <1>3 DEF Trend
  <2> QED
    BY <2>1, MinusZero
<1>4. CASE n >= TrendObservations
  <2> DEFINE x == Slope(s)
             y == Slope(t)
             w == n - 1
  <2>1. n \in 2..7
    <3> HIDE DEF n
    <3> QED
      BY <1>1, <1>2, <1>4
  <2>2. x \in Int /\ y = -x
    BY <2>1, ReversedSlope
  <2>3. /\ Cardinality(Aligned(t, y)) = Cardinality(Aligned(s, x))
        /\ ResidualMad(t, y) = ResidualMad(s, x)
    <3>1. n >= 1
      BY <2>1, SMTT(30)
    <3> HIDE DEF x, y
    <3>2. Cardinality(Aligned(t, -x)) = Cardinality(Aligned(s, x))
      BY <2>2, ReversedSteps
    <3>3. ResidualMad(t, -x) = ResidualMad(s, x)
      BY <2>2, <3>1, ReversedResidual
    <3> QED
      BY <2>2, <3>2, <3>3
  <2>4. w \in Int
    BY <2>1
  <2>5. /\ TrendScore(s, x) = IF ResidualMad(s, x) = 0 THEN [num |-> 10000, den |-> 1349]
                              ELSE [num |-> Abs(x * w), den |-> ResidualMad(s, x)]
        /\ TrendScore(t, y) = IF ResidualMad(t, y) = 0 THEN [num |-> 10000, den |-> 1349]
                              ELSE [num |-> Abs(y * w), den |-> ResidualMad(t, y)]
    BY <1>1 DEF TrendScore
  <2>6. Trend(s) = IF /\ n >= TrendObservations
                      /\ x # 0
                      /\ 10 * Cardinality(Aligned(s, x)) >= Consistency * w
                      /\ Reaches(TrendScore(s, x), TrendThreshold)
                   THEN Sign(x) ELSE 0
    BY DEF Trend
  <2>7. Trend(t) = IF /\ n >= TrendObservations
                      /\ y # 0
                      /\ 10 * Cardinality(Aligned(t, y)) >= Consistency * w
                      /\ Reaches(TrendScore(t, y), TrendThreshold)
                   THEN Sign(y) ELSE 0
    BY <1>1 DEF Trend
  <2> HIDE DEF x, y, w
  <2>8. Abs(y * w) = Abs(x * w)
    <3>1. x * w \in Int /\ y * w = -(x * w)
      BY <2>2, <2>4
    <3>2. \A z \in Int : Abs(-z) = Abs(z)
      BY DEF Abs
    <3> QED
      BY <3>1, <3>2
  <2>9. TrendScore(t, y) = TrendScore(s, x)
    BY <2>3, <2>5, <2>8
  <2>10. (y # 0 <=> x # 0) /\ Sign(y) = -Sign(x)
    BY <2>2 DEF Sign
  <2>11. CASE Trend(s) = 0 /\ Trend(t) = 0
    BY <2>11, MinusZero
  <2>12. CASE Trend(s) = Sign(x) /\ Trend(t) = Sign(y)
    BY <2>10, <2>12
  <2> QED
    BY <2>3, <2>6, <2>7, <2>9, <2>10, <2>11, <2>12
<1> QED
  BY <1>3, <1>4

\* Read backwards, a series has the opposite change and the opposite trend.
THEOREM ReversalFlipsResults == SeriesSpec => []ReversalFlips
<1>1. SeriesIInv => ReversalFlips
  <2> SUFFICES ASSUME SeriesIInv, Analyzed PROVE ReversalFlips
    BY DEF ReversalFlips
  <2>1. /\ series \in Seq(Nat) /\ Len(series) \in 1..7
        /\ changePoint = ChangePoint(series) /\ trend = Trend(series)
    BY AnalyzedFacts
  <2>2. Trend(Reverse(series)) = -Trend(series)
    BY <2>1, ReversedTrend
  <2>3. (\A i, j \in BestSplits(series) :
           ChangeDirection(Quarters(series), i) = ChangeDirection(Quarters(series), j))
          => ChangePoint(Reverse(series)).direction = -ChangePoint(series).direction
    BY <2>1, ReversedChange
  <2> QED
    BY <2>1, <2>2, <2>3 DEF ReversalFlips
<1> QED
  BY <1>1, SeriesAlways, PTL

-------------------------------------------------------------------------------
(* A steady series.                                                       *)

\* Of a series that takes no step down, no earlier value is above a later one.
LEMMA StepsAddUp ==
  ASSUME NEW n \in 1..7, NEW f \in [1..n -> Int], \A i \in 1..n - 1 : f[i] <= f[i + 1]
  PROVE  \A i, j \in 1..n : i <= j => f[i] <= f[j]
<1> DEFINE Far(k) == \A i \in 1..n : i + k <= n => f[i] <= f[i + k]
<1>1. ASSUME NEW k \in Nat, Far(k)
      PROVE  Far(k + 1)
  <2> SUFFICES ASSUME NEW i \in 1..n, i + (k + 1) <= n
               PROVE  f[i] <= f[i + (k + 1)]
    OBVIOUS
  <2>1. i + k \in 1..n - 1 /\ i + (k + 1) = (i + k) + 1
    OBVIOUS
  <2>2. f[i] <= f[i + k] /\ f[i + k] <= f[(i + k) + 1]
    BY <1>1, <2>1
  <2>3. f[i] \in Int /\ f[i + k] \in Int /\ f[(i + k) + 1] \in Int
    BY <2>1
  <2> QED
    BY <2>1, <2>2, <2>3
<1>2. Far(0)
  OBVIOUS
<1> HIDE DEF Far
<1>3. Far(1) /\ Far(2) /\ Far(3)
  <2>1. Far(0 + 1)
    BY <1>1, <1>2
  <2>2. Far(1)
    BY <2>1
  <2>3. Far(1 + 1)
    BY <1>1, <2>2
  <2>4. Far(2)
    BY <2>3
  <2>5. Far(2 + 1)
    BY <1>1, <2>4
  <2> QED
    BY <2>2, <2>4, <2>5
<1>4. Far(4) /\ Far(5) /\ Far(6)
  <2>1. Far(3 + 1)
    BY <1>1, <1>3
  <2>2. Far(4)
    BY <2>1
  <2>3. Far(4 + 1)
    BY <1>1, <2>2
  <2>4. Far(5)
    BY <2>3
  <2>5. Far(5 + 1)
    BY <1>1, <2>4
  <2> QED
    BY <2>2, <2>4, <2>5
<1> SUFFICES ASSUME NEW i \in 1..n, NEW j \in 1..n, i <= j
             PROVE  f[i] <= f[j]
  OBVIOUS
<1>5. j - i \in 0..6 /\ i + (j - i) = j
  OBVIOUS
<1>6. Far(j - i)
  BY <1>2, <1>3, <1>4, <1>5
<1> QED
  BY <1>5, <1>6 DEF Far

\* Values that nowhere go down, or nowhere up.
Climbs(s) == \A i, j \in 1..Len(s) : i <= j => s[i] <= s[j]
Sinks(s) == \A i, j \in 1..Len(s) : i <= j => s[j] <= s[i]

\* No step down or no step up, all steps together.
LEMMA SteadyFacts ==
  ASSUME NEW s \in Seq(Nat), Len(s) \in 1..7
  PROVE  /\ (\A i \in 1..Len(s) - 1 : Sign(s[i + 1] - s[i]) # -1) => Climbs(s)
         /\ (\A i \in 1..Len(s) - 1 : Sign(s[i + 1] - s[i]) # 1) => Sinks(s)
<1> DEFINE n == Len(s)
           f == [i \in 1..n |-> s[i]]
           g == [i \in 1..n |-> -s[i]]
<1>1. s \in [1..n -> Nat] /\ n \in 1..7
  BY LenProperties
<1>2. \A i \in 1..n - 1 : /\ i \in 1..n /\ i + 1 \in 1..n /\ s[i] \in Nat /\ s[i + 1] \in Nat
                          /\ Sign(s[i + 1] - s[i]) # -1 => s[i] <= s[i + 1]
                          /\ Sign(s[i + 1] - s[i]) # 1 => s[i + 1] <= s[i]
  <2> SUFFICES ASSUME NEW i \in 1..n - 1
               PROVE  /\ i \in 1..n /\ i + 1 \in 1..n /\ s[i] \in Nat /\ s[i + 1] \in Nat
                      /\ Sign(s[i + 1] - s[i]) # -1 => s[i] <= s[i + 1]
                      /\ Sign(s[i + 1] - s[i]) # 1 => s[i + 1] <= s[i]
    OBVIOUS
  <2> DEFINE x == s[i]
             y == s[i + 1]
  <2>1. i \in 1..n /\ i + 1 \in 1..n
    BY <1>1
  <2>2. x \in Nat /\ y \in Nat
    BY <1>1, <2>1
  <2> HIDE DEF x, y
  <2>3. (Sign(y - x) # -1 => x <= y) /\ (Sign(y - x) # 1 => y <= x)
    BY <2>2 DEF Sign
  <2> QED
    BY <2>1, <2>2, <2>3 DEF x, y
<1>3. ASSUME \A i \in 1..n - 1 : Sign(s[i + 1] - s[i]) # -1
      PROVE  Climbs(s)
  <2>1. f \in [1..n -> Int] /\ \A i \in 1..n - 1 : f[i] <= f[i + 1]
    BY <1>1, <1>2, <1>3
  <2>2. \A i \in 1..n : f[i] = s[i]
    OBVIOUS
  <2> HIDE DEF f, n
  <2>3. \A i, j \in 1..n : i <= j => f[i] <= f[j]
    BY <1>1, <2>1, StepsAddUp
  <2>4. \A i, j \in 1..n : i <= j => s[i] <= s[j]
    BY <2>2, <2>3
  <2> QED
    BY <2>4 DEF Climbs, n
<1>4. ASSUME \A i \in 1..n - 1 : Sign(s[i + 1] - s[i]) # 1
      PROVE  Sinks(s)
  <2>1. g \in [1..n -> Int] /\ \A i \in 1..n - 1 : g[i] <= g[i + 1]
    BY <1>1, <1>2, <1>4
  <2>2. \A i \in 1..n : g[i] = -s[i] /\ s[i] \in Nat
    BY <1>1
  <2> HIDE DEF g, n
  <2>3. \A i, j \in 1..n : i <= j => g[i] <= g[j]
    BY <1>1, <2>1, StepsAddUp
  <2>4. \A i, j \in 1..n : i <= j => s[j] <= s[i]
    BY <2>2, <2>3
  <2> QED
    BY <2>4 DEF Sinks, n
<1> QED
  BY <1>3, <1>4

\* The drift of a steady series does not point back.
LEMMA SteadyDrift ==
  ASSUME NEW s \in Seq(Nat), Len(s) \in 1..7
  PROVE  /\ Climbs(s) => Drift(s).direction # -1
         /\ Sinks(s) => Drift(s).direction # 1
<1>1. CASE Len(s) < MinimumHistory
  BY <1>1, InsufficientFacts DEF Insufficient
<1>2. CASE ~(Len(s) < MinimumHistory)
  <2>1. Len(s) >= MinimumHistory
    BY <1>2, PolicyAssumption
  <2>2. Len(s) >= 2 /\ Center(s) \in Int /\ Drift(s).direction = Sign(Distance(s))
    BY <2>1, DriftFacts
  <2> DEFINE n == Len(s)
             D == 1..n - Start(n)
             base == Baseline(Quarters(s))
             last == 4 * s[n]
  <2>3. /\ n \in Nat /\ Start(n) \in 1..n - 1 /\ IsFiniteSet(D) /\ D # {} /\ base \in [D -> Int]
        /\ \A k \in D : /\ Start(n) + k - 1 \in 1..n - 1
                        /\ base[k] = 4 * s[Start(n) + k - 1]
                        /\ s[Start(n) + k - 1] \in Nat
    BY <2>2, QuartersBaseline
  <2>4. s[n] \in Nat /\ last \in Int /\ n \in 1..n
    <3>1. n \in 1..n
      BY <2>2, <2>3
    <3>2. s[n] \in Nat
      BY <3>1, QuartersFacts
    <3> QED
      BY <3>1, <3>2
  <2>5. ASSUME NEW k \in D
        PROVE  /\ Climbs(s) => base[k] <= last
               /\ Sinks(s) => base[k] >= last
    <3> DEFINE i == Start(n) + k - 1
    <3>1. i \in 1..n - 1 /\ base[k] = 4 * s[i] /\ s[i] \in Nat
      BY <2>3
    <3> HIDE DEF i, D, base
    <3>2. i \in 1..n /\ i <= n
      BY <2>3, <3>1
    <3>3. (Climbs(s) => s[i] <= s[n]) /\ (Sinks(s) => s[n] <= s[i])
      BY <2>4, <3>2 DEF Climbs, Sinks
    <3> QED
      BY <2>4, <3>1, <3>3
  <2>6. Center(s) = Median(base) /\ Distance(s) = last - Center(s)
    BY DEF Center, Distance
  <2> HIDE DEF D, base, last
  <2>7. (Climbs(s) => Median(base) <= last) /\ (Sinks(s) => Median(base) >= last)
    BY <2>3, <2>4, <2>5, MedianBounds
  <2>8. (Climbs(s) => Distance(s) >= 0) /\ (Sinks(s) => Distance(s) <= 0) /\ Distance(s) \in Int
    BY <2>2, <2>4, <2>6, <2>7
  <2> QED
    BY <2>2, <2>8 DEF Sign
<1> QED
  BY <1>1, <1>2

\* The medians of the two sides of a split are in the order of the series.
LEMMA SteadySplit ==
  ASSUME NEW s \in Seq(Nat), NEW i \in 1..Len(s) - 1
  PROVE  /\ Difference(Quarters(s), i) \in Int
         /\ Climbs(s) => Difference(Quarters(s), i) >= 0
         /\ Sinks(s) => Difference(Quarters(s), i) <= 0
<1> DEFINE q == Quarters(s)
           n == Len(s)
           D == 1..i
           E == 1..n - i
           older == Older(q, i)
           newer == Newer(q, i)
           v == 4 * s[i]
<1>1. n \in Nat /\ q \in Seq(Int) /\ Len(q) = n /\ \A k \in 1..n : q[k] = 4 * s[k] /\ s[k] \in Nat
  BY QuartersFacts, LenProperties
<1>2. /\ older \in [D -> Int]
      /\ \A k \in D : k \in 1..n /\ older[k] = q[k]
      /\ newer \in [E -> Int]
      /\ \A k \in E : i + k \in 1..n /\ newer[k] = q[i + k]
      /\ IsFiniteSet(D) /\ D # {} /\ IsFiniteSet(E) /\ E # {}
      /\ Median(older) \in Int /\ Median(newer) \in Int /\ Difference(q, i) \in Int
  <2> HIDE DEF q
  <2>1. q \in Seq(Int) /\ i \in 1..Len(q) - 1
    BY <1>1
  <2>2. LET m == Len(q)
        IN  /\ m \in Nat /\ q \in [1..m -> Int] /\ m - i \in Nat
            /\ Older(q, i) \in [1..i -> Int]
            /\ \A k \in 1..i : k \in 1..m /\ Older(q, i)[k] = q[k]
            /\ Newer(q, i) \in [1..m - i -> Int]
            /\ \A k \in 1..m - i : i + k \in 1..m /\ Newer(q, i)[k] = q[i + k]
            /\ IsFiniteSet(1..i) /\ Cardinality(1..i) = i /\ 1..i # {}
            /\ IsFiniteSet(1..m - i) /\ Cardinality(1..m - i) = m - i /\ 1..m - i # {}
            /\ Median(Older(q, i)) \in Int /\ Median(Newer(q, i)) \in Int
            /\ Difference(q, i) \in Int
    BY <2>1, SegmentFacts
  <2> QED
    BY <1>1, <2>2
<1>3. i \in 1..n /\ i \in Nat /\ v \in Int
  BY <1>1
<1>4. ASSUME NEW k \in D
      PROVE  (Climbs(s) => older[k] <= v) /\ (Sinks(s) => older[k] >= v)
  <2>1. k \in 1..n /\ older[k] = q[k]
    BY <1>2
  <2>2. k \in 1..i
    OBVIOUS
  <2> HIDE DEF older, q, n, D
  <2>3. k \in 1..n /\ k <= i /\ older[k] = 4 * s[k] /\ s[k] \in Nat /\ s[i] \in Nat
    <3>1. k <= i
      BY <1>3, <2>2
    <3>2. q[k] = 4 * s[k] /\ s[k] \in Nat /\ s[i] \in Nat
      BY <1>1, <1>3, <2>1
    <3> QED
      BY <2>1, <3>1, <3>2
  <2> USE DEF n
  <2>4. (Climbs(s) => s[k] <= s[i]) /\ (Sinks(s) => s[i] <= s[k])
    BY <1>3, <2>3 DEF Climbs, Sinks
  <2> DEFINE x == s[k]
             y == s[i]
  <2>5. x \in Nat /\ y \in Nat /\ older[k] = 4 * x /\ v = 4 * y
    BY <2>3
  <2> HIDE DEF x, y, v
  <2>6. (x <= y => older[k] <= v) /\ (y <= x => older[k] >= v)
    BY <2>5
  <2> QED
    BY <2>4, <2>6 DEF x, y
<1>5. ASSUME NEW k \in E
      PROVE  (Climbs(s) => newer[k] >= v) /\ (Sinks(s) => newer[k] <= v)
  <2> DEFINE m == i + k
  <2>1. m \in 1..n /\ newer[k] = q[m]
    BY <1>2
  <2>2. i <= m /\ m \in Nat
    BY <1>1, <1>3
  <2> HIDE DEF m, newer, q, n, E
  <2>3. m \in 1..n /\ i <= m /\ newer[k] = 4 * s[m] /\ s[m] \in Nat /\ s[i] \in Nat
    BY <1>1, <1>3, <2>1, <2>2
  <2> USE DEF n
  <2>4. (Climbs(s) => s[i] <= s[m]) /\ (Sinks(s) => s[m] <= s[i])
    BY <1>3, <2>3 DEF Climbs, Sinks
  <2> DEFINE x == s[i]
             y == s[m]
  <2>5. x \in Nat /\ y \in Nat /\ newer[k] = 4 * y /\ v = 4 * x
    BY <2>3
  <2> HIDE DEF x, y, v
  <2>6. (x <= y => newer[k] >= v) /\ (y <= x => newer[k] <= v)
    BY <2>5
  <2> QED
    BY <2>4, <2>6 DEF x, y
<1>6. Difference(q, i) = Median(newer) - Median(older)
  BY DEF Difference
<1> HIDE DEF D, E, older, newer, v
<1>7. /\ Climbs(s) => Median(older) <= v /\ Median(newer) >= v
      /\ Sinks(s) => Median(older) >= v /\ Median(newer) <= v
  BY <1>2, <1>3, <1>4, <1>5, MedianBounds
<1> HIDE DEF q
<1>8. /\ Climbs(s) => Difference(q, i) >= 0
      /\ Sinks(s) => Difference(q, i) <= 0
  BY <1>2, <1>3, <1>6, <1>7
<1> QED
  BY <1>2, <1>8 DEF q

\* The change point of a steady series does not point back.
LEMMA SteadyChange ==
  ASSUME NEW s \in Seq(Nat)
  PROVE  /\ Climbs(s) => ChangePoint(s).direction # -1
         /\ Sinks(s) => ChangePoint(s).direction # 1
<1>1. CASE ChangePoint(s) = NoChange
  BY <1>1 DEF NoChange
<1>2. CASE ChangePoint(s) # NoChange
  <2>1. Splits(s) # {}
    BY <1>2, ChangePointFacts DEF ChangePoint
  <2>2. PICK i \in BestSplits(s) :
          ChangePoint(s) = IF Reaches(CandidateScore(Quarters(s), i), ChangeThreshold)
                           THEN [index |-> i, direction |-> ChangeDirection(Quarters(s), i)]
                           ELSE NoChange
    BY <2>1, ChangePointFacts
  <2>3. i \in 1..Len(s) - 1
    BY <2>1, BestSplitsFacts
  <2> DEFINE d == Difference(Quarters(s), i)
  <2>4. d # 0
    BY <1>2, <2>2, <2>3, LevelSplitIsLow
  <2>5. d \in Int /\ (Climbs(s) => d >= 0) /\ (Sinks(s) => d <= 0)
    BY <2>3, SteadySplit
  <2>6. ChangePoint(s).direction = IF d > 0 THEN 1 ELSE -1
    BY <1>2, <2>2 DEF ChangeDirection
  <2> HIDE DEF d
  <2> QED
    BY <2>4, <2>5, <2>6
<1> QED
  BY <1>1, <1>2

\* The trend of a steady series does not point back.
LEMMA SteadyTrend ==
  ASSUME NEW s \in Seq(Nat)
  PROVE  /\ Climbs(s) => Trend(s) # -1
         /\ Sinks(s) => Trend(s) # 1
<1>1. CASE ~(Len(s) >= TrendObservations)
  <2>1. Trend(s) = 0
    BY <1>1 DEF Trend
  <2> QED
    BY <2>1
<1>2. CASE Len(s) >= TrendObservations
  <2> DEFINE n == Len(s)
             P == Pairs(n)
             f == Slopes(s)
  <2>1. n \in Nat /\ n >= 2 /\ s \in [1..n -> Nat]
    BY <1>2, LenProperties, PolicyAssumption
  <2>2. /\ IsFiniteSet(P)
        /\ \A p \in P : p[1] \in 1..n /\ p[2] \in 1..n /\ p[1] < p[2]
        /\ <<1, 2>> \in P
    BY <2>1, PairsFacts
  <2>3. f \in [P -> Int] /\ Slope(s) = Median(f)
    BY SlopesFacts
  <2>4. ASSUME NEW p \in P
        PROVE  (Climbs(s) => f[p] >= 0) /\ (Sinks(s) => f[p] <= 0)
    <3> DEFINE i == p[1]
               j == p[2]
               x == s[j] - s[i]
               d == j - i
    <3>1. i \in 1..n /\ j \in 1..n /\ i < j
      BY <2>2
    <3>2. f[p] = (480 * x) \div d
      BY DEF Slopes
    <3> HIDE DEF i, j, f
    <3>3. s[i] \in Nat /\ s[j] \in Nat /\ d \in Nat /\ d > 0
      BY <2>1, <3>1
    <3>4. (Climbs(s) => s[i] <= s[j]) /\ (Sinks(s) => s[j] <= s[i])
      BY <3>1 DEF Climbs, Sinks
    <3>5. x \in Int /\ (Climbs(s) => x >= 0) /\ (Sinks(s) => x <= 0)
      BY <3>3, <3>4
    <3> HIDE DEF x, d
    <3>6. (x >= 0 => (480 * x) \div d >= 0) /\ (x <= 0 => (480 * x) \div d <= 0)
      BY <3>3, <3>5
    <3> QED
      BY <3>2, <3>5, <3>6
  <2> HIDE DEF P, f
  <2>5. (Climbs(s) => Slope(s) >= 0) /\ (Sinks(s) => Slope(s) <= 0)
    BY <2>2, <2>3, <2>4, 0 \in Int, MedianBounds
  <2>6. Trend(s) = 0 \/ Trend(s) = Sign(Slope(s))
    BY DEF Trend
  <2>7. Slope(s) \in Int
    BY <2>2, <2>3, MedianFacts
  <2> QED
    BY <2>5, <2>6, <2>7 DEF Sign
<1> QED
  BY <1>1, <1>2

\* Of a series that never steps back no signal points back.
THEOREM SteadySeriesDoAgree == SeriesSpec => []SteadySeriesAgrees
<1>1. SeriesIInv => SteadySeriesAgrees
  <2> SUFFICES ASSUME SeriesIInv, Analyzed, NEW way \in {-1, 1},
                      \A i \in 1..Len(series) - 1 : Sign(series[i + 1] - series[i]) # -way
               PROVE  driftResult.direction # -way /\ changePoint.direction # -way /\ trend # -way
    BY DEF SteadySeriesAgrees
  <2>1. /\ series \in Seq(Nat) /\ Len(series) \in 1..7
        /\ driftResult = Drift(series)
        /\ changePoint = ChangePoint(series)
        /\ trend = Trend(series)
    BY AnalyzedFacts
  <2>2. CASE way = 1
    <3>1. Climbs(series)
      BY <2>1, <2>2, SteadyFacts
    <3> QED
      BY <2>1, <2>2, <3>1, SteadyDrift, SteadyChange, SteadyTrend
  <2>3. CASE way = -1
    <3>1. -way = 1
      <4>1. \A x \in Int : x + 1 = 0 => -x = 1
        OBVIOUS
      <4>2. way \in Int /\ way + 1 = 0
        BY <2>3
      <4> QED
        BY <4>1, <4>2
    <3>2. Sinks(series)
      BY <2>1, <3>1, SteadyFacts
    <3> QED
      BY <2>1, <3>1, <3>2, SteadyDrift, SteadyChange, SteadyTrend
  <2> QED
    BY <2>2, <2>3
<1> QED
  BY <1>1, SeriesAlways, PTL
===============================================================================
