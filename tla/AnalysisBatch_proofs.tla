------------------------- MODULE AnalysisBatch_proofs -------------------------
(***************************************************************************)
(* Proofs about AnalysisBatch, for any set of DAGs, any batch size and any *)
(* number of threads: types, the bound on threads, analyses and open       *)
(* sources, the end of all work after a defect, and that every step of the *)
(* threads is a step of BatchContract or leaves it alone.                  *)
(***************************************************************************)
EXTENDS AnalysisBatch, FiniteSetTheorems, SequenceTheorems, TLAPS

Decided == {"analysis", "failure", "defect"}

Busy(w) == job[w] # 0

\* The steps at which a worker has its source open.
Holding == {"collect", "depend", "analyze", "close"}

\* A step within an analysis: all but its start and its end.
Moves(w) == \/ Open(w) \/ Abandon(w) \/ Fetch(w) \/ Analyze(w) \/ Break(w) \/ Close(w)

\* Before a request is accepted, and if it never is, nothing has happened.
Untouched ==
  main \in {"validate", "rejected"} =>
    /\ cursor = 1
    /\ future = [i \in Positions |-> "none"]
    /\ \A w \in Workers : ~Busy(w)
    /\ source = [i \in Positions |-> "none"]
    /\ raisedAt = 0

\* What is analysed or answered was an acceptable request.
Admitted == main \notin {"validate", "rejected"} => Valid

\* The analyses that run and the busy workers correspond one to one.
Staffed ==
  /\ \A w \in Workers : Busy(w) => /\ w <= PoolSize
                                   /\ job[w] <= Size
                                   /\ future[job[w]] = "running"
  /\ \A v, w \in Workers : Busy(v) /\ job[v] = job[w] => v = w
  /\ \A i \in Positions : future[i] = "running" => \E w \in Workers : job[w] = i
  /\ \A i \in Positions : future[i] # "none" => i <= Size

\* Every open source is in the hands of a worker that will close it, and a worker
\* that closes or finishes knows how its analysis ended.
Attended ==
  /\ \A i \in Positions :
       source[i] = "open" => \E w \in Workers : job[w] = i /\ stage[w] \in Holding
  /\ \A w \in Workers : stage[w] \in {"close", "finish"} => ending[w] \in Decided

\* What has been gathered is decided, and the result lists it.
Gathered ==
  /\ cursor <= Size + 1
  /\ \A i \in 1..cursor - 1 : future[i] \in {"analysis", "failure"}
  /\ analyses = {<<dagIds[i], i>> : i \in {j \in 1..cursor - 1 : future[j] = "analysis"}}
  /\ failures = {<<dagIds[i], i>> : i \in {j \in 1..cursor - 1 : future[j] = "failure"}}

\* Gathering stops at a defect or at the end, and with it the queue; only the
\* serial map leaves analyses in it, which nobody asks for any more.
Stopped ==
  /\ main = "gather" => raisedAt = 0
  /\ main \in {"shutdown", "returned", "raised"} =>
       /\ \/ raisedAt = 0 /\ cursor = Size + 1
          \/ raisedAt = cursor /\ cursor <= Size /\ future[cursor] = "defect"
       /\ Serial \/ \A i \in Positions : future[i] # "queued"
  /\ main = "returned" => raisedAt = 0
  /\ main = "raised" => raisedAt # 0
  /\ Ended => \A w \in Workers : ~Busy(w)

IInv == /\ TypeOK /\ Untouched /\ Admitted /\ Staffed /\ Attended
        /\ Gathered /\ Stopped

-------------------------------------------------------------------------------
(* Lemmas.                                                                 *)

\* A request of the batch is a sequence of at most MaxSize DAG ids.
LEMMA SizeFacts ==
  ASSUME TypeOK
  PROVE  Size \in 0..MaxSize /\ dagIds \in [1..Size -> Dags]
  <1>1. PICK n \in 0..MaxSize : dagIds \in [1..n -> Dags]
    BY DEF TypeOK, Requests
  <1>2. n \in Nat
    BY <1>1, BoundsAssumption
  <1>3. Len(dagIds) = n
    BY <1>1, <1>2, LenProperties
  <1> QED
    BY <1>1, <1>3 DEF Size

\* A pool has at least one thread and no more than max_concurrency.
LEMMA PoolFacts ==
  ASSUME TypeOK, Valid
  PROVE  /\ PoolSize \in 1..width
         /\ Serial => PoolSize = 1
  <1>1. Size \in 0..MaxSize /\ width \in Nat /\ MaxSize \in Nat
    BY SizeFacts, BoundsAssumption DEF TypeOK
  <1> QED
    BY <1>1 DEF Valid, PoolSize, Smaller

\* What depends on the request alone does not change.
LEMMA RequestFacts ==
  ASSUME UNCHANGED request
  PROVE  /\ dagIds' = dagIds /\ limitOk' = limitOk /\ width' = width
         /\ Size' = Size
         /\ PoolSize' = PoolSize
         /\ Serial' <=> Serial
         /\ Valid' <=> Valid
  BY DEF request, Size, PoolSize, Serial, Valid

\* A worker that is busy analyses a position of an accepted request that runs.
LEMMA BusyFacts ==
  ASSUME IInv, NEW w \in Workers, Busy(w)
  PROVE  /\ main \in {"gather", "shutdown"}
         /\ Valid
         /\ job[w] \in 1..Size /\ job[w] \in Positions
         /\ future[job[w]] = "running"
  <1>1. main \in {"gather", "shutdown"}
    BY DEF IInv, TypeOK, Untouched, Stopped, Ended
  <1>2. Valid
    BY <1>1 DEF IInv, Admitted
  <1>3. job[w] \in 0..MaxSize /\ job[w] # 0 /\ job[w] <= Size /\ MaxSize \in Nat
    BY BoundsAssumption DEF IInv, TypeOK, Staffed, Busy
  <1>4. Size \in 0..MaxSize
    BY SizeFacts DEF IInv
  <1> QED
    BY <1>1, <1>2, <1>3, <1>4 DEF IInv, Staffed, Positions

\* What has been gathered stands at positions of the request.
LEMMA GatheredFacts ==
  ASSUME IInv
  PROVE  /\ cursor \in Nat /\ cursor >= 1 /\ cursor <= Size + 1
         /\ Size \in Nat /\ Size <= MaxSize
         /\ \A j \in 1..cursor - 1 : /\ j \in 1..Size /\ j \in Positions
                                     /\ future[j] \in {"analysis", "failure"}
  <1>1. Size \in 0..MaxSize /\ MaxSize \in Nat
    BY SizeFacts, BoundsAssumption DEF IInv
  <1>2. cursor \in 1..MaxSize + 1
    BY DEF IInv, TypeOK
  <1>3. cursor <= Size + 1 /\ \A j \in 1..cursor - 1 : future[j] \in {"analysis", "failure"}
    BY DEF IInv, Gathered
  <1> QED
    BY <1>1, <1>2, <1>3 DEF Positions

\* A step that gathers nothing may not touch what is gathered.
LEMMA GatheredKept ==
  ASSUME IInv, UNCHANGED <<request, cursor, analyses, failures>>,
         \A j \in 1..cursor - 1 : future'[j] = future[j]
  PROVE  Gathered'
  <1>1. dagIds' = dagIds /\ Size' = Size /\ cursor' = cursor
    BY RequestFacts
  <1>2. Gathered
    BY DEF IInv
  <1> QED
    BY <1>1, <1>2 DEF Gathered

-------------------------------------------------------------------------------
(* IInv holds initially and is preserved by every step of a thread.        *)

\* Before the batch begins, the invariant holds: no job, no thread, no client.
LEMMA InitIInv == Init => IInv
  <1> SUFFICES ASSUME Init PROVE IInv
    OBVIOUS
  <1>1. TypeOK
    BY BoundsAssumption DEF Init, TypeOK, Positions, Workers
  <1>2. Untouched /\ Admitted /\ Staffed /\ Attended /\ Stopped
    BY DEF Init, Untouched, Admitted, Staffed, Attended, Stopped, Busy, Ended
  <1>3. Gathered
    <2>1. Size \in Nat
      BY <1>1, SizeFacts, BoundsAssumption
    <2>2. cursor = 1 /\ analyses = {} /\ failures = {}
      BY DEF Init
    <2> QED
      BY <2>1, <2>2 DEF Gathered
  <1> QED
    BY <1>1, <1>2, <1>3 DEF IInv

\* The steps of the calling thread before anything runs.
LEMMA BeginStep ==
  ASSUME IInv, Reject \/ Begin
  PROVE  IInv'
  <1>1. /\ main = "validate" /\ cursor = 1 /\ raisedAt = 0
        /\ \A w \in Workers : ~Busy(w)
        /\ source = [i \in Positions |-> "none"]
        /\ future = [i \in Positions |-> "none"]
    BY DEF IInv, Untouched, Reject, Begin
  <1>2. /\ UNCHANGED <<request, cursor, threads, source, result, raisedAt>>
        /\ UNCHANGED <<cursor, job, stage, ending, source, analyses, failures, raisedAt>>
    BY DEF Reject, Begin, threads, result
  <1>3. Size \in 0..MaxSize /\ Size' = Size /\ (Valid' <=> Valid)
    BY <1>2, SizeFacts, RequestFacts DEF IInv
  <1>4. TypeOK'
    <2>1. /\ future' \in [Positions -> {"none", "queued"}]
          /\ main' \in {"rejected", "gather"}
      BY <1>1 DEF Reject, Begin
    <2> QED
      BY <1>2, <2>1, RequestFacts DEF IInv, TypeOK, Positions
  <1>5. Untouched' /\ Admitted' /\ Stopped'
    BY <1>1, <1>2, <1>3 DEF IInv, Reject, Begin, Untouched, Admitted, Stopped, Busy, Ended
  <1>6. Staffed'
    BY <1>1, <1>2, <1>3 DEF Reject, Begin, Staffed, Busy, Positions
  <1>7. Attended'
    BY <1>2 DEF IInv, Attended
  <1>8. Gathered'
    BY <1>1, <1>2, <1>3, RequestFacts DEF IInv, Gathered
  <1> QED
    BY <1>4, <1>5, <1>6, <1>7, <1>8 DEF IInv

\* A thread takes an analysis off the queue: only while outcomes are gathered.
LEMMA TakeStep ==
  ASSUME IInv, NEW w \in Workers, Take(w)
  PROVE  IInv' /\ main = "gather"
  <1>1. PICK i \in 1..Size : /\ Ready(i)
                             /\ job' = [job EXCEPT ![w] = i]
                             /\ future' = [future EXCEPT ![i] = "running"]
    BY DEF Take
  <1>2. /\ w <= PoolSize /\ ~Busy(w)
        /\ stage' = [stage EXCEPT ![w] = "open"]
        /\ UNCHANGED <<request, main, cursor, ending, source, analyses, failures,
                       raisedAt>>
    BY DEF Take, Busy, result
  <1>3. /\ Size \in 0..MaxSize /\ MaxSize \in Nat /\ Size' = Size
        /\ PoolSize' = PoolSize /\ (Serial' <=> Serial) /\ (Valid' <=> Valid)
        /\ dagIds' = dagIds
    BY <1>2, SizeFacts, RequestFacts, BoundsAssumption DEF IInv
  <1>4. /\ i \in Positions /\ future[i] = "queued"
        /\ Serial => main = "gather"
    BY <1>1, <1>3 DEF Ready, Positions
  <1>5. main \in {"gather", "shutdown"}
    BY <1>2, <1>4 DEF IInv, TypeOK, Untouched, Stopped
  <1>6. main = "gather"
    BY <1>4, <1>5 DEF IInv, Stopped
  <1>7. TypeOK'
    BY <1>1, <1>2, <1>3, <1>4, RequestFacts DEF IInv, TypeOK, Positions, Busy
  <1>8. Untouched' /\ Admitted' /\ Stopped'
    BY <1>2, <1>3, <1>6 DEF IInv, Untouched, Admitted, Stopped, Ended
  <1>9. Staffed'
    <2>1. /\ \A v \in Workers : v # w => job'[v] = job[v]
          /\ job'[w] = i
          /\ \A j \in Positions : j # i => future'[j] = future[j]
          /\ future'[i] = "running"
      BY <1>1, <1>4 DEF IInv, TypeOK
    <2>2. \A v \in Workers : Busy(v) => /\ job[v] \in Positions /\ job[v] # i
                                        /\ future[job[v]] = "running"
      BY <1>4, BusyFacts
    <2>3. i \in Nat /\ i # 0 /\ i <= Size
      BY <1>3
    <2>4. \A v \in Workers : Busy(v)' => /\ v <= PoolSize'
                                         /\ job'[v] <= Size'
                                         /\ future'[job'[v]] = "running"
      BY <1>2, <1>3, <2>1, <2>2, <2>3 DEF IInv, Staffed, Busy
    <2>5. \A u, v \in Workers : Busy(u)' /\ job'[v] = job'[u] => u = v
      BY <2>1, <2>2 DEF IInv, Staffed, Busy
    <2>6. \A j \in Positions : future'[j] = "running" => \E v \in Workers : job'[v] = j
      <3> SUFFICES ASSUME NEW j \in Positions, future'[j] = "running"
                   PROVE  \E v \in Workers : job'[v] = j
        OBVIOUS
      <3>1. CASE j = i
        BY <2>1, <3>1
      <3>2. CASE j # i
        <4>1. PICK v \in Workers : job[v] = j
          BY <2>1, <3>2 DEF IInv, Staffed
        <4>2. v # w
          BY <1>2, <4>1, BoundsAssumption DEF Busy, Positions
        <4> QED
          BY <2>1, <4>1, <4>2
      <3> QED
        BY <3>1, <3>2
    <2>7. \A j \in Positions : future'[j] # "none" => j <= Size'
      BY <1>3, <2>1, <2>3 DEF IInv, Staffed
    <2> QED
      BY <2>4, <2>5, <2>6, <2>7 DEF Staffed
  <1>10. Attended'
    <2>1. stage[w] = "idle"
      BY <1>2 DEF IInv, TypeOK, Busy
    <2>2. \A v \in Workers : v # w => job'[v] = job[v] /\ stage'[v] = stage[v]
      BY <1>1, <1>2 DEF IInv, TypeOK
    <2>3. stage'[w] = "open"
      BY <1>2 DEF IInv, TypeOK
    <2>4. source' = source /\ ending' = ending
      BY <1>2
    <2> QED
      BY <2>1, <2>2, <2>3, <2>4 DEF IInv, Attended, Holding
  <1>11. Gathered'
    <2>1. \A j \in 1..cursor - 1 : j # i /\ j \in Positions
      BY <1>4, GatheredFacts
    <2>2. \A j \in 1..cursor - 1 : future'[j] = future[j]
      BY <1>1, <2>1 DEF IInv, TypeOK
    <2> QED
      BY <1>2, <2>2, GatheredKept
  <1> QED
    BY <1>6, <1>7, <1>8, <1>9, <1>10, <1>11 DEF IInv

\* An analysis moves on within its thread: what it opens or closes, how it ends.
LEMMA StageStep ==
  ASSUME IInv, NEW w \in Workers, Moves(w)
  PROVE  IInv'
  <1>1. Busy(w)
    BY DEF IInv, TypeOK, Busy, Moves, Open, Abandon, Fetch, Following, Analyze, Break, Close
  <1>2. UNCHANGED <<request, main, cursor, future, job, analyses, failures, raisedAt>>
    BY DEF Moves, Open, Abandon, Fetch, Analyze, Break, Close, result
  <1>3. /\ Size' = Size /\ PoolSize' = PoolSize /\ (Serial' <=> Serial)
        /\ (Valid' <=> Valid) /\ dagIds' = dagIds /\ limitOk' = limitOk
        /\ width' = width
    BY <1>2, RequestFacts
  <1>4. /\ job[w] \in Positions /\ main \in {"gather", "shutdown"}
        /\ \A v \in Workers : job[v] = job[w] => v = w
    BY <1>1, BusyFacts DEF IInv, Staffed, Busy
  <1>5. /\ stage[w] # "idle" /\ stage'[w] # "idle"
        /\ stage' \in [Workers -> {"idle", "open", "collect", "depend", "analyze",
                                  "close", "finish"}]
        /\ \A v \in Workers : v # w => stage'[v] = stage[v]
    BY DEF IInv, TypeOK, Moves, Open, Abandon, Fetch, Following, Analyze, Break, AfterError,
           Close
  <1>6. /\ ending' \in [Workers -> {"none"} \cup Decided]
        /\ \A v \in Workers : v # w => ending'[v] = ending[v]
        /\ stage'[w] \in {"close", "finish"} => ending'[w] \in Decided
    BY DEF IInv, TypeOK, Attended, Decided, Moves, Open, Abandon, Fetch, Following, Analyze,
           Break, AfterError, Close
  <1>7. /\ source' \in [Positions -> {"none", "open", "closed", "abandoned"}]
        /\ \A i \in Positions : i # job[w] => source'[i] = source[i]
    BY <1>4 DEF IInv, TypeOK, Moves, Open, Abandon, Fetch, Analyze, Break, Close
  <1>8. source'[job[w]] = "open" => stage'[w] \in Holding
    <2>1. CASE Open(w)
      BY <2>1 DEF Open, IInv, TypeOK, Holding
    <2>2. CASE Close(w) \/ Abandon(w)
      BY <2>2, <1>4 DEF Close, Abandon, IInv, TypeOK
    <2>3. CASE Fetch(w) \/ Analyze(w) \/ Break(w)
      <3>1. source' = source
        BY <2>3 DEF Fetch, Analyze, Break
      <3>2. source[job[w]] = "open" => stage[w] \in Holding
        BY <1>4 DEF IInv, Attended
      <3>3. stage[w] \in Holding => stage'[w] \in Holding
        BY <2>3 DEF Fetch, Following, Analyze, Break, AfterError, Holding, IInv, TypeOK
      <3> QED
        BY <3>1, <3>2, <3>3
    <2> QED
      BY <2>1, <2>2, <2>3 DEF Moves
  <1>9. TypeOK'
    BY <1>2, <1>3, <1>5, <1>6, <1>7 DEF IInv, TypeOK, Decided, Requests
  <1>10. Untouched' /\ Admitted' /\ Staffed' /\ Stopped'
    BY <1>2, <1>3, <1>4 DEF IInv, Untouched, Admitted, Staffed, Stopped, Busy, Ended
  <1>11. Attended'
    BY <1>2, <1>4, <1>5, <1>6, <1>7, <1>8 DEF IInv, Attended
  <1>12. Gathered'
    BY <1>2, GatheredKept
  <1> QED
    BY <1>9, <1>10, <1>11, <1>12 DEF IInv

\* An analysis ends and leaves its thread free.
LEMMA FinishStep ==
  ASSUME IInv, NEW w \in Workers, Finish(w)
  PROVE  IInv' /\ future' = [future EXCEPT ![job[w]] = ending[w]] /\ ending[w] \in Decided
  <1>1. Busy(w)
    BY DEF IInv, TypeOK, Busy, Finish
  <1>2. /\ UNCHANGED <<request, main, cursor, source, analyses, failures, raisedAt>>
        /\ future' = [future EXCEPT ![job[w]] = ending[w]]
        /\ job' = [job EXCEPT ![w] = 0]
        /\ stage[w] = "finish"
        /\ stage' = [stage EXCEPT ![w] = "idle"]
        /\ ending' = [ending EXCEPT ![w] = "none"]
    BY DEF Finish, result
  <1>3. /\ Size' = Size /\ PoolSize' = PoolSize /\ (Serial' <=> Serial)
        /\ (Valid' <=> Valid) /\ dagIds' = dagIds /\ limitOk' = limitOk
        /\ width' = width
    BY <1>2, RequestFacts
  <1>4. /\ job[w] \in Positions /\ main \in {"gather", "shutdown"}
        /\ job[w] \in 1..Size /\ future[job[w]] = "running"
        /\ \A v \in Workers : job[v] = job[w] => v = w
    BY <1>1, BusyFacts DEF IInv, Staffed, Busy
  <1>5. ending[w] \in Decided
    BY <1>2 DEF IInv, Attended
  <1>6. TypeOK'
    BY <1>2, <1>3, <1>4, <1>5, BoundsAssumption DEF IInv, TypeOK, Decided, Requests
  <1>7. Untouched' /\ Admitted'
    BY <1>2, <1>3, <1>4 DEF IInv, Untouched, Admitted
  <1>8. Staffed'
    BY <1>2, <1>3, <1>4, <1>5, SizeFacts DEF IInv, TypeOK, Staffed, Busy, Decided
  <1>9. Attended'
    BY <1>2, <1>4 DEF IInv, TypeOK, Attended, Holding
  <1>10. Gathered'
    <2>1. \A j \in 1..cursor - 1 : j # job[w] /\ j \in Positions
      BY <1>4, GatheredFacts
    <2>2. \A j \in 1..cursor - 1 : future'[j] = future[j]
      BY <1>2, <2>1 DEF IInv, TypeOK
    <2> QED
      BY <1>2, <2>2, GatheredKept
  <1>11. Stopped'
    BY <1>2, <1>3, <1>4, <1>5 DEF IInv, TypeOK, Stopped, Busy, Ended, Decided
  <1> QED
    BY <1>2, <1>5, <1>6, <1>7, <1>8, <1>9, <1>10, <1>11 DEF IInv

\* The calling thread takes the outcome zip() waits for.
LEMMA GatherStep ==
  ASSUME IInv, Gather
  PROVE  IInv'
  <1>1. /\ main = "gather" /\ main' = "gather" /\ cursor <= Size /\ cursor' = cursor + 1
        /\ future[cursor] \in {"analysis", "failure"}
        /\ UNCHANGED <<request, future, job, stage, ending, source, raisedAt>>
    BY DEF Gather, Outcome, threads
  <1>2. /\ future[cursor] = "failure" => /\ failures' = failures \cup {<<dagIds[cursor], cursor>>}
                                         /\ analyses' = analyses
        /\ future[cursor] # "failure" => /\ analyses' = analyses \cup {<<dagIds[cursor], cursor>>}
                                         /\ failures' = failures
    BY DEF Gather, Outcome
  <1>3. /\ Size' = Size /\ PoolSize' = PoolSize /\ (Serial' <=> Serial)
        /\ (Valid' <=> Valid) /\ dagIds' = dagIds /\ limitOk' = limitOk
        /\ width' = width
    BY <1>1, RequestFacts
  <1>4. /\ cursor \in Nat /\ cursor >= 1 /\ Size \in Nat /\ Size <= MaxSize
        /\ cursor \in Positions /\ MaxSize \in Nat
        /\ dagIds[cursor] \in Dags
    BY <1>1, GatheredFacts, SizeFacts, BoundsAssumption DEF IInv, Positions
  <1>5. TypeOK'
    <2>1. cursor' \in 1..MaxSize + 1
      BY <1>1, <1>4
    <2>2. <<dagIds[cursor], cursor>> \in Dags \X Positions
      BY <1>4
    <2>3. analyses' \subseteq Dags \X Positions /\ failures' \subseteq Dags \X Positions
      BY <1>2, <2>2 DEF IInv, TypeOK
    <2> QED
      BY <1>1, <1>3, <2>1, <2>3 DEF IInv, TypeOK
  <1>6. Untouched' /\ Admitted' /\ Staffed' /\ Attended' /\ Stopped'
    BY <1>1, <1>3 DEF IInv, Untouched, Admitted, Staffed, Attended, Stopped, Busy, Ended
  <1>7. Gathered'
    <2>1. 1..cursor' - 1 = (1..cursor - 1) \cup {cursor} /\ cursor' <= Size + 1
      BY <1>1, <1>4
    <2>2. \A j \in 1..cursor' - 1 : future'[j] \in {"analysis", "failure"}
      BY <1>1, <2>1, GatheredFacts
    <2>3. analyses' = {<<dagIds[i], i>> : i \in {j \in 1..cursor' - 1 : future'[j] = "analysis"}}
      BY <1>1, <1>2, <2>1 DEF IInv, Gathered
    <2>4. failures' = {<<dagIds[i], i>> : i \in {j \in 1..cursor' - 1 : future'[j] = "failure"}}
      BY <1>1, <1>2, <2>1 DEF IInv, Gathered
    <2> QED
      BY <1>3, <2>1, <2>2, <2>3, <2>4 DEF Gathered
  <1> QED
    BY <1>5, <1>6, <1>7 DEF IInv

\* The calling thread meets a defect and abandons the iterator.
LEMMA GatherDefectStep ==
  ASSUME IInv, GatherDefect
  PROVE  IInv'
  <1>1. /\ main = "gather" /\ main' = "shutdown" /\ cursor <= Size
        /\ future[cursor] = "defect" /\ raisedAt' = cursor
        /\ future' = Cancelled
        /\ UNCHANGED <<request, cursor, job, stage, ending, source, analyses, failures>>
    BY DEF GatherDefect, Outcome, threads, result
  <1>2. /\ Size' = Size /\ PoolSize' = PoolSize /\ (Serial' <=> Serial)
        /\ (Valid' <=> Valid) /\ dagIds' = dagIds /\ limitOk' = limitOk
        /\ width' = width
    BY <1>1, RequestFacts
  <1>3. /\ cursor \in Nat /\ cursor >= 1 /\ Size \in Nat /\ Size <= MaxSize
        /\ cursor \in Positions /\ MaxSize \in Nat
    BY <1>1, GatheredFacts, BoundsAssumption DEF Positions
  <1>4. \A i \in Positions :
          /\ future'[i] = future[i] \/ (future[i] = "queued" /\ future'[i] = "cancelled")
          /\ Serial \/ future'[i] # "queued"
    BY <1>1 DEF Cancelled
  <1>5. TypeOK'
    <2>1. raisedAt' \in 0..MaxSize
      BY <1>1, <1>3
    <2>2. future' \in [Positions -> {"none", "queued", "running", "analysis", "failure",
                                     "defect", "cancelled"}]
      BY <1>1 DEF Cancelled, IInv, TypeOK
    <2> QED
      BY <1>1, <1>2, <2>1, <2>2 DEF IInv, TypeOK
  <1>6. Untouched' /\ Admitted' /\ Attended'
    BY <1>1, <1>2 DEF IInv, Untouched, Admitted, Attended
  <1>7. Staffed'
    <2>1. \A w \in Workers : Busy(w) => job[w] \in Positions
      BY BusyFacts
    <2> QED
      BY <1>1, <1>2, <1>4, <2>1 DEF IInv, Staffed, Busy
  <1>8. Gathered'
    <2>1. \A j \in 1..cursor - 1 : future'[j] = future[j]
      BY <1>4, GatheredFacts
    <2> QED
      BY <1>1, <2>1, GatheredKept
  <1>9. Stopped'
    BY <1>1, <1>2, <1>3, <1>4 DEF Stopped, Ended
  <1> QED
    BY <1>5, <1>6, <1>7, <1>8, <1>9 DEF IInv

\* Everything is gathered.
LEMMA GatheredAllStep ==
  ASSUME IInv, GatheredAll
  PROVE  IInv'
  <1>1. /\ main = "gather" /\ main' = "shutdown" /\ cursor > Size
        /\ UNCHANGED <<request, cursor, future, job, stage, ending, source, analyses,
                       failures, raisedAt>>
    BY DEF GatheredAll, threads, result
  <1>2. /\ Size' = Size /\ PoolSize' = PoolSize /\ (Serial' <=> Serial)
        /\ (Valid' <=> Valid) /\ dagIds' = dagIds /\ limitOk' = limitOk
        /\ width' = width
    BY <1>1, RequestFacts
  <1>3. cursor = Size + 1
    BY <1>1, GatheredFacts
  <1>4. \A i \in Positions : future[i] # "queued"
    <2>1. \A i \in 1..Size : future[i] # "queued"
      BY <1>3, GatheredFacts
    <2> QED
      BY <2>1, GatheredFacts, BoundsAssumption DEF IInv, Staffed, Positions
  <1>5. TypeOK' /\ Untouched' /\ Admitted' /\ Staffed' /\ Attended'
    BY <1>1, <1>2 DEF IInv, TypeOK, Untouched, Admitted, Staffed, Attended, Busy
  <1>6. Gathered'
    BY <1>1, GatheredKept
  <1>7. Stopped'
    BY <1>1, <1>2, <1>3, <1>4 DEF IInv, Stopped, Ended
  <1> QED
    BY <1>5, <1>6, <1>7 DEF IInv

\* The pool is empty; execute() returns or raises.
LEMMA ShutdownStep ==
  ASSUME IInv, Shutdown
  PROVE  IInv'
  <1>1. /\ main = "shutdown" /\ main' = IF raisedAt = 0 THEN "returned" ELSE "raised"
        /\ \A w \in Workers : ~Busy(w)
        /\ UNCHANGED <<request, cursor, future, job, stage, ending, source, analyses,
                       failures, raisedAt>>
    BY DEF Shutdown, Drained, Busy, threads, result
  <1>2. /\ Size' = Size /\ PoolSize' = PoolSize /\ (Serial' <=> Serial)
        /\ (Valid' <=> Valid) /\ dagIds' = dagIds /\ limitOk' = limitOk
        /\ width' = width
    BY <1>1, RequestFacts
  <1>3. TypeOK' /\ Untouched' /\ Admitted' /\ Staffed' /\ Attended'
    BY <1>1, <1>2 DEF IInv, TypeOK, Untouched, Admitted, Staffed, Attended, Busy
  <1>4. Gathered'
    BY <1>1, GatheredKept
  <1>5. Stopped'
    BY <1>1, <1>2 DEF IInv, Stopped, Busy, Ended
  <1> QED
    BY <1>3, <1>4, <1>5 DEF IInv

\* Every step of the caller, of a worker and of the defect handling keeps the invariant.
LEMMA StepIInv == IInv /\ [Next]_vars => IInv'
  <1> SUFFICES ASSUME IInv, [Next]_vars PROVE IInv'
    OBVIOUS
  <1>1. CASE Reject \/ Begin
    BY <1>1, BeginStep
  <1>2. CASE Gather
    BY <1>2, GatherStep
  <1>3. CASE GatherDefect
    BY <1>3, GatherDefectStep
  <1>4. CASE GatheredAll
    BY <1>4, GatheredAllStep
  <1>5. CASE Shutdown
    BY <1>5, ShutdownStep
  <1>6. ASSUME NEW w \in Workers, Work(w) PROVE IInv'
    <2>1. CASE Take(w)
      BY <2>1, TakeStep
    <2>2. CASE Moves(w)
      BY <2>2, StageStep
    <2>3. CASE Finish(w)
      BY <2>3, FinishStep
    <2> QED
      BY <1>6, <2>1, <2>2, <2>3 DEF Work, Moves
  <1>7. CASE UNCHANGED vars
    BY <1>7 DEF vars, request, threads, result, IInv, TypeOK, Untouched, Admitted, Staffed,
                Attended, Gathered, Stopped, Busy, Ended, Size, Valid, Serial, PoolSize
  <1> QED
    BY <1>1, <1>2, <1>3, <1>4, <1>5, <1>6, <1>7 DEF Next, Main

\* The invariant holds in every reachable state.
LEMMA AlwaysIInv == Spec => []IInv
  BY InitIInv, StepIInv, PTL DEF Spec

-------------------------------------------------------------------------------
(* The theorems.                                                           *)

\* Every variable keeps its type, and a thread is idle exactly when it has no job.
THEOREM TypeCorrect == Spec => []TypeOK
  <1>1. IInv => TypeOK
    BY DEF IInv
  <1> QED
    BY AlwaysIInv, <1>1, PTL

\* A set of positions each of which a worker of its own has in hand is no larger
\* than the pool.
LEMMA OneWorkerEach ==
  ASSUME IInv, Valid, NEW S \in SUBSET Positions,
         \A i \in S : \E w \in Workers : job[w] = i
  PROVE  IsFiniteSet(S) /\ Cardinality(S) <= PoolSize
  <1> DEFINE worker == [i \in S |-> CHOOSE w \in Workers : job[w] = i]
  <1>1. PoolSize \in Nat
    BY PoolFacts DEF IInv, TypeOK
  <1>2. \A i \in S : worker[i] \in Workers /\ job[worker[i]] = i
    OBVIOUS
  <1>3. \A i \in S : worker[i] \in 1..PoolSize
    BY <1>1, <1>2 DEF IInv, Staffed, Busy, Workers, Positions
  <1>4. \A i, j \in S : worker[i] = worker[j] => i = j
    BY <1>2
  <1>5. worker \in Injection(S, 1..PoolSize)
    <2> HIDE DEF worker
    <2>1. worker \in [S -> 1..PoolSize]
      <3>1. worker = [i \in S |-> worker[i]]
        BY DEF worker
      <3> QED
        BY <1>3, <3>1
    <2> QED
      BY <1>4, <2>1 DEF Injection, IsInjective
  <1>6. IsFiniteSet(1..PoolSize) /\ Cardinality(1..PoolSize) = PoolSize
    BY <1>1, FS_Interval
  <1> QED
    BY <1>5, <1>6, FS_Injection

\* For any number of DAGs and threads, never do more analyses run, or more sources
\* stand open, than max_concurrency allows, and none when execute() has ended.
THEOREM ResourcesAreBounded == Spec => []ResourcesBounded
  <1>1. IInv => ResourcesBounded
    <2> SUFFICES ASSUME IInv PROVE ResourcesBounded
      OBVIOUS
    <2> DEFINE running == {i \in Positions : future[i] = "running"}
               open == {i \in Positions : source[i] = "open"}
               busy == {w \in Workers : job[w] # 0}
    <2>1. \A i \in running : \E w \in Workers : job[w] = i
      BY DEF IInv, Staffed
    <2>2. \A i \in open : \E w \in Workers : job[w] = i
      BY DEF IInv, Attended
    <2>3. width \in Nat
      BY BoundsAssumption DEF IInv, TypeOK
    <2>4. CASE busy = {}
      <3>1. running = {} /\ open = {}
        BY <2>1, <2>2, <2>4 DEF Positions
      <3> QED
        BY <2>3, <2>4, <3>1, FS_EmptySet DEF ResourcesBounded
    <2>5. CASE busy # {}
      <3>1. Valid /\ ~Ended
        BY <2>5, BusyFacts DEF Busy, Ended
      <3>2. PoolSize \in Nat /\ PoolSize <= width
        BY <2>3, <3>1, PoolFacts DEF IInv
      <3>3. Cardinality(running) \in Nat /\ Cardinality(running) <= PoolSize
        BY <2>1, <3>1, OneWorkerEach, FS_CardinalityType
      <3>4. Cardinality(open) \in Nat /\ Cardinality(open) <= PoolSize
        BY <2>2, <3>1, OneWorkerEach, FS_CardinalityType
      <3>5. Cardinality(busy) \in Nat /\ Cardinality(busy) <= PoolSize
        <4>1. busy \in SUBSET (1..PoolSize)
          BY <3>2 DEF IInv, Staffed, Busy, Workers
        <4>2. IsFiniteSet(1..PoolSize) /\ Cardinality(1..PoolSize) = PoolSize
          BY <3>2, FS_Interval
        <4> HIDE DEF busy
        <4> QED
          BY <4>1, <4>2, FS_Subset, FS_CardinalityType
      <3> HIDE DEF running, open, busy
      <3>6. /\ Cardinality(running) <= width /\ Cardinality(open) <= width
            /\ Cardinality(busy) <= width
        BY <2>3, <3>2, <3>3, <3>4, <3>5
      <3> QED
        BY <3>1, <3>6 DEF ResourcesBounded, running, open, busy
    <2> QED
      BY <2>4, <2>5
  <1> QED
    BY AlwaysIInv, <1>1, PTL

\* Once gathering has stopped, no analysis is begun: a step that begins one takes it
\* from the queue, and the queue is then empty or nobody is asked for it.
THEOREM NothingStartsInShutdown == Spec => NoStartInShutdown
  <1>1. ASSUME IInv, [Next]_vars, main = "shutdown",
               NEW i \in Positions, future'[i] = "running"
        PROVE  future[i] = "running"
    <2>1. future \in [Positions -> {"none", "queued", "running", "analysis", "failure",
                                    "defect", "cancelled"}]
      BY <1>1 DEF IInv, TypeOK
    <2>3. CASE Main
      BY <1>1, <2>3 DEF Main, Reject, Begin, Gather, GatherDefect, GatheredAll, Shutdown
    <2>4. ASSUME NEW w \in Workers, Work(w) PROVE future[i] = "running"
      <3>1. CASE Take(w)
        BY <1>1, <3>1, TakeStep
      <3>2. CASE Moves(w)
        BY <1>1, <3>2 DEF Moves, Open, Abandon, Fetch, Analyze, Break, Close
      <3>3. CASE Finish(w)
        BY <1>1, <2>1, <3>3, FinishStep DEF Decided
      <3> QED
        BY <2>4, <3>1, <3>2, <3>3 DEF Work, Moves
    <2>5. CASE UNCHANGED vars
      BY <1>1, <2>5 DEF vars
    <2> QED
      BY <1>1, <2>3, <2>4, <2>5 DEF Next
  <1>2. IInv /\ [Next]_vars =>
          [main = "shutdown" => \A i \in Positions : future'[i] = "running" => future[i] = "running"]_vars
    BY <1>1
  <1> QED
    BY AlwaysIInv, <1>2, PTL DEF Spec, NoStartInShutdown

-------------------------------------------------------------------------------
(* Refinement of BatchContract.                                            *)

\* What the contract sees of the state: its variables under the refinement mapping.
verdict == [i \in Positions |-> IF future[i] \in Decided THEN future[i] ELSE "none"]
answer == IF main = "returned"
          THEN [analyses |-> analyses, failures |-> failures]
          ELSE [analyses |-> {}, failures |-> {}]
blame == IF Ended THEN raisedAt ELSE 0
reply == IF Ended THEN main ELSE "none"

\* What the refinement maps a state to, conjunct by conjunct, so that the
\* following lemmas need not expand the contract.
LEMMA Mapping ==
  /\ Contract!vars = <<dagIds, Valid, verdict, answer, blame, reply>>
  /\ Contract!vars' = <<dagIds', Valid', verdict', answer', blame', reply'>>
  BY DEF Contract!vars, verdict, answer, blame, reply, Decided

\* A step that decides and answers nothing is no step of the contract.
LEMMA Stutter ==
  ASSUME UNCHANGED request, ~Ended, ~Ended',
         \A i \in Positions : future'[i] = future[i] \/ {future[i], future'[i]} \cap Decided = {}
  PROVE  UNCHANGED Contract!vars
  <1>1. dagIds' = dagIds /\ Valid' = Valid
    BY RequestFacts DEF Valid
  <1>2. verdict' = verdict
    BY DEF verdict
  <1>3. answer' = answer /\ blame' = blame /\ reply' = reply
    BY DEF answer, blame, reply, Ended
  <1> QED
    BY <1>1, <1>2, <1>3, Mapping

\* A batch that has not begun is a contract with no position decided.
LEMMA InitRefines == Init => Contract!Init
  <1> SUFFICES ASSUME Init PROVE Contract!Init
    OBVIOUS
  <1>1. dagIds \in Seq(Dags)
    BY BoundsAssumption DEF Init, Requests
  <1> QED
    BY <1>1 DEF Init, Contract!Init, Ended, Valid

\* A refused request is the contract's refusal.
LEMMA RejectRefines == ASSUME IInv, Reject PROVE Contract!Reject
  <1>1. /\ main = "validate" /\ main' = "rejected" /\ ~Valid
        /\ UNCHANGED <<request, cursor, future, analyses, failures, raisedAt>>
    BY DEF Reject, result
  <1>2. raisedAt = 0
    BY <1>1 DEF IInv, Untouched
  <1>3. dagIds' = dagIds /\ Valid' = Valid
    BY <1>1, RequestFacts DEF Valid
  <1> QED
    BY <1>1, <1>2, <1>3 DEF Contract!Reject, Ended

\* The end of an analysis decides its position.
LEMMA FinishRefines == ASSUME IInv, NEW w \in Workers, Finish(w) PROVE Contract!Decide
  <1>1. /\ UNCHANGED <<request, main, analyses, failures, raisedAt>>
        /\ stage[w] = "finish"
    BY DEF Finish, result
  <1>2. /\ future' = [future EXCEPT ![job[w]] = ending[w]] /\ ending[w] \in Decided
    BY FinishStep
  <1>3. Busy(w)
    BY <1>1 DEF IInv, TypeOK, Busy
  <1>4. /\ job[w] \in 1..Size /\ job[w] \in Positions /\ future[job[w]] = "running"
        /\ ~Ended /\ Valid
    BY <1>3, BusyFacts DEF Ended
  <1>5. /\ verdict[job[w]] = "none"
        /\ verdict' = [verdict EXCEPT ![job[w]] = ending[w]]
    BY <1>2, <1>4 DEF verdict, Decided, IInv, TypeOK
  <1>6. /\ dagIds' = dagIds /\ Valid' = Valid /\ answer' = answer /\ blame' = blame
        /\ reply' = reply /\ reply = "none"
    BY <1>1, <1>4, RequestFacts DEF Valid, answer, blame, reply, Ended
  <1>7. /\ \E i \in 1..Size, v \in {"analysis", "failure", "defect"} :
              /\ verdict[i] = "none"
              /\ verdict' = [verdict EXCEPT ![i] = v]
    BY <1>2, <1>4, <1>5 DEF Decided
  <1> QED
    BY <1>4, <1>6, <1>7 DEF Contract!Decide, Contract!Size, Size, verdict, answer, blame,
                            reply, Decided

\* Once the pool is empty the batch returns everything, or raises the first defect.
LEMMA ShutdownRefines == ASSUME IInv, Shutdown PROVE Contract!Return \/ Contract!Raise
  <1>1. /\ main = "shutdown" /\ main' = IF raisedAt = 0 THEN "returned" ELSE "raised"
        /\ UNCHANGED <<request, cursor, future, analyses, failures, raisedAt>>
    BY DEF Shutdown, result
  <1>2. Valid /\ dagIds' = dagIds /\ Valid' = Valid
    BY <1>1, RequestFacts DEF IInv, Admitted, Valid
  <1>3. /\ reply = "none" /\ ~Ended /\ Ended' /\ verdict' = verdict
        /\ answer = [analyses |-> {}, failures |-> {}] /\ blame = 0
        /\ reply' = main'
    BY <1>1 DEF reply, Ended, verdict, answer, blame
  <1>4. /\ cursor \in Nat /\ Size \in Nat
        /\ \A j \in 1..cursor - 1 : /\ j \in 1..Size /\ j \in Positions
                                    /\ future[j] \in {"analysis", "failure"}
    BY GatheredFacts
  <1>5. \A j \in 1..cursor - 1 : verdict[j] = future[j]
    BY <1>4 DEF verdict, Decided
  <1>6. CASE raisedAt = 0
    <2>1. cursor = Size + 1
      BY <1>1, <1>6, <1>4 DEF IInv, Stopped, TypeOK
    <2>2. \A j \in 1..Size : verdict[j] = future[j] /\ future[j] \in {"analysis", "failure"}
      BY <1>4, <1>5, <2>1
    <2>3. answer' = [analyses |-> analyses, failures |-> failures]
      BY <1>1, <1>6 DEF answer
    <2>4. analyses = {<<dagIds[i], i>> : i \in {j \in 1..Size : verdict[j] = "analysis"}}
      BY <1>4, <2>1, <2>2 DEF IInv, Gathered
    <2>5. failures = {<<dagIds[i], i>> : i \in {j \in 1..Size : verdict[j] = "failure"}}
      BY <1>4, <2>1, <2>2 DEF IInv, Gathered
    <2>6. blame' = blame /\ reply' = "returned"
      BY <1>1, <1>3, <1>6 DEF blame
    <2>7. Contract!Return
      BY <1>2, <1>3, <2>2, <2>3, <2>4, <2>5, <2>6
         DEF Contract!Return, Contract!Decided, Contract!Listed, Contract!Size, Size,
             verdict, answer, blame, reply, Decided
    <2> QED
      BY <2>7
  <1>7. CASE raisedAt # 0
    <2>1. raisedAt = cursor /\ cursor \in 1..Size /\ future[cursor] = "defect"
          /\ cursor \in Positions
      BY <1>1, <1>7, GatheredFacts, BoundsAssumption DEF IInv, Stopped, Positions
    <2>2. verdict[cursor] = "defect"
      BY <2>1 DEF verdict, Decided
    <2>3. \A j \in 1..cursor - 1 : verdict[j] \in {"analysis", "failure"}
      BY <1>4, <1>5
    <2>4. blame' = cursor /\ reply' = "raised" /\ answer' = answer
      BY <1>1, <1>3, <1>7, <2>1 DEF blame, answer
    <2>5. \E i \in 1..Size : /\ verdict[i] = "defect"
                             /\ \A j \in 1..i - 1 : verdict[j] \in {"analysis", "failure"}
                             /\ blame' = i
      BY <2>1, <2>2, <2>3, <2>4
    <2>6. Contract!Raise
      BY <1>2, <1>3, <2>4, <2>5
         DEF Contract!Raise, Contract!Decided, Contract!Size, Size, verdict, answer, blame,
             reply, Decided
    <2> QED
      BY <2>6
  <1> QED
    BY <1>6, <1>7

\* Every step of the threads is a step of the contract or leaves what it sees alone.
LEMMA StepRefines ==
  IInv /\ [Next]_vars => Contract!Next \/ UNCHANGED Contract!vars
  <1> SUFFICES ASSUME IInv, [Next]_vars PROVE Contract!Next \/ UNCHANGED Contract!vars
    OBVIOUS
  <1>1. CASE Reject
    BY <1>1, RejectRefines DEF Contract!Next
  <1>2. CASE Begin
    <2>1. \A i \in Positions : {future[i], future'[i]} \cap Decided = {}
      BY <1>2 DEF Begin, IInv, Untouched, Decided
    <2> QED
      BY <1>2, <2>1, Stutter DEF Begin, Ended
  <1>3. CASE Gather \/ GatheredAll
    BY <1>3, Stutter DEF Gather, GatheredAll, Ended
  <1>4. CASE GatherDefect
    <2>1. \A i \in Positions : \/ future'[i] = future[i]
                               \/ {future[i], future'[i]} \cap Decided = {}
      BY <1>4 DEF GatherDefect, Cancelled, Decided
    <2> QED
      BY <1>4, <2>1, Stutter DEF GatherDefect, Ended
  <1>5. CASE Shutdown
    BY <1>5, ShutdownRefines DEF Contract!Next
  <1>6. ASSUME NEW w \in Workers, Work(w) PROVE Contract!Next \/ UNCHANGED Contract!vars
    <2>1. CASE Finish(w)
      BY <2>1, FinishRefines DEF Contract!Next
    <2>2. CASE Take(w)
      <3>1. \A i \in Positions : \/ future'[i] = future[i]
                                 \/ {future[i], future'[i]} \cap Decided = {}
        BY <2>2 DEF Take, Ready, Decided, IInv, TypeOK
      <3>2. main' = main /\ ~Ended /\ UNCHANGED request
        BY <2>2, TakeStep DEF Take, Ended
      <3> QED
        BY <3>1, <3>2, Stutter DEF Ended
    <2>3. CASE Moves(w)
      <3>1. UNCHANGED <<request, main, future>>
        BY <2>3 DEF Moves, Open, Abandon, Fetch, Analyze, Break, Close
      <3>2. Busy(w)
        BY <2>3 DEF IInv, TypeOK, Busy, Moves, Open, Abandon, Fetch, Following, Analyze, Break,
               Close
      <3> QED
        BY <3>1, <3>2, BusyFacts, Stutter DEF Ended
    <2> QED
      BY <1>6, <2>1, <2>2, <2>3 DEF Work, Moves
  <1>7. CASE UNCHANGED vars
    <2>1. UNCHANGED <<dagIds, Valid, verdict, answer, blame, reply>>
      BY <1>7 DEF vars, Valid, Size, verdict, answer, blame, reply, Ended
    <2> QED
      BY <2>1, Mapping
  <1> QED
    BY <1>1, <1>2, <1>3, <1>4, <1>5, <1>6, <1>7 DEF Next, Main

\* The threads implement the contract, its fairness apart: a position is decided
\* once, a result lists every requested DAG under the outcome of its own analysis,
\* and an exception is that of the first defect in request order.
THEOREM BatchRefinesContract == Spec => Contract!Init /\ [][Contract!Next]_(Contract!vars)
  BY InitRefines, StepRefines, AlwaysIInv, PTL DEF Spec

==============================================================================
