-------------------------- MODULE HistoryBuild_proofs --------------------------
(***************************************************************************)
(* Proofs about HistoryBuild, for any number of runs and task runs, any    *)
(* tasks, graphs and shapes, and every minimum history and window: no task *)
(* run and no dependency is lost, and what is compared is newer than what  *)
(* it is compared with.                                                    *)
(***************************************************************************)
EXTENDS HistoryBuild, Orderings_proofs, SequenceTheorems

Phases == {"collect", "tasks", "handoffs", "done"}

Typed ==
  /\ dependencies \in [Tasks -> SUBSET Tasks]
  /\ taskRuns \in Seq(TaskRun)
  /\ phase \in Phases

\* Since a stage ran, its results are those of the task runs that were collected.
TasksAnalyzed ==
  phase # "collect" => /\ durations = [t \in Tasks |-> DurationHistory(t)]
                       /\ drift = Compared(durations)

HandoffsAnalyzed ==
  phase \in {"handoffs", "done"} =>
    /\ delays = [e \in Edges |-> HandoffHistory(e)]
    /\ handoffDrift = Compared(delays)
    /\ diagnostics = {v \in Verdicts : v.code # "measured"}

\* What is too short was found by one stage or the other.
Diagnosed ==
  /\ phase = "tasks" => insufficient = TooShort(durations)
  /\ phase \in {"handoffs", "done"} =>
       insufficient = TooShort(durations) \cup TooShort(delays)

Newest ==
  phase = "done" => current = IF taskRuns = <<>> THEN None ELSE Last(taskRuns).run

IInv == Typed /\ TasksAnalyzed /\ HandoffsAnalyzed /\ Diagnosed /\ Newest

-------------------------------------------------------------------------------
(* Lemmas about the operators.                                             *)

\* The earliest of some task runs, or of some times, is one of them.
LEMMA EarliestFacts ==
  ASSUME NEW S \in SUBSET Int, IsFiniteSet(S), S # {}
  PROVE  Earliest(S) \in S /\ \A j \in S : Earliest(S) <= j
BY HasExtremes DEF Earliest

\* A task run has a place, a run, a task and a shape.
LEMMA TaskRunFacts ==
  ASSUME Typed
  PROVE  /\ Len(taskRuns) \in Nat /\ Indices = 1..Len(taskRuns)
         /\ IsFiniteSet(Indices) /\ Indices \subseteq Int
         /\ \A i \in Indices : /\ taskRuns[i] \in TaskRun
                               /\ taskRuns[i].run \in Runs
                               /\ taskRuns[i].task \in Tasks
                               /\ taskRuns[i].shape \in Shapes
         /\ \A i \in Indices : /\ taskRuns[i].shape.start \in Nat \cup {None}
                               /\ taskRuns[i].shape.end \in Nat \cup {None}
<1>1. Len(taskRuns) \in Nat /\ Indices = 1..Len(taskRuns)
  BY DEF Typed, Indices
<1>2. IsFiniteSet(Indices)
  BY <1>1, FS_Interval
<1>3. \A i \in Indices : taskRuns[i] \in TaskRun
  BY <1>1 DEF Typed
<1>4. \A i \in Indices : /\ taskRuns[i].run \in Runs /\ taskRuns[i].task \in Tasks
                         /\ taskRuns[i].shape \in Shapes
  BY <1>3 DEF TaskRun
<1>5. \A i \in Indices : /\ taskRuns[i].shape.start \in Nat \cup {None}
                         /\ taskRuns[i].shape.end \in Nat \cup {None}
  BY <1>4, ShapesAssumption
<1> QED
  BY <1>1, <1>2, <1>3, <1>4, <1>5

\* Runs are finitely many numbers.
LEMMA RunsFacts == IsFiniteSet(Runs) /\ Runs \subseteq Int
BY BoundsAssumption, FS_Interval DEF Runs

\* The history of a task has one observation for each run in which a task run
\* counts, made of all that count, in the order of the first of them.
LEMMA DurationFacts ==
  ASSUME Typed, NEW t \in Tasks
  PROVE  LET h == DurationHistory(t)
         IN  /\ h \in Seq([run : Runs, from : SUBSET Indices])
             /\ \A k \in DOMAIN h : h[k].from = Counted(h[k].run, t) /\ h[k].from # {}
             /\ \A r \in Runs : Counted(r, t) # {} => \E k \in DOMAIN h : h[k].run = r
             /\ \A i, j \in DOMAIN h : i < j =>
                  Earliest(h[i].from) < Earliest(h[j].from)
<1> DEFINE S == {r \in Runs : Counted(r, t) # {}}
           first == [r \in S |-> Earliest(Counted(r, t))]
           o == Ordered(S, Lexicographic(S, first, first))
           n == Cardinality(S)
           h == DurationHistory(t)
<1>1. \A r \in Runs : /\ Counted(r, t) \subseteq Indices /\ Counted(r, t) \in SUBSET Int
                      /\ IsFiniteSet(Counted(r, t))
                      /\ \A i \in Counted(r, t) : taskRuns[i].run = r
  <2>1. \A r \in Runs : /\ Counted(r, t) \subseteq Indices
                        /\ \A i \in Counted(r, t) : taskRuns[i].run = r
    BY DEF Counted, Of
  <2> QED
    BY <2>1, TaskRunFacts, FS_Subset
<1>2. \A r \in S : Earliest(Counted(r, t)) \in Counted(r, t)
  BY <1>1, EarliestFacts
<1>3. first \in [S -> Int]
  BY <1>1, <1>2
<1>4. \A r, s \in S : first[r] = first[s] => r = s
  BY <1>1, <1>2
<1>5. h = [k \in DOMAIN o |-> [run |-> o[k], from |-> Counted(o[k], t)]]
  BY DEF DurationHistory, ByFirst
<1>6. /\ n \in Nat /\ o \in [1..n -> S]
      /\ \A r \in S : \E k \in 1..n : o[k] = r
      /\ \A i, j \in 1..n : i < j => first[o[i]] < first[o[j]]
  <2>1. IsFiniteSet(S)
    BY RunsFacts, FS_Subset
  <2> HIDE DEF S, first
  <2> QED
    BY <1>3, <1>4, <2>1, FirstEnumerates
<1> HIDE DEF n, o, h
<1>7. h = [k \in 1..n |-> [run |-> o[k], from |-> Counted(o[k], t)]]
  BY <1>5, <1>6
<1>8. \A k \in 1..n : o[k] \in S /\ h[k] \in [run : Runs, from : SUBSET Indices]
  <2> SUFFICES ASSUME NEW k \in 1..n
               PROVE  o[k] \in S /\ h[k] \in [run : Runs, from : SUBSET Indices]
    OBVIOUS
  <2>1. o[k] \in S /\ o[k] \in Runs
    BY <1>6
  <2> QED
    BY <1>1, <1>7, <2>1
<1>9. h \in Seq([run : Runs, from : SUBSET Indices]) /\ DOMAIN h = 1..n
  <2> HIDE DEF S
  <2> QED
    BY <1>6, <1>7, <1>8
<1>10. \A k \in 1..n : h[k].run = o[k] /\ h[k].from = Counted(o[k], t)
  BY <1>7
<1>11. \A k \in 1..n : h[k].from = Counted(h[k].run, t) /\ h[k].from # {}
  BY <1>8, <1>10
<1>12. \A r \in Runs : Counted(r, t) # {} => \E k \in 1..n : h[k].run = r
  BY <1>6, <1>10
<1>13. ASSUME NEW i \in 1..n, NEW j \in 1..n, i < j
       PROVE  Earliest(h[i].from) < Earliest(h[j].from)
  <2>1. first[o[i]] < first[o[j]] /\ o[i] \in S /\ o[j] \in S
    BY <1>6, <1>8, <1>13
  <2> QED
    BY <1>10, <2>1
<1> QED
  BY <1>9, <1>11, <1>12, <1>13 DEF h

\* The task runs of a run.
InRun(r) == {i \in Indices : taskRuns[i].run = r}

\* runs_by_id lists the runs that were seen, each once, in the order of the first
\* task run of each.
LEMMA RunOrderFacts ==
  ASSUME Typed
  PROVE  /\ RunOrder \in Seq(Runs)
         /\ \A k \in DOMAIN RunOrder : RunOrder[k] \in RunsSeen
         /\ \A r \in RunsSeen : r \in Runs /\ \E k \in DOMAIN RunOrder : RunOrder[k] = r
         /\ \A r \in RunsSeen : Earliest(InRun(r)) \in InRun(r)
         /\ \A i, j \in DOMAIN RunOrder : i < j =>
              Earliest(InRun(RunOrder[i])) < Earliest(InRun(RunOrder[j]))
<1> DEFINE first == [r \in RunsSeen |-> Earliest(InRun(r))]
           o == Ordered(RunsSeen, Lexicographic(RunsSeen, first, first))
           n == Cardinality(RunsSeen)
<1>1. RunsSeen \in SUBSET Runs
  BY TaskRunFacts DEF RunsSeen
<1>2. \A r \in RunsSeen : /\ InRun(r) \in SUBSET Int /\ IsFiniteSet(InRun(r))
                          /\ InRun(r) # {}
  <2>1. \A r : InRun(r) \subseteq Indices
    BY DEF InRun
  <2>2. \A r \in RunsSeen : InRun(r) # {}
    BY DEF InRun, RunsSeen
  <2> QED
    BY <2>1, <2>2, TaskRunFacts, FS_Subset
<1>3. \A r \in RunsSeen : Earliest(InRun(r)) \in InRun(r)
  BY <1>2, EarliestFacts
<1>4. first \in [RunsSeen -> Int]
  BY <1>2, <1>3
<1>5. \A r, s \in RunsSeen : first[r] = first[s] => r = s
  BY <1>3 DEF InRun
<1>6. RunOrder = o
  BY DEF RunOrder, ByFirst, InRun
<1>7. /\ n \in Nat /\ o \in [1..n -> RunsSeen]
      /\ \A r \in RunsSeen : \E k \in 1..n : o[k] = r
      /\ \A i, j \in 1..n : i < j => first[o[i]] < first[o[j]]
  <2>1. IsFiniteSet(RunsSeen)
    BY <1>1, RunsFacts, FS_Subset
  <2> HIDE DEF first
  <2> QED
    BY <1>4, <1>5, <2>1, FirstEnumerates
<1> HIDE DEF n, o
<1>8. RunOrder \in Seq(Runs) /\ DOMAIN RunOrder = 1..n
  <2>1. o \in [1..n -> Runs]
    BY <1>1, <1>7
  <2> QED
    BY <1>6, <1>7, <2>1
<1>9. ASSUME NEW i \in 1..n, NEW j \in 1..n, i < j
      PROVE  Earliest(InRun(o[i])) < Earliest(InRun(o[j]))
  <2>1. o[i] \in RunsSeen /\ o[j] \in RunsSeen
    BY <1>7
  <2>2. first[o[i]] < first[o[j]]
    BY <1>7, <1>9
  <2> QED
    BY <2>1, <2>2
<1> QED
  BY <1>1, <1>3, <1>6, <1>7, <1>8, <1>9

\* An edge is measured in a run exactly if both its tasks have task runs there, all
\* upstream ones with an end and all downstream ones with a start.
LEMMA VerdictFacts ==
  ASSUME Typed, NEW r, NEW e
  PROVE  (Verdict(r, e) = "measured") <=>
           /\ Of(r, e[1]) # {} /\ \A i \in Of(r, e[1]) : taskRuns[i].shape.end # None
           /\ Of(r, e[2]) # {} /\ \A i \in Of(r, e[2]) : taskRuns[i].shape.start # None
<1>1. None \in Ends(Of(r, e[1])) <=> \E i \in Of(r, e[1]) : taskRuns[i].shape.end = None
  BY DEF Ends
<1>2. None \in Starts(Of(r, e[2])) <=> \E i \in Of(r, e[2]) : taskRuns[i].shape.start = None
  BY DEF Starts
<1> QED
  BY <1>1, <1>2 DEF Verdict

\* The task runs of a task in a run are among those collected.
LEMMA OfFacts ==
  ASSUME Typed, NEW r, NEW t
  PROVE  /\ Of(r, t) \subseteq Indices /\ IsFiniteSet(Of(r, t))
         /\ Of(r, t) # {} => r \in RunsSeen
<1>1. Of(r, t) \subseteq Indices /\ \A i \in Of(r, t) : taskRuns[i].run = r
  BY DEF Of
<1> QED
  BY <1>1, TaskRunFacts, FS_Subset DEF RunsSeen

\* The delay that is measured is the tightest of all pairs of mapped instances:
\* none is less than it, and it is the one of some pair.
LEMMA DelayFacts ==
  ASSUME Typed, NEW r, NEW e, Verdict(r, e) = "measured"
  PROVE  /\ Delay(r, e) \in Int
         /\ \A i \in Of(r, e[1]), j \in Of(r, e[2]) :
              Delay(r, e) <= taskRuns[j].shape.start - taskRuns[i].shape.end
         /\ \E i \in Of(r, e[1]), j \in Of(r, e[2]) :
              Delay(r, e) = taskRuns[j].shape.start - taskRuns[i].shape.end
<1> DEFINE up == Of(r, e[1])
           down == Of(r, e[2])
           latest == CHOOSE t \in Ends(up) : \A u \in Ends(up) : t >= u
           earliest == Earliest(Starts(down))
<1>1. /\ up # {} /\ up \subseteq Indices /\ IsFiniteSet(up)
      /\ down # {} /\ down \subseteq Indices /\ IsFiniteSet(down)
  BY VerdictFacts, OfFacts
<1>2. /\ \A i \in up : taskRuns[i].shape.end \in Nat
      /\ \A j \in down : taskRuns[j].shape.start \in Nat
  BY <1>1, VerdictFacts, TaskRunFacts
<1>3. /\ Ends(up) \in SUBSET Int /\ Ends(up) # {}
      /\ Starts(down) \in SUBSET Int /\ Starts(down) # {}
  BY <1>1, <1>2 DEF Ends, Starts
<1>4. IsFiniteSet(Ends(up)) /\ IsFiniteSet(Starts(down))
  <2> DEFINE f == [i \in up |-> taskRuns[i].shape.end]
             g == [j \in down |-> taskRuns[j].shape.start]
  <2>1. f \in Surjection(up, Ends(up)) /\ g \in Surjection(down, Starts(down))
    BY DEF Surjection, Ends, Starts
  <2> HIDE DEF f, g, up, down
  <2> QED
    BY <1>1, <2>1, FS_Surjection
<1>5. earliest \in Starts(down) /\ \A s \in Starts(down) : earliest <= s
  BY <1>3, <1>4, EarliestFacts
<1>6. latest \in Ends(up) /\ \A u \in Ends(up) : u <= latest
  <2>1. \E t \in Ends(up) : \A u \in Ends(up) : u <= t
    BY <1>3, <1>4, HasExtremes
  <2>2. \E t \in Ends(up) : \A u \in Ends(up) : t >= u
    BY <1>3, <2>1
  <2>3. latest \in Ends(up) /\ \A u \in Ends(up) : latest >= u
    BY <2>2
  <2> QED
    BY <1>3, <2>3
<1>7. Delay(r, e) = earliest - latest
  BY DEF Delay
<1> HIDE DEF up, down, earliest, latest
<1>8. PICK i \in up : taskRuns[i].shape.end = latest
  BY <1>6 DEF Ends
<1>9. PICK j \in down : taskRuns[j].shape.start = earliest
  BY <1>5 DEF Starts
<1>10. earliest \in Int /\ latest \in Int
  BY <1>3, <1>5, <1>6
<1>11. ASSUME NEW k \in up, NEW l \in down
       PROVE  Delay(r, e) <= taskRuns[l].shape.start - taskRuns[k].shape.end
  <2>1. taskRuns[k].shape.end <= latest /\ earliest <= taskRuns[l].shape.start
    BY <1>5, <1>6 DEF Ends, Starts
  <2>2. taskRuns[k].shape.end \in Int /\ taskRuns[l].shape.start \in Int
    BY <1>2
  <2> QED
    BY <1>7, <1>10, <2>1, <2>2
<1> QED
  BY <1>7, <1>8, <1>9, <1>10, <1>11 DEF up, down

\* The history of an edge has one delay for each run in which it is measured, in the
\* order of the first task run of each, whatever its task.
LEMMA HandoffFacts ==
  ASSUME Typed, NEW e
  PROVE  LET h == HandoffHistory(e)
         IN  /\ h \in Seq([run : Runs, delay : Int])
             /\ \A k \in DOMAIN h : /\ h[k].run \in RunsSeen
                                    /\ Verdict(h[k].run, e) = "measured"
                                    /\ h[k].delay = Delay(h[k].run, e)
             /\ \A r \in RunsSeen : Verdict(r, e) = "measured" =>
                  \E k \in DOMAIN h : h[k].run = r
             /\ \A i, j \in DOMAIN h : i < j =>
                  Earliest(InRun(h[i].run)) < Earliest(InRun(h[j].run))
<1> DEFINE M == {r \in Runs : Verdict(r, e) = "measured"}
           runs == Only(RunOrder, M)
           h == HandoffHistory(e)
<1>1. /\ RunOrder \in Seq(Runs)
      /\ \A k \in DOMAIN RunOrder : RunOrder[k] \in RunsSeen
      /\ \A r \in RunsSeen : r \in Runs /\ \E k \in DOMAIN RunOrder : RunOrder[k] = r
      /\ \A i, j \in DOMAIN RunOrder : i < j =>
           Earliest(InRun(RunOrder[i])) < Earliest(InRun(RunOrder[j]))
  BY RunOrderFacts
<1>2. /\ runs \in Seq(Runs \cap M)
      /\ \E p : /\ At(p, RunOrder, runs)
                /\ \A i \in DOMAIN RunOrder : RunOrder[i] \in M =>
                     \E k \in DOMAIN runs : p[k] = i
                /\ \A i, j \in DOMAIN runs : i < j => p[i] < p[j]
  <2> HIDE DEF M
  <2> QED
    BY <1>1, OnlyKeeps
<1>3. PICK p : /\ At(p, RunOrder, runs)
               /\ \A i \in DOMAIN RunOrder : RunOrder[i] \in M =>
                    \E k \in DOMAIN runs : p[k] = i
               /\ \A i, j \in DOMAIN runs : i < j => p[i] < p[j]
  BY <1>2
<1>4. h = [k \in DOMAIN runs |-> [run |-> runs[k], delay |-> Delay(runs[k], e)]]
  BY DEF HandoffHistory
<1> HIDE DEF runs, h
<1>5. /\ Len(runs) \in Nat /\ DOMAIN runs = 1..Len(runs)
      /\ \A k \in DOMAIN runs : runs[k] \in Runs /\ runs[k] \in M
  BY <1>2
<1>6. \A k \in DOMAIN runs : /\ p[k] \in DOMAIN RunOrder /\ runs[k] = RunOrder[p[k]]
                             /\ runs[k] \in RunsSeen
  BY <1>1, <1>3 DEF At
<1>7. \A k \in DOMAIN runs : Verdict(runs[k], e) = "measured" /\ Delay(runs[k], e) \in Int
  BY <1>5, DelayFacts
<1>8. \A k \in DOMAIN runs : /\ h[k].run = runs[k] /\ h[k].delay = Delay(runs[k], e)
                             /\ h[k] \in [run : Runs, delay : Int]
  BY <1>4, <1>5, <1>7
<1>9. h \in Seq([run : Runs, delay : Int]) /\ DOMAIN h = DOMAIN runs
  <2>1. DOMAIN h = 1..Len(runs)
    BY <1>4, <1>5
  <2>2. h = [k \in 1..Len(runs) |-> h[k]]
    BY <1>4, <1>5
  <2> QED
    BY <1>5, <1>8, <2>1, <2>2
<1>10. ASSUME NEW r \in RunsSeen, Verdict(r, e) = "measured"
       PROVE  \E k \in DOMAIN h : h[k].run = r
  <2>1. PICK i \in DOMAIN RunOrder : RunOrder[i] = r
    BY <1>1
  <2>2. RunOrder[i] \in M
    BY <1>1, <1>10, <2>1
  <2>3. PICK k \in DOMAIN runs : p[k] = i
    BY <1>3, <2>2
  <2> QED
    BY <1>6, <1>8, <1>9, <2>1, <2>3
<1>11. ASSUME NEW i \in DOMAIN h, NEW j \in DOMAIN h, i < j
       PROVE  Earliest(InRun(h[i].run)) < Earliest(InRun(h[j].run))
  <2>1. p[i] < p[j] /\ p[i] \in DOMAIN RunOrder /\ p[j] \in DOMAIN RunOrder
    BY <1>3, <1>6, <1>9, <1>11
  <2>2. Earliest(InRun(RunOrder[p[i]])) < Earliest(InRun(RunOrder[p[j]]))
    BY <1>1, <2>1
  <2> QED
    BY <1>6, <1>8, <1>9, <2>2
<1> QED
  BY <1>6, <1>7, <1>8, <1>9, <1>10, <1>11 DEF h

-------------------------------------------------------------------------------
(* What a comparison of an ascending history is.                           *)

\* The baseline of calculate_drift is the end of what is before the last
\* observation, as long as the window.
LEMMA BaselineFacts ==
  ASSUME NEW T, NEW h \in Seq(T), \A k \in DOMAIN h : h[k].run \in Int, Enough(h)
  PROVE  LET n == Len(h) - 1
         IN  \E w \in 0..n :
               /\ w = IF BaselineWindow = NoWindow \/ n < BaselineWindow
                      THEN n ELSE BaselineWindow
               /\ Len(Baseline(h)) = w
               /\ ToSet(Baseline(h)) = {h[k].run : k \in n - w + 1..n}
<1> DEFINE n == Len(h) - 1
           older == [k \in 1..n |-> h[k].run]
           w == IF BaselineWindow = NoWindow \/ n < BaselineWindow THEN n ELSE BaselineWindow
           base == SubSeq(older, n - w + 1, n)
<1>1. n \in Nat /\ Len(h) = n + 1 /\ DOMAIN h = 1..Len(h)
  BY PolicyAssumption DEF Enough
<1> HIDE DEF n
<1>2. older \in Seq(Int) /\ Len(older) = n
  BY <1>1
<1>3. w \in 0..n
  BY <1>1, PolicyAssumption
<1>4. Baseline(h) = base
  <2>1. Baseline(h) = SubSeq(older, Len(older) -
          (IF BaselineWindow = NoWindow \/ BaselineWindow > Len(older)
           THEN Len(older) ELSE BaselineWindow) + 1, Len(older))
    BY DEF Baseline, n
  <2>2. BaselineWindow > n <=> n < BaselineWindow
    BY <1>1, PolicyAssumption
  <2> HIDE DEF older
  <2> QED
    BY <1>2, <2>1, <2>2
<1> HIDE DEF w
<1>5. \A k \in n - w + 1..n : k \in 1..n /\ older[k] = h[k].run
  BY <1>1, <1>3
<1>6. /\ Len(base) = w /\ base \in Seq(Int)
      /\ \A i \in 1..w : base[i] = older[n - w + i]
  <2>1. n - w + 1 \in Int /\ n \in Int /\ n - (n - w + 1) + 1 = w
    BY <1>1, <1>3
  <2>2. \A k \in n - w + 1..n : older[k] \in Int
    BY <1>1, <1>5
  <2>3. /\ base \in Seq(Int)
        /\ Len(base) = IF n - w + 1 <= n THEN n - (n - w + 1) + 1 ELSE 0
        /\ \A i \in 1..n - (n - w + 1) + 1 : base[i] = older[(n - w + 1) + i - 1]
    <3> HIDE DEF older
    <3> QED
      BY <2>1, <2>2, SubSeqProperties
  <2>4. \A i \in 1..w : (n - w + 1) + i - 1 = n - w + i
    BY <1>1, <1>3
  <2>5. ~(n - w + 1 <= n) => w = 0
    BY <1>1, <1>3
  <2> HIDE DEF base, older
  <2> QED
    BY <2>1, <2>3, <2>4, <2>5
<1> HIDE DEF base
<1>7. DOMAIN base = 1..w
  BY <1>6
<1>8. \A i \in 1..w : n - w + i \in n - w + 1..n
  BY <1>1, <1>3
<1>9. \A k \in n - w + 1..n : k - (n - w) \in 1..w /\ n - w + (k - (n - w)) = k
  BY <1>1, <1>3
<1> HIDE DEF older
<1>10. \A i \in 1..w : \E k \in n - w + 1..n : base[i] = h[k].run
  BY <1>5, <1>6, <1>8
<1>11. \A k \in n - w + 1..n : \E i \in 1..w : base[i] = h[k].run
  <2> SUFFICES ASSUME NEW k \in n - w + 1..n
               PROVE  \E i \in 1..w : base[i] = h[k].run
    OBVIOUS
  <2>1. k - (n - w) \in 1..w /\ older[n - w + (k - (n - w))] = older[k]
    BY <1>9
  <2>2. base[k - (n - w)] = older[n - w + (k - (n - w))]
    BY <1>6, <2>1
  <2> QED
    BY <1>5, <2>1, <2>2
<1>12. ToSet(base) = {h[k].run : k \in n - w + 1..n}
  <2>1. ToSet(base) = {base[i] : i \in 1..w}
    BY <1>7 DEF ToSet
  <2>2. \A x : x \in ToSet(base) <=> \E k \in n - w + 1..n : x = h[k].run
    BY <1>10, <1>11, <2>1
  <2> QED
    BY <2>2
<1> QED
  BY <1>3, <1>4, <1>6, <1>12 DEF n, w

\* The observations of a history are of ascending runs.
Ascends(h) == \A i, j \in DOMAIN h : i < j => h[i].run < h[j].run

\* In an ascending history, with no run after the current one, calculate_drift
\* compares the newest observation with those just before it.
LEMMA ComparisonFacts ==
  ASSUME NEW T, NEW h \in Seq(T), \A k \in DOMAIN h : h[k].run \in Int,
         Enough(h), Ascends(h),
         \A k \in DOMAIN h : current \in Int => h[k].run <= current
  PROVE  SoundComparison(Compare(h), {h[k].run : k \in DOMAIN h})
<1> DEFINE n == Len(h) - 1
           run == [k \in 1..n + 1 |-> h[k].run]
           measured == {h[k].run : k \in DOMAIN h}
           last == h[Len(h)].run
           older == {r \in measured : r < last}
<1>1. n \in Nat /\ Len(h) = n + 1 /\ DOMAIN h = 1..n + 1 /\ n + 1 \in 1..n + 1
  BY PolicyAssumption DEF Enough
<1>2. PICK w \in 0..n :
        /\ w = IF BaselineWindow = NoWindow \/ n < BaselineWindow
               THEN n ELSE BaselineWindow
        /\ Len(Baseline(h)) = w
        /\ ToSet(Baseline(h)) = {h[k].run : k \in n - w + 1..n}
  BY BaselineFacts
<1> HIDE DEF n
<1>3. \A k \in 1..n + 1 : run[k] = h[k].run /\ run[k] \in Int
  BY <1>1
<1>4. \A i, j \in 1..n + 1 : i < j => run[i] < run[j]
  BY <1>1, <1>3 DEF Ascends
<1>5. last = run[n + 1] /\ last \in Int
  BY <1>1, <1>3
<1> HIDE DEF run
<1>6. \A x : x \in measured <=> \E k \in 1..n + 1 : x = run[k]
  BY <1>1, <1>3
<1>7. Compare(h) = [current |-> last, baseline |-> Baseline(h)]
  BY DEF Compare, Last
<1>8. \A x : x \in ToSet(Baseline(h)) <=> \E k \in n - w + 1..n : x = run[k]
  <2>1. \A k \in n - w + 1..n : k \in 1..n + 1
    BY <1>1
  <2> QED
    BY <1>2, <1>3, <2>1
<1> HIDE DEF measured, last
<1>9. last \in measured /\ \A r \in measured : r <= last
  <2>1. last \in measured
    BY <1>1, <1>5, <1>6
  <2>2. ASSUME NEW k \in 1..n + 1 PROVE run[k] <= last
    <3>1. k = n + 1 \/ k < n + 1
      BY <1>1
    <3> QED
      BY <1>1, <1>3, <1>4, <1>5, <3>1
  <2> QED
    BY <1>6, <2>1, <2>2
<1>10. \A x : x \in older <=> \E k \in 1..n : x = run[k]
  <2>1. \A k \in 1..n : k \in 1..n + 1 /\ k < n + 1 /\ run[k] < last /\ run[k] \in measured
    BY <1>1, <1>3, <1>4, <1>5, <1>6
  <2>2. \A k \in 1..n + 1 : k \in 1..n \/ k = n + 1
    BY <1>1
  <2>3. ~(last < last)
    BY <1>5
  <2> QED
    BY <1>5, <1>6, <2>1, <2>2, <2>3
<1>11. Cardinality(older) = n
  <2> DEFINE f == [k \in 1..n |-> run[k]]
  <2>1. f \in Seq(Int) /\ Len(f) = n /\ DOMAIN f = 1..n
    BY <1>1, <1>3
  <2>2. IsInjective(f)
    <3> SUFFICES ASSUME NEW i \in 1..n, NEW j \in 1..n, run[i] = run[j], i # j PROVE FALSE
      BY <2>1 DEF IsInjective
    <3>1. i \in 1..n + 1 /\ j \in 1..n + 1 /\ (i < j \/ j < i)
      BY <1>1
    <3> QED
      BY <1>3, <1>4, <3>1
  <2>3. older = {f[k] : k \in DOMAIN f}
    BY <1>10, <2>1
  <2> HIDE DEF f, older
  <2> QED
    BY <2>1, <2>2, <2>3, SizeOfList
<1>12. current \in measured => last = current
  <2> SUFFICES ASSUME current \in measured PROVE last = current
    OBVIOUS
  <2>1. current \in Int /\ current <= last
    BY <1>3, <1>6, <1>9
  <2>2. last <= current
    BY <1>1, <1>3, <1>5, <2>1
  <2> QED
    BY <1>5, <2>1, <2>2
<1>13. ToSet(Baseline(h)) \subseteq older
  <2>1. \A k \in n - w + 1..n : k \in 1..n
    BY <1>1
  <2> HIDE DEF older
  <2> QED
    BY <1>8, <1>10, <2>1
<1>14. ASSUME NEW r \in ToSet(Baseline(h)), NEW s \in older \ ToSet(Baseline(h))
       PROVE  s < r
  <2>1. PICK k \in n - w + 1..n : r = run[k]
    BY <1>8
  <2>2. PICK l \in 1..n : s = run[l]
    BY <1>10
  <2>3. l \notin n - w + 1..n
    BY <1>8, <1>14, <2>2
  <2>4. l < k /\ l \in 1..n + 1 /\ k \in 1..n + 1
    BY <1>1, <2>3
  <2> QED
    BY <1>4, <2>1, <2>2, <2>4
<1>15. Len(Baseline(h)) = IF BaselineWindow = NoWindow \/ Cardinality(older) < BaselineWindow
                          THEN Cardinality(older) ELSE BaselineWindow
  BY <1>2, <1>11
<1> HIDE DEF older
<1>16. SoundComparison(Compare(h), measured)
  BY <1>7, <1>9, <1>12, <1>13, <1>14, <1>15 DEF SoundComparison, older
<1> QED
  BY <1>16 DEF measured

-------------------------------------------------------------------------------
(* The invariant is inductive.                                             *)

\* Nothing is analysed before the task runs are collected.
LEMMA InitIInv == Init => IInv
<1> SUFFICES ASSUME Init PROVE IInv
  OBVIOUS
<1>1. Typed
  <2>1. dependencies \in [Tasks -> SUBSET Tasks]
    BY GraphsAssumption DEF Init
  <2>2. taskRuns \in Seq(TaskRun) /\ phase \in Phases
    BY DEF Init, Phases
  <2> QED
    BY <2>1, <2>2 DEF Typed
<1> QED
  BY <1>1 DEF Init, IInv, TasksAnalyzed, HandoffsAnalyzed, Diagnosed, Newest

\* Another task run keeps the invariant, since nothing was made of them yet.
LEMMA CollectIInv == IInv /\ Collect => IInv'
<1> SUFFICES ASSUME IInv, Collect PROVE IInv'
  OBVIOUS
<1>1. Typed'
  BY DEF IInv, Typed, Collect
<1> QED
  BY <1>1 DEF Collect, IInv, TasksAnalyzed, HandoffsAnalyzed, Diagnosed, Newest

\* The histories are functions of the task runs and the graph.
LEMMA GivenKept ==
  ASSUME UNCHANGED given
  PROVE  /\ Edges' = Edges
         /\ \A t : DurationHistory(t)' = DurationHistory(t)
         /\ \A e : HandoffHistory(e)' = HandoffHistory(e)
         /\ Verdicts' = Verdicts
         /\ [t \in Tasks |-> DurationHistory(t)]' = [t \in Tasks |-> DurationHistory(t)]
         /\ [e \in Edges |-> HandoffHistory(e)]' = [e \in Edges |-> HandoffHistory(e)]
<1>1. taskRuns' = taskRuns /\ dependencies' = dependencies
  BY DEF given
<1>2. Edges' = Edges
  BY <1>1 DEF Edges
<1>3. Indices' = Indices
  BY <1>1 DEF Indices
<1>4. \A r, t : Of(r, t)' = Of(r, t)
  BY <1>1, <1>3 DEF Of
<1>5. \A r, t : Counted(r, t)' = Counted(r, t)
  BY <1>1, <1>4 DEF Counted
<1>6. \A t : DurationHistory(t)' = DurationHistory(t)
  BY <1>5 DEF DurationHistory, ByFirst
<1>7. RunsSeen' = RunsSeen
  BY <1>1, <1>3 DEF RunsSeen
<1>8. RunOrder' = RunOrder
  BY <1>1, <1>3, <1>7 DEF RunOrder, ByFirst
<1>9. \A S : Starts(S)' = Starts(S) /\ Ends(S)' = Ends(S)
  BY <1>1 DEF Starts, Ends
<1>10. \A r, e : Verdict(r, e)' = Verdict(r, e) /\ Delay(r, e)' = Delay(r, e)
  BY <1>4, <1>9 DEF Verdict, Delay
<1>11. \A e : HandoffHistory(e)' = HandoffHistory(e)
  BY <1>8, <1>10 DEF HandoffHistory
<1>12. Verdicts' = Verdicts
  BY <1>2, <1>7, <1>10 DEF Verdicts
<1> QED
  BY <1>2, <1>6, <1>11, <1>12

\* A stage makes its results of the task runs and keeps those of the other ones.
LEMMA AnalyzeTasksIInv == IInv /\ AnalyzeTasks => IInv'
<1> SUFFICES ASSUME IInv, AnalyzeTasks PROVE IInv'
  OBVIOUS
<1>1. UNCHANGED given /\ phase' = "tasks"
  BY DEF AnalyzeTasks
<1>2. Typed'
  BY <1>1 DEF IInv, Typed, given, Phases
<1>3. TasksAnalyzed'
  BY <1>1, GivenKept DEF AnalyzeTasks, TasksAnalyzed, Compared, Compare, Enough, Baseline
<1>4. Diagnosed'
  BY <1>1 DEF AnalyzeTasks, Diagnosed, TooShort, Enough
<1> QED
  BY <1>1, <1>2, <1>3, <1>4 DEF IInv, HandoffsAnalyzed, Newest

\* So does the stage of the dependencies.
LEMMA AnalyzeHandoffsIInv == IInv /\ AnalyzeHandoffs => IInv'
<1> SUFFICES ASSUME IInv, AnalyzeHandoffs PROVE IInv'
  OBVIOUS
<1>1. UNCHANGED given /\ UNCHANGED ofTasks /\ phase = "tasks" /\ phase' = "handoffs"
  BY DEF AnalyzeHandoffs
<1>2. Typed'
  BY <1>1 DEF IInv, Typed, given, Phases
<1>3. TasksAnalyzed'
  BY <1>1, GivenKept DEF IInv, TasksAnalyzed, ofTasks, Compared, Compare, Enough, Baseline
<1>4. HandoffsAnalyzed'
  BY <1>1, GivenKept DEF AnalyzeHandoffs, HandoffsAnalyzed, Compared, Compare, Enough, Baseline
<1>5. Diagnosed'
  BY <1>1 DEF IInv, AnalyzeHandoffs, Diagnosed, ofTasks, TooShort, Enough
<1> QED
  BY <1>1, <1>2, <1>3, <1>4, <1>5 DEF IInv, Newest

\* And the report, which only adds the current run.
LEMMA ReportIInv == IInv /\ Report => IInv'
<1> SUFFICES ASSUME IInv, Report PROVE IInv'
  OBVIOUS
<1>1. /\ UNCHANGED given /\ UNCHANGED ofTasks /\ UNCHANGED ofHandoffs
      /\ insufficient' = insufficient /\ phase = "handoffs" /\ phase' = "done"
  BY DEF Report
<1>2. Typed'
  BY <1>1 DEF IInv, Typed, given, Phases
<1>3. TasksAnalyzed'
  BY <1>1, GivenKept DEF IInv, TasksAnalyzed, ofTasks, Compared, Compare, Enough, Baseline
<1>4. HandoffsAnalyzed'
  BY <1>1, GivenKept
  DEF IInv, HandoffsAnalyzed, ofHandoffs, Compared, Compare, Enough, Baseline
<1>5. Diagnosed'
  BY <1>1 DEF IInv, Diagnosed, ofTasks, ofHandoffs, TooShort, Enough
<1>6. Newest'
  BY <1>1 DEF Report, Newest, given, Last
<1> QED
  BY <1>2, <1>3, <1>4, <1>5, <1>6 DEF IInv

\* A step in which nothing happens keeps the invariant.
LEMMA StutterIInv == IInv /\ UNCHANGED vars => IInv'
<1> SUFFICES ASSUME IInv, UNCHANGED vars PROVE IInv'
  OBVIOUS
<1>1. /\ UNCHANGED given /\ UNCHANGED ofTasks /\ UNCHANGED ofHandoffs
      /\ insufficient' = insufficient /\ phase' = phase /\ current' = current
  BY DEF vars
<1>2. Typed'
  BY <1>1 DEF IInv, Typed, given, Phases
<1>3. TasksAnalyzed'
  BY <1>1, GivenKept DEF IInv, TasksAnalyzed, ofTasks, Compared, Compare, Enough, Baseline
<1>4. HandoffsAnalyzed'
  BY <1>1, GivenKept
  DEF IInv, HandoffsAnalyzed, ofHandoffs, Compared, Compare, Enough, Baseline
<1>5. Diagnosed'
  BY <1>1 DEF IInv, Diagnosed, ofTasks, ofHandoffs, TooShort, Enough
<1>6. Newest'
  BY <1>1 DEF IInv, Newest, given, Last
<1> QED
  BY <1>2, <1>3, <1>4, <1>5, <1>6 DEF IInv

\* The invariant holds in every reachable state.
LEMMA AlwaysIInv == Spec => []IInv
<1>1. IInv /\ [Next]_vars => IInv'
  BY CollectIInv, AnalyzeTasksIInv, AnalyzeHandoffsIInv, ReportIInv, StutterIInv DEF Next
<1> QED
  BY <1>1, InitIInv, PTL DEF Spec

-------------------------------------------------------------------------------
(* The theorems.                                                           *)

\* A subject with a history is compared or found too short, not both; one without
\* is neither.
LEMMA ComparedOrShort ==
  ASSUME NEW history, NEW s \in DOMAIN history, NEW T, history[s] \in Seq(T)
  PROVE  /\ (s \in DOMAIN Compared(history) \/ s \in TooShort(history))
              <=> history[s] # <<>>
         /\ ~(s \in DOMAIN Compared(history) /\ s \in TooShort(history))
<1>1. s \in DOMAIN Compared(history) <=> Enough(history[s])
  BY DEF Compared
<1>2. Enough(history[s]) => history[s] # <<>>
  BY PolicyAssumption DEF Enough
<1> QED
  BY <1>1, <1>2 DEF TooShort

\* No task run is lost or counted twice on its way into the histories of the tasks
\* (build_duration_history, analyze_task_histories).
THEOREM DurationsAreAccounted == Spec => []DurationsAccounted
<1>1. IInv => DurationsAccounted
  <2> SUFFICES ASSUME IInv, Done, NEW t \in Tasks
      PROVE  LET timed == {i \in Indices : /\ taskRuns[i].task = t
                                           /\ taskRuns[i].shape.success
                                           /\ taskRuns[i].shape.timed}
                 seen == DOMAIN durations[t]
             IN  /\ \A i \in timed : \E k \in seen : i \in durations[t][k].from
                 /\ \A k, l \in seen :
                      \A i \in durations[t][k].from, j \in durations[t][l].from :
                        /\ {i, j} \subseteq timed
                        /\ taskRuns[i].run = taskRuns[j].run <=> k = l
                 /\ timed # {} <=> t \in DOMAIN drift \cup insufficient
                 /\ ~(t \in DOMAIN drift /\ t \in insufficient)
    BY DEF DurationsAccounted
  <2> DEFINE timed == {i \in Indices : /\ taskRuns[i].task = t
                                       /\ taskRuns[i].shape.success
                                       /\ taskRuns[i].shape.timed}
             h == durations[t]
  <2>1. /\ Typed /\ durations = [u \in Tasks |-> DurationHistory(u)]
        /\ drift = Compared(durations)
        /\ insufficient = TooShort(durations) \cup TooShort(delays)
        /\ DOMAIN delays = Edges
    BY DEF IInv, Done, TasksAnalyzed, HandoffsAnalyzed, Diagnosed
  <2>2. h = DurationHistory(t)
    BY <2>1
  <2>3. /\ h \in Seq([run : Runs, from : SUBSET Indices])
        /\ \A k \in DOMAIN h : h[k].from = Counted(h[k].run, t) /\ h[k].from # {}
        /\ \A r \in Runs : Counted(r, t) # {} => \E k \in DOMAIN h : h[k].run = r
        /\ \A i, j \in DOMAIN h : i < j => Earliest(h[i].from) < Earliest(h[j].from)
    BY <2>1, <2>2, DurationFacts
  <2> HIDE DEF h
  <2>4. \A r : \A i \in Counted(r, t) : i \in timed /\ taskRuns[i].run = r
    BY DEF Counted, Of
  <2>5. \A i \in timed : taskRuns[i].run \in Runs /\ i \in Counted(taskRuns[i].run, t)
    BY <2>1, TaskRunFacts DEF Counted, Of
  <2>6. \A i \in timed : \E k \in DOMAIN h : i \in h[k].from
    <3> SUFFICES ASSUME NEW i \in timed PROVE \E k \in DOMAIN h : i \in h[k].from
      OBVIOUS
    <3>1. taskRuns[i].run \in Runs /\ i \in Counted(taskRuns[i].run, t)
      BY <2>5
    <3>2. PICK k \in DOMAIN h : h[k].run = taskRuns[i].run
      BY <2>3, <3>1
    <3> QED
      BY <2>3, <3>1, <3>2
  <2>7. \A k \in DOMAIN h : \A i \in h[k].from : i \in timed /\ taskRuns[i].run = h[k].run
    BY <2>3, <2>4
  <2>8. ASSUME NEW k \in DOMAIN h, NEW l \in DOMAIN h, h[k].run = h[l].run
        PROVE  k = l
    <3> SUFFICES ASSUME k # l PROVE FALSE
      OBVIOUS
    <3>1. k < l \/ l < k
      BY <2>3
    <3>2. h[k].from = h[l].from
      BY <2>3, <2>8
    <3>3. Earliest(h[k].from) < Earliest(h[k].from)
      BY <2>3, <3>1, <3>2
    <3>4. h[k].from \in SUBSET Int /\ IsFiniteSet(h[k].from) /\ h[k].from # {}
      <4>1. h[k].from \subseteq timed
        BY <2>7
      <4>2. timed \subseteq Indices
        OBVIOUS
      <4> QED
        BY <2>1, <2>3, <4>1, <4>2, TaskRunFacts, FS_Subset
    <3>5. Earliest(h[k].from) \in Int
      BY <3>4, EarliestFacts
    <3> QED
      BY <3>3, <3>5
  <2>9. timed # {} <=> h # <<>>
    <3>1. timed # {} => h # <<>>
      BY <2>6
    <3>2. h # <<>> => 1 \in DOMAIN h
      BY <2>3
    <3>3. 1 \in DOMAIN h => timed # {}
      BY <2>3, <2>7
    <3> QED
      BY <3>1, <3>2, <3>3
  <2>10. t \notin TooShort(delays)
    <3>1. Edges \subseteq Tasks \X Tasks
      BY DEF Edges
    <3> QED
      BY <2>1, <3>1, TasksAssumption DEF TooShort
  <2>11. t \in DOMAIN durations /\ durations[t] = h
    BY <2>1 DEF h
  <2>12. /\ timed # {} <=> t \in DOMAIN drift \cup insufficient
         /\ ~(t \in DOMAIN drift /\ t \in insufficient)
    <3>1. /\ (t \in DOMAIN Compared(durations) \/ t \in TooShort(durations)) <=> h # <<>>
          /\ ~(t \in DOMAIN Compared(durations) /\ t \in TooShort(durations))
      BY <2>3, <2>11, ComparedOrShort
    <3> HIDE DEF timed
    <3> QED
      BY <2>1, <2>9, <2>10, <3>1
  <2>13. \A k, l \in DOMAIN h : \A i \in h[k].from, j \in h[l].from :
           {i, j} \subseteq timed /\ (taskRuns[i].run = taskRuns[j].run <=> k = l)
    BY <2>7, <2>8
  <2> QED
    BY <2>6, <2>11, <2>12, <2>13 DEF h
<1> QED
  BY <1>1, AlwaysIInv, PTL

\* Every dependency is accounted for in every run: by one measured delay, which is
\* the tightest of all pairs of mapped instances, or by one diagnostic
\* (build_handoff_history_with_diagnostics).
THEOREM HandoffsAreAccounted == Spec => []HandoffsAccounted
<1>1. IInv => HandoffsAccounted
  <2> SUFFICES ASSUME IInv, Done, NEW e \in Edges, NEW r \in Runs
      PROVE  LET up == {i \in Indices : taskRuns[i].run = r /\ taskRuns[i].task = e[1]}
                 down == {i \in Indices : taskRuns[i].run = r /\ taskRuns[i].task = e[2]}
                 gap(i, j) == taskRuns[j].shape.start - taskRuns[i].shape.end
                 found == {k \in DOMAIN delays[e] : delays[e][k].run = r}
                 reasons == {d \in diagnostics : d.edge = e /\ d.run = r}
                 whole == /\ up # {} /\ \A i \in up : taskRuns[i].shape.end # None
                          /\ down # {} /\ \A j \in down : taskRuns[j].shape.start # None
             IN  /\ Cardinality(found) + Cardinality(reasons)
                       = IF r \in RunsSeen THEN 1 ELSE 0
                 /\ (found # {}) = whole
                 /\ \A k \in found :
                      /\ \A i \in up, j \in down : delays[e][k].delay <= gap(i, j)
                      /\ \E i \in up, j \in down : delays[e][k].delay = gap(i, j)
    BY DEF HandoffsAccounted
  <2> DEFINE up == Of(r, e[1])
             down == Of(r, e[2])
             gap(i, j) == taskRuns[j].shape.start - taskRuns[i].shape.end
             h == delays[e]
             found == {k \in DOMAIN h : h[k].run = r}
             reasons == {d \in diagnostics : d.edge = e /\ d.run = r}
             whole == /\ up # {} /\ \A i \in up : taskRuns[i].shape.end # None
                      /\ down # {} /\ \A j \in down : taskRuns[j].shape.start # None
  <2>1. /\ Typed /\ delays = [d \in Edges |-> HandoffHistory(d)]
        /\ diagnostics = {v \in Verdicts : v.code # "measured"}
    BY DEF IInv, Done, HandoffsAnalyzed
  <2>2. h = HandoffHistory(e)
    BY <2>1
  <2>3. /\ h \in Seq([run : Runs, delay : Int])
        /\ \A k \in DOMAIN h : /\ h[k].run \in RunsSeen
                               /\ Verdict(h[k].run, e) = "measured"
                               /\ h[k].delay = Delay(h[k].run, e)
        /\ \A s \in RunsSeen : Verdict(s, e) = "measured" =>
             \E k \in DOMAIN h : h[k].run = s
        /\ \A i, j \in DOMAIN h : i < j =>
             Earliest(InRun(h[i].run)) < Earliest(InRun(h[j].run))
    BY <2>1, <2>2, HandoffFacts
  <2>4. /\ up = {i \in Indices : taskRuns[i].run = r /\ taskRuns[i].task = e[1]}
        /\ down = {i \in Indices : taskRuns[i].run = r /\ taskRuns[i].task = e[2]}
    BY DEF Of
  <2> HIDE DEF h
  <2>5. (Verdict(r, e) = "measured") <=> whole
    BY <2>1, VerdictFacts
  <2>6. Verdict(r, e) = "measured" => r \in RunsSeen
    BY <2>1, <2>5, OfFacts
  <2>7. found # {} <=> Verdict(r, e) = "measured"
    BY <2>3, <2>6
  <2>8. ASSUME NEW k \in DOMAIN h, NEW l \in DOMAIN h, h[k].run = r, h[l].run = r
        PROVE  k = l
    <3> SUFFICES ASSUME k # l PROVE FALSE
      OBVIOUS
    <3>1. k < l \/ l < k
      BY <2>3
    <3>2. Earliest(InRun(r)) < Earliest(InRun(r))
      BY <2>3, <2>8, <3>1
    <3>3. Earliest(InRun(r)) \in Int
      BY <2>1, <2>3, <2>8, RunOrderFacts, TaskRunFacts DEF InRun
    <3> QED
      BY <3>2, <3>3
  <2>9. Cardinality(found) = IF Verdict(r, e) = "measured" THEN 1 ELSE 0
    <3>1. CASE Verdict(r, e) = "measured"
      <4>1. PICK k \in DOMAIN h : h[k].run = r
        BY <2>7, <3>1
      <4>2. found = {k}
        BY <2>8, <4>1
      <4> QED
        BY <3>1, <4>2, FS_Singleton
    <3>2. CASE Verdict(r, e) # "measured"
      BY <2>7, <3>2, FS_EmptySet
    <3> QED
      BY <3>1, <3>2
  <2>10. \A d : d \in reasons <=>
           /\ r \in RunsSeen /\ Verdict(r, e) # "measured"
           /\ d = [code |-> Verdict(r, e), edge |-> e, run |-> r]
    BY <2>1 DEF Verdicts
  <2>11. Cardinality(reasons) =
           IF r \in RunsSeen /\ Verdict(r, e) # "measured" THEN 1 ELSE 0
    <3>1. CASE r \in RunsSeen /\ Verdict(r, e) # "measured"
      <4>1. reasons = {[code |-> Verdict(r, e), edge |-> e, run |-> r]}
        BY <2>10, <3>1
      <4> HIDE DEF reasons
      <4> QED
        BY <3>1, <4>1, FS_Singleton
    <3>2. CASE ~(r \in RunsSeen /\ Verdict(r, e) # "measured")
      <4>1. reasons = {}
        BY <2>10, <3>2
      <4> HIDE DEF reasons
      <4> QED
        BY <3>2, <4>1, FS_EmptySet
    <3> QED
      BY <3>1, <3>2
  <2> HIDE DEF found, reasons, whole
  <2>12. Cardinality(found) + Cardinality(reasons) = IF r \in RunsSeen THEN 1 ELSE 0
    BY <2>6, <2>9, <2>11
  <2>13. (found # {}) = whole
    BY <2>5, <2>7
  <2>14. \A k \in found : /\ \A i \in up, j \in down : h[k].delay <= gap(i, j)
                          /\ \E i \in up, j \in down : h[k].delay = gap(i, j)
    <3> SUFFICES ASSUME NEW k \in found
                 PROVE  /\ \A i \in up, j \in down : h[k].delay <= gap(i, j)
                        /\ \E i \in up, j \in down : h[k].delay = gap(i, j)
      OBVIOUS
    <3>1. h[k].delay = Delay(r, e) /\ Verdict(r, e) = "measured"
      BY <2>3 DEF found
    <3> QED
      BY <2>1, <3>1, DelayFacts
  <2> HIDE DEF up, down
  <2> QED
    BY <2>4, <2>12, <2>13, <2>14 DEF h, found, reasons, whole
<1> QED
  BY <1>1, AlwaysIInv, PTL

\* What comes first was run first, if the task runs come oldest to newest.
LEMMA OrderFacts ==
  ASSUME Typed, OldestToNewest, NEW i \in Indices, NEW j \in Indices, i < j,
         taskRuns[i].run # taskRuns[j].run
  PROVE  taskRuns[i].run < taskRuns[j].run
<1>1. taskRuns[i].run <= taskRuns[j].run
  BY DEF OldestToNewest
<1>2. taskRuns[i].run \in Int /\ taskRuns[j].run \in Int
  BY TaskRunFacts, RunsFacts
<1> QED
  BY <1>1, <1>2

\* The reported current run is then the newest one seen.
LEMMA CurrentFacts ==
  ASSUME IInv, Done, OldestToNewest, NEW r \in RunsSeen
  PROVE  current \in RunsSeen /\ r <= current
<1>1. /\ Typed /\ Len(taskRuns) \in Nat /\ Indices = 1..Len(taskRuns)
      /\ \A i \in Indices : taskRuns[i].run \in Runs
  BY TaskRunFacts DEF IInv
<1>2. PICK i \in Indices : taskRuns[i].run = r
  BY DEF RunsSeen
<1>3. Len(taskRuns) \in Indices /\ i <= Len(taskRuns) /\ taskRuns # <<>>
  BY <1>1, <1>2
<1>4. current = taskRuns[Len(taskRuns)].run
  BY <1>3 DEF IInv, Done, Newest, Last
<1>5. r <= taskRuns[Len(taskRuns)].run
  <2>1. CASE i = Len(taskRuns)
    <3>1. r \in Int
      BY <1>1, <1>2, RunsFacts
    <3> QED
      BY <1>2, <2>1, <3>1
  <2>2. CASE i < Len(taskRuns)
    BY <1>2, <1>3, <2>2 DEF OldestToNewest
  <2> QED
    BY <1>1, <1>3, <2>1, <2>2
<1> QED
  BY <1>3, <1>4, <1>5 DEF RunsSeen

\* With a source that keeps its promise of an order, every comparison is of the
\* newest observation with those just before it, for tasks and for dependencies
\* (calculate_drift, DAGDataSource).
THEOREM ComparedWithOlder == Spec => []ComparesWithOlder
<1>1. IInv => ComparesWithOlder
  <2> SUFFICES ASSUME IInv, Done, OldestToNewest
      PROVE  /\ \A t \in DOMAIN drift :
                  SoundComparison(drift[t], {durations[t][k].run : k \in DOMAIN durations[t]})
             /\ \A e \in DOMAIN handoffDrift :
                  SoundComparison(handoffDrift[e], {delays[e][k].run : k \in DOMAIN delays[e]})
    BY DEF ComparesWithOlder
  <2>1. /\ Typed /\ durations = [u \in Tasks |-> DurationHistory(u)]
        /\ drift = Compared(durations)
        /\ delays = [d \in Edges |-> HandoffHistory(d)]
        /\ handoffDrift = Compared(delays)
    BY DEF IInv, Done, TasksAnalyzed, HandoffsAnalyzed
  <2>2. ASSUME NEW t \in DOMAIN drift
        PROVE  SoundComparison(drift[t], {durations[t][k].run : k \in DOMAIN durations[t]})
    <3> DEFINE h == durations[t]
    <3>1. t \in Tasks /\ Enough(h) /\ drift[t] = Compare(h) /\ h = DurationHistory(t)
      BY <2>1 DEF Compared
    <3>2. /\ h \in Seq([run : Runs, from : SUBSET Indices])
          /\ \A k \in DOMAIN h : h[k].from = Counted(h[k].run, t) /\ h[k].from # {}
          /\ \A i, j \in DOMAIN h : i < j => Earliest(h[i].from) < Earliest(h[j].from)
      BY <2>1, <3>1, DurationFacts
    <3> HIDE DEF h
    <3>3. \A k \in DOMAIN h : h[k].run \in Int
      <4> DEFINE Observations == [run : Runs, from : SUBSET Indices]
      <4>1. \A o \in Observations : o.run \in Int
        BY RunsFacts
      <4>2. h \in Seq(Observations)
        BY <3>2
      <4> HIDE DEF Observations
      <4> QED
        BY <4>1, <4>2
    <3>4. \A k \in DOMAIN h : \A i \in h[k].from : i \in Indices /\ taskRuns[i].run = h[k].run
      BY <3>2 DEF Counted, Of
    <3>5. \A k \in DOMAIN h : Earliest(h[k].from) \in h[k].from
      <4>1. \A k \in DOMAIN h : h[k].from \subseteq Indices
        BY <3>4
      <4>2. \A k \in DOMAIN h : h[k].from \in SUBSET Int /\ IsFiniteSet(h[k].from)
        BY <2>1, <4>1, TaskRunFacts, FS_Subset
      <4> QED
        BY <3>2, <4>2, EarliestFacts
    <3>6. \A k \in DOMAIN h : h[k].run \in RunsSeen
      BY <3>4, <3>5 DEF RunsSeen
    <3>7. Ascends(h)
      <4> SUFFICES ASSUME NEW i \in DOMAIN h, NEW j \in DOMAIN h, i < j
                   PROVE  h[i].run < h[j].run
        BY DEF Ascends
      <4>1. /\ Earliest(h[i].from) \in Indices /\ taskRuns[Earliest(h[i].from)].run = h[i].run
            /\ Earliest(h[j].from) \in Indices /\ taskRuns[Earliest(h[j].from)].run = h[j].run
            /\ Earliest(h[i].from) < Earliest(h[j].from)
        BY <3>2, <3>4, <3>5
      <4>2. h[i].run # h[j].run
        <5>1. Earliest(h[i].from) \in Int
          BY <2>1, <4>1, TaskRunFacts
        <5>2. h[i].from # h[j].from
          BY <4>1, <5>1
        <5> QED
          BY <3>2, <5>2
      <4> QED
        BY <2>1, <4>1, <4>2, OrderFacts
    <3>8. \A k \in DOMAIN h : h[k].run <= current
      BY <3>6, CurrentFacts
    <3>9. SoundComparison(Compare(h), {h[k].run : k \in DOMAIN h})
      BY <3>1, <3>2, <3>3, <3>7, <3>8, ComparisonFacts
    <3> QED
      BY <3>1, <3>9 DEF h
  <2>3. ASSUME NEW e \in DOMAIN handoffDrift
        PROVE  SoundComparison(handoffDrift[e], {delays[e][k].run : k \in DOMAIN delays[e]})
    <3> DEFINE h == delays[e]
    <3>1. e \in Edges /\ Enough(h) /\ handoffDrift[e] = Compare(h) /\ h = HandoffHistory(e)
      BY <2>1 DEF Compared
    <3>2. /\ h \in Seq([run : Runs, delay : Int])
          /\ \A k \in DOMAIN h : h[k].run \in RunsSeen
          /\ \A i, j \in DOMAIN h : i < j =>
               Earliest(InRun(h[i].run)) < Earliest(InRun(h[j].run))
      BY <2>1, <3>1, HandoffFacts
    <3> HIDE DEF h
    <3>3. \A k \in DOMAIN h : h[k].run \in Int
      <4>1. \A r \in RunsSeen : r \in Int
        BY <2>1, TaskRunFacts, RunsFacts DEF RunsSeen
      <4> QED
        BY <3>2, <4>1
    <3>4. \A k \in DOMAIN h : /\ Earliest(InRun(h[k].run)) \in Indices
                              /\ taskRuns[Earliest(InRun(h[k].run))].run = h[k].run
      BY <2>1, <3>2, RunOrderFacts DEF InRun
    <3>5. Ascends(h)
      <4> SUFFICES ASSUME NEW i \in DOMAIN h, NEW j \in DOMAIN h, i < j
                   PROVE  h[i].run < h[j].run
        BY DEF Ascends
      <4>1. Earliest(InRun(h[i].run)) < Earliest(InRun(h[j].run))
        BY <3>2
      <4>2. h[i].run # h[j].run
        <5>1. Earliest(InRun(h[i].run)) \in Int
          BY <2>1, <3>4, TaskRunFacts
        <5> QED
          BY <4>1, <5>1
      <4> QED
        BY <2>1, <3>4, <4>1, <4>2, OrderFacts
    <3>6. \A k \in DOMAIN h : h[k].run <= current
      BY <3>2, CurrentFacts
    <3>7. SoundComparison(Compare(h), {h[k].run : k \in DOMAIN h})
      BY <3>1, <3>2, <3>3, <3>5, <3>6, ComparisonFacts
    <3> QED
      BY <3>1, <3>7 DEF h
  <2> QED
    BY <2>2, <2>3
<1> QED
  BY <1>1, AlwaysIInv, PTL
===============================================================================
