---------------------------- MODULE OriginAnalysis ----------------------------
(***************************************************************************)
(* From drifts to a cause: the part of DefaultDAGAnalysisEngine.analyze    *)
(* that classifies each drifting task, follows drifts along the DAG's      *)
(* dependencies, and selects the primary origin.  The algorithms are       *)
(* recursive functions as in the code; the properties compare what they    *)
(* return with what the words of the domain mean.                          *)
(*                                                                         *)
(* A severity is its score; NoDrift marks a task or a handoff without a    *)
(* drift result (too little history), for each of them is judged by its    *)
(* own history.  Scores of paths are exact fractions.  The code            *)
(* computes them in floating point, where equal scores of paths with four  *)
(* or more affected tasks may differ in the last digit; up to three, the   *)
(* longest in the runs, they compare alike.                                *)
(***************************************************************************)
EXTENDS Integers, FiniteSets, SequencesExt, Orderings

CONSTANTS Tasks,        \* task ids, numbered in alphabetical order
          Graphs,       \* dependency graphs to consider: task -> downstream tasks
          HandoffTables \* severities the handoffs may have: of every pair of tasks the
                        \* one it has if it is a dependency

ASSUME TasksAssumption == Tasks \subseteq Nat /\ IsFiniteSet(Tasks)
ASSUME GraphsAssumption == Graphs \subseteq [Tasks -> SUBSET Tasks]
ASSUME HandoffTablesAssumption == HandoffTables \subseteq [Tasks \X Tasks -> -1..3]

\* Airflow refuses a DAG with a cycle: the tasks can be numbered along the edges.
ASSUME AcyclicAssumption ==
  \A g \in Graphs : \E number \in [Tasks -> 1..Cardinality(Tasks)] :
    \A t \in Tasks : \A n \in g[t] : number[t] < number[n]

NoDrift == -1
Normal == 0
Medium == 1
High == 2
Critical == 3
Severities == Normal..Critical

Strong == {High, Critical}

VARIABLES dependencies, \* task -> downstream tasks
          drift,        \* drift_results: severity of each task, or NoDrift
          handoff,      \* handoff_drift_results: severity of each edge, or NoDrift
          phase,        \* drifted, classified, propagated, selected
          impact,       \* task_impacts: classification of each drifting task
          propagation,  \* propagation_results: the paths, origin first
          primary       \* primary_origin, NoTask if there is none

originVars == <<dependencies, drift, handoff, phase, impact, propagation, primary>>
given == <<dependencies, drift, handoff>>

NoTask == -1

Edges == {e \in Tasks \X Tasks : e[2] \in dependencies[e[1]]}

OriginInit == /\ dependencies \in Graphs
              /\ drift \in [Tasks -> Severities \cup {NoDrift}]
              /\ \E table \in HandoffTables : handoff = [e \in Edges |-> table[e]]
              /\ phase = "drifted"
              /\ impact = [t \in Tasks |-> "unknown"]
              /\ propagation = {}
              /\ primary = NoTask

\* A task whose drift lets delays pass on: it has a result, and not NORMAL.
Drifting(t) == drift[t] > Normal

Drifted == {t \in Tasks : drift[t] # NoDrift}

\* The keys of handoff_drift_results.
DriftedEdges == {e \in Edges : handoff[e] # NoDrift}

Upstream(t) == {u \in Tasks : t \in dependencies[u]}

-------------------------------------------------------------------------------
(* impact.py, classify_task_impacts.                                       *)

AnomalousHandoffs(t) == {e \in Edges : e[2] = t /\ handoff[e] >= Medium}

Classification(t) ==
  LET late == AnomalousHandoffs(t) # {}
  IN  CASE Drifting(t) /\ late   -> "COMBINED"
        [] Drifting(t) /\ ~late  -> "OWN_DRIFT"
        [] ~Drifting(t) /\ late  -> "INHERITED_DELAY"
        [] ~Drifting(t) /\ ~late -> "NORMAL"

Classify == /\ phase = "drifted"
            /\ impact' = [t \in Tasks |-> IF t \in Drifted THEN Classification(t)
                                          ELSE "unknown"]
            /\ phase' = "classified"
            /\ UNCHANGED <<given, propagation, primary>>

-------------------------------------------------------------------------------
(* propagation.py.                                                         *)

\* Mutant of HasAnomalousUpstream: only the direct upstream tasks are looked at.
HasStrongParent(t) == \E u \in Upstream(t) : drift[u] \in Strong

\* A strongly drifting task lies upstream, and only drifting tasks in between.
\* The tasks from which the code's recursion, called with these visited, finds it.
HasAnomalousUpstream(t) ==
  LET found[visited \in SUBSET Tasks] ==
        {s \in Tasks \ visited :
           \E u \in Upstream(s) :
             /\ Drifting(u)
             /\ drift[u] \in Strong \/ u \in found[visited \cup {s}]}
  IN  t \in found[{}]

\* Mutant of PathsFrom: a path ends after one hop.
ShortPathsFrom(origin) == {<<origin, n>> : n \in {m \in dependencies[origin] :
                                                  Drifting(m)}}

\* Paths of drifting tasks from the origin, each followed until no drifting task
\* is left to go to.
PathsFrom(origin) ==
  LET paths[visited \in SUBSET Tasks] ==
        [t \in Tasks |->
           UNION {LET further == paths[visited \cup {n}][n]
                  IN  IF further = {} THEN {<<n>>} ELSE {<<n>> \o p : p \in further}
                  : n \in {m \in dependencies[t] \ visited : Drifting(m)}}]
  IN  {<<origin>> \o p : p \in paths[{origin}][origin]}

Origins == {t \in Tasks : drift[t] \in Strong /\ ~HasAnomalousUpstream(t)}

Propagate == /\ phase = "classified"
             /\ propagation' = UNION {PathsFrom(o) : o \in Origins}
             /\ phase' = "propagated"
             /\ UNCHANGED <<given, impact, primary>>

\* The mean severity of the affected tasks, each hop weighing 4/5 of the one
\* before, as a fraction of the highest severity.  The loop's sums after k hops are
\* kept as whole numbers, multiplied by 5^(k - 1).
Score(path) ==
  LET sums[k \in 0..Len(path) - 1] ==
        IF k = 0 THEN [num |-> 0, den |-> 0, weight |-> 1]
        ELSE LET s == sums[k - 1]
             IN  [num |-> 5 * s.num + s.weight * drift[path[k + 1]],
                  den |-> 5 * s.den + s.weight * Critical,
                  weight |-> 4 * s.weight]
      total == sums[Len(path) - 1]
  IN  [num |-> total.num, den |-> total.den]

ZeroScore == [num |-> 0, den |-> 1]

-------------------------------------------------------------------------------
(* root_cause.py.                                                          *)

Candidates == {t \in Tasks : impact[t] \in {"OWN_DRIFT", "COMBINED"}}

\* visited is shared by the whole search in the code: it only saves work, for a
\* task searched once without success is not worth a second search.
HasCandidateUpstream(t) ==
  LET found[visited \in SUBSET Tasks] ==
        {s \in Tasks \ visited :
           \E u \in Upstream(s) :
             /\ Drifting(u)
             /\ u \in Candidates \/ u \in found[visited \cup {s}]}
  IN  t \in found[{}]

RootCandidates ==
  LET roots == {t \in Candidates : ~HasCandidateUpstream(t)}
  IN  IF roots = {} THEN Candidates ELSE roots

\* The best score of the paths that start at t.
OriginScore(t) ==
  LET scores == {Score(p) : p \in {q \in propagation : q[1] = t}} \cup {ZeroScore}
  IN  CHOOSE s \in scores : \A r \in scores : AtLeast(s, r)

\* Mutant of RanksAtLeast: severity goes before propagation.
RanksBySeverity(s, t) ==
  \/ drift[s] > drift[t]
  \/ drift[s] = drift[t] /\ AtLeast(OriginScore(s), OriginScore(t))

\* ranking(s) >= ranking(t): propagation first, then severity.
RanksAtLeast(s, t) ==
  /\ AtLeast(OriginScore(s), OriginScore(t))
  /\ AtLeast(OriginScore(t), OriginScore(s)) => drift[s] >= drift[t]

\* max(sorted(...), key=ranking): the first of the highest ranked.
Best(set) ==
  LET top == {s \in set : \A t \in set : RanksAtLeast(s, t)}
  IN  CHOOSE s \in top : \A t \in top : s <= t

Select == /\ phase = "propagated"
          /\ primary' = IF Candidates = {} THEN NoTask ELSE Best(RootCandidates)
          /\ phase' = "selected"
          /\ UNCHANGED <<given, impact, propagation>>

OriginNext == Classify \/ Propagate \/ Select

-------------------------------------------------------------------------------
(* Properties.                                                             *)

\* Reference: the tasks a strong drift reaches over drifting tasks only, as the
\* least set closed under one more hop.
Delayed ==
  LET closed(set) == \A t \in Tasks :
        (\E u \in Upstream(t) : Drifting(u) /\ (drift[u] \in Strong \/ u \in set))
          => t \in set
  IN  {t \in Tasks : \A set \in SUBSET Tasks : closed(set) => t \in set}

\* The paths are there; Select does not touch them.
Computed == phase = "propagated"

\* The origins of propagation are the strongly drifting tasks that no strongly
\* drifting task explains, however far upstream; every other one is explained by
\* one of them, and lies on one of its paths.
OriginsExplainDrift ==
  Computed =>
    LET delayed == Delayed
    IN  /\ \A p \in propagation : drift[p[1]] \in Strong /\ p[1] \notin delayed
        /\ \A t \in delayed : drift[t] \in Strong =>
             \E p \in propagation : t \in ToSet(Tail(p))

\* The paths are exactly the ways the delay can take: along dependencies, through
\* drifting tasks, never twice through one, not stopping before the end, and
\* leaving out no branch.
PathsAreComplete ==
  Computed =>
    \A p \in propagation :
      /\ IsInjective(p)
      /\ \A i \in 1..Len(p) - 1 : p[i + 1] \in dependencies[p[i]]
      /\ \A i \in 1..Len(p) : Drifting(p[i])
      /\ \A n \in dependencies[Last(p)] : Drifting(n) => n \in ToSet(p)
      /\ \A i \in 1..Len(p) : \A n \in dependencies[p[i]] :
           Drifting(n) /\ n \notin ToSet(SubSeq(p, 1, i))
             => \E q \in propagation : IsPrefix(SubSeq(p, 1, i) \o <<n>>, q)

\* A primary origin is named exactly when some task drifts by itself.  It is one
\* that no drifting task feeds, and no such task spreads its drift further or,
\* equally far, drifts more; of equals, the first in the alphabet.
PrimaryIsBestRoot ==
  phase = "selected" =>
    LET roots == {t \in Tasks : Drifting(t) /\ \A u \in Upstream(t) : ~Drifting(u)}
    IN  /\ (primary = NoTask) = (\A t \in Tasks : ~Drifting(t))
        /\ primary # NoTask =>
             /\ primary \in roots
             /\ \A t \in roots :
                  LET sp == OriginScore(primary)
                      st == OriginScore(t)
                  IN  /\ AtLeast(sp, st)
                      /\ AtLeast(st, sp) =>
                           \/ drift[primary] > drift[t]
                           \/ drift[primary] = drift[t] /\ primary <= t
===============================================================================
