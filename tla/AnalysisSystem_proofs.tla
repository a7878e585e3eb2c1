------------------------ MODULE AnalysisSystem_proofs -------------------------
(***************************************************************************)
(* Proofs about RunCollection and AnalysisSystem, for any number of runs,  *)
(* any timestamps, any history limit and any number of changes that        *)
(* Airflow makes meanwhile.  The first part is about the collection alone: *)
(* the engine sees runs of the window only, and the window is the newest   *)
(* history there is.  The second part follows the task runs through the    *)
(* engine: the histories are complete while Airflow stands still, and what *)
(* is fetched run by run is compared in the order of time.                 *)
(***************************************************************************)
EXTENDS AnalysisSystem, Orderings_proofs, SequenceTheorems

USE DEF NoBatch

States == {"success", "unfinished", "gone"}
Phases == {"list", "fetch", "runByRun", "done", "notFound", "failed"}

Typed ==
  /\ server \in Servers
  /\ stamp \in [Runs -> Nat]
  /\ state \in [Runs -> States]
  /\ completed \in [Runs -> SUBSET Tasks]
  /\ target \in Runs \cup {NoTarget}
  /\ phase \in Phases
  /\ selected \in Seq(Runs)
  /\ pending \in Seq(Runs)
  /\ collected \in Seq(Runs \X Tasks)
  /\ changes \in Nat

\* Nothing is selected before the runs are listed, nor for a target that is missing.
Empty == phase \in {"list", "notFound"} => selected = <<>>

\* What is fetched is of the window, and the window is no longer than the limit.
InLimit ==
  /\ Len(selected) <= HistoryLimit
  /\ ToSet(pending) \subseteq ToSet(selected)
  /\ Observed \subseteq ToSet(selected)

\* The window ends at the target.
UpToTarget ==
  \A r \in ToSet(selected) :
     target # NoTarget => target \in ToSet(selected) /\ stamp[r] <= stamp[target]

\* No eligible run that is newer than a chosen one is left out, and none at all
\* unless the window is full.
NewestHistory(chosen) ==
  /\ chosen \subseteq Eligible
  /\ \A r \in chosen, s \in Eligible \ chosen : stamp[s] <= stamp[r]
  /\ chosen # Eligible => Cardinality(chosen) = HistoryLimit

\* While Airflow stands still, the window is the newest history there is.
Newest ==
  Stable /\ phase \in {"fetch", "runByRun", "done"} => NewestHistory(ToSet(selected))

\* A target is reported missing for a reason.
Missing == phase = "notFound" => target \notin Successful \/ torn = "skip"

IInv == Typed /\ Empty /\ InLimit /\ UpToTarget /\ Newest /\ Missing

-------------------------------------------------------------------------------
(* Lemmas about the operators.                                             *)

\* The elements of a sequence.
LEMMA ToSetFacts ==
  ASSUME NEW S, NEW s \in Seq(S)
  PROVE  /\ ToSet(s) \subseteq S
         /\ \A x : x \in ToSet(s) <=> \E k \in 1..Len(s) : s[k] = x
         /\ Len(s) \in Nat
         /\ \A k \in 1..Len(s) : s[k] \in S
BY DEF ToSet

\* Two sequences, one after the other.
LEMMA JoinedFacts ==
  ASSUME NEW S, NEW s \in Seq(S), NEW t \in Seq(S)
  PROVE  s \o t \in Seq(S) /\ ToSet(s \o t) = ToSet(s) \cup ToSet(t)
<1>1. /\ s \o t \in Seq(S) /\ Len(s \o t) = Len(s) + Len(t)
      /\ Len(s) \in Nat /\ Len(t) \in Nat
      /\ \A i \in 1..Len(s) + Len(t) :
           (s \o t)[i] = IF i <= Len(s) THEN s[i] ELSE t[i - Len(s)]
  BY ConcatProperties
<1> DEFINE u == s \o t
<1> HIDE DEF u
<1>2. ASSUME NEW i \in 1..Len(u) PROVE u[i] \in ToSet(s) \cup ToSet(t)
  <2>1. CASE i <= Len(s)
    <3>1. i \in 1..Len(s) /\ u[i] = s[i]
      BY <1>1, <2>1 DEF u
    <3> QED
      BY <3>1, ToSetFacts
  <2>2. CASE i > Len(s)
    <3>1. i - Len(s) \in 1..Len(t) /\ u[i] = t[i - Len(s)]
      BY <1>1, <2>2 DEF u
    <3> QED
      BY <3>1, ToSetFacts
  <2> QED
    BY <1>1, <2>1, <2>2
<1>3. ASSUME NEW i \in 1..Len(s) PROVE s[i] \in ToSet(u)
  <2>1. i \in 1..Len(u) /\ u[i] = s[i]
    BY <1>1 DEF u
  <2> QED
    BY <1>1, <2>1, ToSetFacts DEF u
<1>4. ASSUME NEW i \in 1..Len(t) PROVE t[i] \in ToSet(u)
  <2>1. i + Len(s) \in 1..Len(u) /\ u[i + Len(s)] = t[i]
    <3>1. i + Len(s) \in 1..Len(s) + Len(t) /\ ~(i + Len(s) <= Len(s))
           /\ (i + Len(s)) - Len(s) = i
      BY <1>1
    <3> QED
      BY <1>1, <3>1 DEF u
  <2> QED
    BY <1>1, <2>1, ToSetFacts DEF u
<1>5. ToSet(u) = ToSet(s) \cup ToSet(t)
  <2>1. /\ \A x : x \in ToSet(u) <=> \E k \in 1..Len(u) : u[k] = x
        /\ \A x : x \in ToSet(s) <=> \E k \in 1..Len(s) : s[k] = x
        /\ \A x : x \in ToSet(t) <=> \E k \in 1..Len(t) : t[k] = x
    BY <1>1, ToSetFacts DEF u
  <2>2. ToSet(u) \subseteq ToSet(s) \cup ToSet(t)
    BY <1>2, <2>1
  <2>3. ToSet(s) \subseteq ToSet(u) /\ ToSet(t) \subseteq ToSet(u)
    BY <1>3, <1>4, <2>1
  <2> QED
    BY <2>2, <2>3
<1> QED
  BY <1>1, <1>5 DEF u

\* The sorted list has the runs of the list, by timestamp, and those of equal
\* timestamp as they were.
LEMMA SortedFacts ==
  ASSUME stamp \in [Runs -> Nat], NEW list \in Seq(Runs)
  PROVE  LET s == ByTimestamp(list)
         IN  /\ s \in Seq(Runs) /\ Len(s) = Len(list)
             /\ ToSet(s) = ToSet(list)
             /\ \A i, j \in 1..Len(s) : i < j => stamp[s[i]] <= stamp[s[j]]
             /\ (\A i, j \in 1..Len(list) : i < j => list[i] < list[j]) =>
                  \A i, j \in 1..Len(s) : i < j =>
                     \/ stamp[s[i]] < stamp[s[j]]
                     \/ stamp[s[i]] = stamp[s[j]] /\ s[i] < s[j]
<1> DEFINE s == ByTimestamp(list)
           n == Len(list)
<1>1. stamp \in [Runs -> Int]
  OBVIOUS
<1>2. s \in Seq(Runs) /\ Len(s) = Len(list)
  BY <1>1, SortedByRank DEF ByTimestamp
<1>3. PICK p : /\ At(p, list, s)
               /\ \A i \in DOMAIN list : \E k \in DOMAIN list : p[k] = i
               /\ \A i, j \in DOMAIN list : i < j => InOrder(stamp, s, p, i, j)
  BY <1>1, SortedByRank DEF ByTimestamp
<1> HIDE DEF s
<1>4. n \in Nat /\ DOMAIN list = 1..n /\ DOMAIN s = 1..n
  BY <1>2
<1>5. /\ p \in [1..n -> 1..n]
      /\ \A k \in 1..n : s[k] = list[p[k]] /\ s[k] \in Runs
      /\ \A i \in 1..n : \E k \in 1..n : p[k] = i
  <2>1. \A k \in 1..n : s[k] \in Runs
    BY <1>2
  <2> HIDE DEF n
  <2> QED
    BY <1>3, <1>4, <2>1 DEF At
<1>6. ToSet(s) = ToSet(list)
  <2> HIDE DEF n
  <2>1. ASSUME NEW k \in 1..n PROVE s[k] \in ToSet(list)
    BY <1>4, <1>5 DEF ToSet
  <2>2. ASSUME NEW i \in 1..n PROVE list[i] \in ToSet(s)
    <3>1. PICK k \in 1..n : p[k] = i
      BY <1>5
    <3> QED
      BY <1>4, <1>5, <3>1 DEF ToSet
  <2> QED
    BY <1>4, <2>1, <2>2 DEF ToSet
<1>7. ASSUME NEW i \in 1..n, NEW j \in 1..n, i < j
      PROVE  /\ stamp[s[i]] <= stamp[s[j]]
             /\ \/ stamp[s[i]] < stamp[s[j]]
                \/ stamp[s[i]] = stamp[s[j]] /\ p[i] < p[j]
  <2>1. \/ stamp[s[i]] < stamp[s[j]]
        \/ stamp[s[i]] = stamp[s[j]] /\ p[i] < p[j]
    BY <1>3, <1>4, <1>7 DEF InOrder
  <2>2. stamp[s[i]] \in Nat /\ stamp[s[j]] \in Nat
    BY <1>5
  <2> QED
    BY <2>1, <2>2
<1>8. ASSUME \A i, j \in 1..n : i < j => list[i] < list[j],
             NEW i \in 1..n, NEW j \in 1..n, i < j
      PROVE  \/ stamp[s[i]] < stamp[s[j]]
             \/ stamp[s[i]] = stamp[s[j]] /\ s[i] < s[j]
  <2>1. CASE stamp[s[i]] < stamp[s[j]]
    BY <2>1
  <2>2. CASE stamp[s[i]] = stamp[s[j]] /\ p[i] < p[j]
    <3>1. p[i] \in 1..n /\ p[j] \in 1..n
      BY <1>5
    <3>2. list[p[i]] < list[p[j]]
      BY <1>8, <2>2, <3>1
    <3> QED
      BY <1>5, <2>2, <3>2
  <2> QED
    BY <1>7, <1>8, <2>1, <2>2
<1> QED
  BY <1>2, <1>4, <1>6, <1>7, <1>8 DEF s

\* The window is the end of what precedes the position, no longer than the limit.
LEMMA WindowFacts ==
  ASSUME NEW runs \in Seq(Runs), NEW last \in 0..Len(runs)
  PROVE  LET w == Window(runs, last)
             lo == IF last > HistoryLimit THEN last - HistoryLimit ELSE 0
         IN  /\ w \in Seq(Runs) /\ Len(w) = last - lo /\ lo \in 0..last
             /\ \A k \in 1..Len(w) : k + lo \in 1..last /\ w[k] = runs[k + lo]
             /\ \A r : r \in ToSet(w) <=> \E k \in 1..last : k > lo /\ runs[k] = r
<1> DEFINE w == Window(runs, last)
           lo == IF last > HistoryLimit THEN last - HistoryLimit ELSE 0
<1>1. lo \in 0..last /\ last \in Nat /\ last <= Len(runs) /\ Len(runs) \in Nat
  BY HistoryLimitAssumption
<1>2. w = SubSeq(runs, lo + 1, last)
  BY DEF Window
<1> HIDE DEF lo, w
<1>3. /\ w \in Seq(Runs) /\ Len(w) = last - lo
      /\ \A k \in 1..Len(w) : k + lo \in 1..last /\ w[k] = runs[k + lo]
  BY <1>1, <1>2
<1>4. ASSUME NEW r, r \in ToSet(w) PROVE \E k \in 1..last : k > lo /\ runs[k] = r
  <2>1. PICK k \in 1..Len(w) : w[k] = r
    BY <1>3, <1>4, ToSetFacts
  <2>2. k + lo \in 1..last /\ k + lo > lo /\ runs[k + lo] = r
    BY <1>1, <1>3, <2>1
  <2> QED
    BY <2>2
<1>5. ASSUME NEW k \in 1..last, k > lo PROVE runs[k] \in ToSet(w)
  <2>1. k - lo \in 1..Len(w) /\ (k - lo) + lo = k
    BY <1>1, <1>3, <1>5
  <2>2. w[k - lo] = runs[k]
    BY <1>3, <2>1
  <2> QED
    BY <1>3, <2>1, <2>2, ToSetFacts
<1> QED
  BY <1>1, <1>3, <1>4, <1>5 DEF lo, w

\* A list that paging tore still holds runs; it misses some only if it skipped one.
LEMMA PagedFacts ==
  ASSUME NEW S, NEW list \in Seq(S), NEW tear \in Tears, NEW l \in Paged(list, tear)
  PROVE  /\ l \in Seq(S)
         /\ tear # "skip" => ToSet(list) \subseteq ToSet(l)
         /\ tear = "no" => l = list
<1>1. CASE tear = "no"
  BY <1>1 DEF Paged
<1>2. CASE tear = "repeat"
  <2>1. PICK i \in DOMAIN list : l = InsertAt(list, i + 1, list[i])
    BY <1>2 DEF Paged
  <2>2. i \in 1..Len(list) /\ Len(list) \in Nat /\ list[i] \in S
    OBVIOUS
  <2> DEFINE a == SubSeq(list, 1, i)
             b == SubSeq(list, i + 1, Len(list))
  <2>3. l = (a \o <<list[i]>>) \o b
    <3>1. (i + 1) - 1 = i
      BY <2>2
    <3> QED
      BY <2>1, <3>1 DEF InsertAt
  <2>4. /\ a \in Seq(S) /\ Len(a) = i /\ \A k \in 1..i : a[k] = list[k]
        /\ b \in Seq(S) /\ Len(b) = Len(list) - i
        /\ \A k \in 1..Len(list) - i : b[k] = list[k + i]
    BY <2>2
  <2> HIDE DEF a, b
  <2>5. ASSUME NEW k \in 1..Len(list) PROVE list[k] \in ToSet(a) \cup ToSet(b)
    <3>1. CASE k <= i
      <4>1. k \in 1..Len(a) /\ a[k] = list[k]
        BY <2>2, <2>4, <3>1
      <4> QED
        BY <2>4, <4>1, ToSetFacts
    <3>2. CASE k > i
      <4>1. k - i \in 1..Len(b) /\ (k - i) + i = k
        BY <2>2, <2>4, <3>2
      <4>2. b[k - i] = list[k]
        BY <2>4, <4>1
      <4> QED
        BY <2>4, <4>1, <4>2, ToSetFacts
    <3> QED
      BY <2>2, <3>1, <3>2
  <2> DEFINE m == <<list[i]>>
             c == a \o m
  <2>6. m \in Seq(S) /\ l = c \o b
    BY <2>2, <2>3
  <2> HIDE DEF m
  <2>7. c \in Seq(S) /\ ToSet(a) \subseteq ToSet(c)
    BY <2>4, <2>6, JoinedFacts
  <2> HIDE DEF c
  <2>8. c \o b \in Seq(S) /\ ToSet(c \o b) = ToSet(c) \cup ToSet(b)
    BY <2>4, <2>7, JoinedFacts
  <2>9. l \in Seq(S) /\ ToSet(a) \cup ToSet(b) \subseteq ToSet(l)
    BY <2>6, <2>7, <2>8
  <2>10. ToSet(list) \subseteq ToSet(l)
    BY <2>5, <2>9, ToSetFacts
  <2> QED
    BY <1>2, <2>9, <2>10
<1>3. CASE tear = "skip"
  <2>1. PICK i \in DOMAIN list : l = RemoveAt(list, i)
    BY <1>3 DEF Paged
  <2>2. i \in 1..Len(list) /\ Len(list) \in Nat
    OBVIOUS
  <2>3. SubSeq(list, 1, i - 1) \in Seq(S) /\ SubSeq(list, i + 1, Len(list)) \in Seq(S)
    BY <2>2
  <2>4. l = SubSeq(list, 1, i - 1) \o SubSeq(list, i + 1, Len(list))
    BY <2>1 DEF RemoveAt
  <2>5. l \in Seq(S)
    BY <2>3, <2>4
  <2> QED
    BY <1>3, <2>5
<1> QED
  BY <1>1, <1>2, <1>3 DEF Tears

\* The runs that exist, as Airflow lists them.
LEMMA AscendingFacts ==
  ASSUME NEW S \in SUBSET Runs
  PROVE  /\ Ascending(S) \in Seq(Runs)
         /\ ToSet(Ascending(S)) = S
         /\ \A i, j \in 1..Len(Ascending(S)) : i < j => Ascending(S)[i] < Ascending(S)[j]
<1> DEFINE n == Cardinality(S)
           s == Ascending(S)
<1>1. IsFiniteSet(Runs) /\ Runs \subseteq Int
  BY BoundsAssumption, FS_Interval DEF Runs
<1>2. IsFiniteSet(S) /\ S \in SUBSET Int
  BY <1>1, FS_Subset
<1>3. /\ n \in Nat /\ s \in [1..n -> S]
      /\ \A x \in S : \E k \in 1..n : s[k] = x
      /\ \A i, j \in 1..n : i < j => s[i] < s[j]
  BY <1>2, AscendingEnumerates
<1> HIDE DEF n, s
<1>4. s \in Seq(Runs) /\ Len(s) = n /\ DOMAIN s = 1..n
  BY <1>3
<1>5. ToSet(s) = S
  BY <1>3, <1>4 DEF ToSet
<1> QED
  BY <1>3, <1>4, <1>5 DEF s

\* The successful ones among them.
LEMMA OnlyFacts ==
  ASSUME NEW list \in Seq(Runs), NEW S
  PROVE  LET s == Only(list, S)
         IN  /\ s \in Seq(Runs) /\ ToSet(s) = ToSet(list) \cap S
             /\ (\A i, j \in 1..Len(list) : i < j => list[i] < list[j]) =>
                  \A i, j \in 1..Len(s) : i < j => s[i] < s[j]
<1> DEFINE s == Only(list, S)
<1>1. s \in Seq(Runs \cap S)
  BY OnlyKeeps
<1>2. PICK p : /\ At(p, list, s)
               /\ \A i \in DOMAIN list : list[i] \in S => \E k \in DOMAIN s : p[k] = i
               /\ \A i, j \in DOMAIN s : i < j => p[i] < p[j]
  BY OnlyKeeps
<1> HIDE DEF s
<1>3. /\ s \in Seq(Runs) /\ DOMAIN s = 1..Len(s) /\ DOMAIN list = 1..Len(list)
      /\ \A k \in DOMAIN s : s[k] \in S
  BY <1>1
<1>4. /\ \A k \in DOMAIN s : p[k] \in DOMAIN list /\ s[k] = list[p[k]]
  BY <1>2 DEF At
<1>5. ToSet(s) = ToSet(list) \cap S
  <2>1. \A k \in DOMAIN s : s[k] \in ToSet(list) \cap S
    BY <1>3, <1>4 DEF ToSet
  <2>2. ASSUME NEW i \in DOMAIN list, list[i] \in S PROVE list[i] \in ToSet(s)
    <3>1. PICK k \in DOMAIN s : p[k] = i
      BY <1>2, <2>2
    <3> QED
      BY <1>4, <3>1 DEF ToSet
  <2> QED
    BY <2>1, <2>2 DEF ToSet
<1>6. ASSUME \A i, j \in 1..Len(list) : i < j => list[i] < list[j],
             NEW i \in 1..Len(s), NEW j \in 1..Len(s), i < j
      PROVE  s[i] < s[j]
  BY <1>2, <1>3, <1>4, <1>6
<1> QED
  BY <1>3, <1>5, <1>6 DEF s

\* The runs as a server sorts them: each once, the newest ones first.
LEMMA NewestFirstFacts ==
  ASSUME NEW S \in SUBSET Runs, NEW s \in NewestFirst(S)
  PROVE  /\ s \in Seq(Runs) /\ Len(s) = Cardinality(S) /\ ToSet(s) = S
         /\ IsInjective(s)
         /\ \A i, j \in 1..Len(s) : i < j => stamp[s[i]] >= stamp[s[j]]
<1> DEFINE n == Cardinality(S)
<1>1. IsFiniteSet(Runs)
  BY BoundsAssumption, FS_Interval DEF Runs
<1>2. IsFiniteSet(S) /\ n \in Nat
  BY <1>1, FS_Subset, FS_CardinalityType
<1> HIDE DEF n
<1>3. /\ s \in [1..n -> S] /\ \A i, j \in 1..n : i # j => s[i] # s[j]
      /\ \A i, j \in DOMAIN s : i < j => stamp[s[i]] >= stamp[s[j]]
  BY DEF NewestFirst, SetToSeqs, n
<1>4. s \in Seq(Runs) /\ Len(s) = n /\ DOMAIN s = 1..n
  BY <1>2, <1>3
<1>5. IsInjective(s) /\ s \in Injection(1..n, S)
  BY <1>3 DEF IsInjective, Injection
<1>6. IsFiniteSet(1..n) /\ Cardinality(1..n) = n
  BY <1>2, FS_Interval
<1>7. s \in Surjection(1..n, S)
  BY <1>2, <1>5, <1>6, FS_Injection DEF n
<1>8. ToSet(s) = S
  BY <1>3, <1>4, <1>7 DEF ToSet, Surjection
<1> QED
  BY <1>3, <1>4, <1>5, <1>8 DEF n

\* How many runs a sequence holds.
LEMMA SizeFacts ==
  ASSUME NEW S, NEW s \in Seq(S)
  PROVE  /\ IsFiniteSet(ToSet(s)) /\ Cardinality(ToSet(s)) <= Len(s)
         /\ IsInjective(s) => Cardinality(ToSet(s)) = Len(s)
BY SizeOfList DEF ToSet

-------------------------------------------------------------------------------
(* The selection.                                                          *)

\* Where the window ends: at the target, or at the newest run.
EndsAt(runs, last) ==
  /\ last \in 0..Len(runs)
  /\ IF target = NoTarget THEN last = Len(runs)
     ELSE last \in 1..Len(runs) /\ runs[last] = target

\* Select takes a window of the sorted list, or misses the target in it.
LEMMA SelectFacts ==
  ASSUME stamp \in [Runs -> Nat], NEW list \in Seq(Runs), Select(list)
  PROVE  \/ phase' = "notFound" /\ UNCHANGED selected /\ target \notin ToSet(list)
         \/ /\ phase' \in {"fetch", "done"}
            /\ phase' = "done" => ByTimestamp(list) = <<>>
            /\ \E last : /\ EndsAt(ByTimestamp(list), last)
                         /\ selected' = Window(ByTimestamp(list), last)
<1> DEFINE runs == ByTimestamp(list)
           at == {i \in DOMAIN runs : runs[i] = target}
           first == CHOOSE i \in at : \A j \in at : i <= j
<1>1. runs \in Seq(Runs) /\ ToSet(runs) = ToSet(list) /\ Len(runs) \in Nat
  BY SortedFacts, ToSetFacts
<1>2. IF target = NoTarget
      THEN /\ selected' = Window(runs, Len(runs))
           /\ phase' = IF runs = <<>> THEN "done" ELSE "fetch"
      ELSE IF at = {}
           THEN phase' = "notFound" /\ UNCHANGED selected
           ELSE selected' = Window(runs, first) /\ phase' = "fetch"
  BY DEF Select
<1> HIDE DEF runs
<1>3. CASE target = NoTarget
  <2>1. EndsAt(runs, Len(runs)) /\ selected' = Window(runs, Len(runs))
    BY <1>1, <1>2, <1>3 DEF EndsAt
  <2> QED
    BY <1>2, <1>3, <2>1 DEF runs
<1>4. CASE target # NoTarget /\ at = {}
  <2>1. target \notin ToSet(runs)
    BY <1>1, <1>4, ToSetFacts
  <2> QED
    BY <1>1, <1>2, <1>4, <2>1
<1>5. CASE target # NoTarget /\ at # {}
  <2>1. at \in SUBSET Int /\ at \in SUBSET (1..Len(runs))
    BY <1>1
  <2>2. IsFiniteSet(1..Len(runs))
    BY <1>1, FS_Interval
  <2>3. IsFiniteSet(at)
    BY <2>1, <2>2, FS_Subset
  <2>4. \E i \in at : \A j \in at : i <= j
    <3> HIDE DEF at
    <3> QED
      BY <1>5, <2>1, <2>3, HasExtremes
  <2>5. first \in at
    BY <2>4
  <2>6. EndsAt(runs, first)
    <3>1. first \in 1..Len(runs) /\ runs[first] = target
      BY <1>1, <2>5
    <3> HIDE DEF first, at
    <3>2. first \in 0..Len(runs)
      BY <1>1, <3>1
    <3> QED
      BY <1>5, <3>1, <3>2 DEF EndsAt
  <2>7. phase' = "fetch" /\ selected' = Window(runs, first)
    BY <1>2, <1>5
  <2> QED
    BY <2>6, <2>7 DEF runs
<1> QED
  BY <1>3, <1>4, <1>5

\* A window of a sorted list is in the limit and not newer than the target.
LEMMA WindowIsInLimit ==
  ASSUME stamp \in [Runs -> Nat], NEW list \in Seq(Runs), NEW last,
         EndsAt(ByTimestamp(list), last)
  PROVE  LET w == Window(ByTimestamp(list), last)
         IN  /\ w \in Seq(Runs) /\ Len(w) <= HistoryLimit
             /\ \A r \in ToSet(w) :
                  target # NoTarget => target \in ToSet(w) /\ stamp[r] <= stamp[target]
<1> DEFINE runs == ByTimestamp(list)
           w == Window(runs, last)
           lo == IF last > HistoryLimit THEN last - HistoryLimit ELSE 0
<1>1. /\ runs \in Seq(Runs) /\ Len(runs) \in Nat
      /\ \A i, j \in 1..Len(runs) : i < j => stamp[runs[i]] <= stamp[runs[j]]
  BY SortedFacts, ToSetFacts
<1>2. last \in 0..Len(runs)
  BY DEF EndsAt
<1>3. /\ w \in Seq(Runs) /\ Len(w) = last - lo
      /\ \A r : r \in ToSet(w) <=> \E k \in 1..last : k > lo /\ runs[k] = r
  BY <1>1, <1>2, WindowFacts
<1>4. lo \in 0..last /\ last - lo <= HistoryLimit /\ (last \in 1..Len(runs) => last > lo)
  BY <1>1, <1>2, HistoryLimitAssumption
<1>5. ASSUME NEW r \in ToSet(w), target # NoTarget
      PROVE  target \in ToSet(w) /\ stamp[r] <= stamp[target]
  <2> HIDE DEF runs, w, lo
  <2>1. last \in 1..Len(runs) /\ runs[last] = target
    BY <1>5 DEF EndsAt, runs
  <2>2. target \in ToSet(w)
    BY <1>3, <1>4, <2>1
  <2>3. PICK k \in 1..last : runs[k] = r
    BY <1>3
  <2>4. k \in 1..Len(runs) /\ (k < last \/ k = last)
    BY <1>1, <2>1
  <2>5. runs[last] \in Runs
    BY <1>1, <2>1
  <2>6. stamp[r] <= stamp[target]
    BY <1>1, <2>1, <2>3, <2>4, <2>5
  <2> QED
    BY <2>2, <2>6
<1> QED
  BY <1>3, <1>4, <1>5

\* With all successful runs in the order of time, the window is the newest history.
LEMMA WindowIsNewest ==
  ASSUME stamp \in [Runs -> Nat], NEW runs \in Seq(Runs), ToSet(runs) = Successful,
         \A i, j \in 1..Len(runs) : i < j => \/ stamp[runs[i]] < stamp[runs[j]]
                                             \/ stamp[runs[i]] = stamp[runs[j]] /\ runs[i] < runs[j],
         NEW last, EndsAt(runs, last)
  PROVE  NewestHistory(ToSet(Window(runs, last)))
<1> DEFINE w == Window(runs, last)
           lo == IF last > HistoryLimit THEN last - HistoryLimit ELSE 0
<1>1. last \in 0..Len(runs) /\ Len(runs) \in Nat
  BY DEF EndsAt
<1>2. /\ w \in Seq(Runs) /\ Len(w) = last - lo /\ lo \in 0..last
      /\ \A k \in 1..Len(w) : k + lo \in 1..last /\ w[k] = runs[k + lo]
      /\ \A r : r \in ToSet(w) <=> \E k \in 1..last : k > lo /\ runs[k] = r
  BY <1>1, WindowFacts
<1>3. lo > 0 => last - lo = HistoryLimit
  BY <1>1, HistoryLimitAssumption
<1> HIDE DEF w, lo
<1>4. \A k \in 1..Len(runs) : runs[k] \in Runs /\ runs[k] \in Int /\ stamp[runs[k]] \in Int
  <2>1. \A k \in 1..Len(runs) : runs[k] \in Runs
    OBVIOUS
  <2>2. \A r \in Runs : r \in Int
    BY DEF Runs
  <2> QED
    BY <2>1, <2>2
<1>5. \A k \in 1..last : k \in 1..Len(runs)
  BY <1>1
\* What is eligible are the runs up to the end of the window.
<1>6. ASSUME NEW k \in 1..last PROVE runs[k] \in Eligible
  <2>1. runs[k] \in Successful
    BY <1>5, ToSetFacts
  <2>2. CASE target = NoTarget
    BY <2>1, <2>2 DEF Eligible
  <2>3. CASE target # NoTarget
    <3>1. last \in 1..Len(runs) /\ runs[last] = target
      BY <2>3 DEF EndsAt
    <3>2. CASE k = last
      BY <1>4, <2>1, <3>1, <3>2 DEF Eligible
    <3>3. CASE k < last
      <4>1. \/ stamp[runs[k]] < stamp[target]
            \/ stamp[runs[k]] = stamp[target] /\ runs[k] < target
        BY <1>5, <3>1, <3>3
      <4> QED
        BY <1>4, <1>5, <2>1, <3>1, <4>1 DEF Eligible
    <3> QED
      BY <1>1, <3>2, <3>3
  <2> QED
    BY <2>2, <2>3
<1>7. ASSUME NEW s \in Eligible PROVE \E k \in 1..last : runs[k] = s
  <2>1. PICK k \in 1..Len(runs) : runs[k] = s
    BY ToSetFacts DEF Eligible
  <2>2. CASE target = NoTarget
    BY <2>1, <2>2 DEF EndsAt
  <2>3. CASE target # NoTarget
    <3>1. last \in 1..Len(runs) /\ runs[last] = target
      BY <2>3 DEF EndsAt
    <3>2. \/ stamp[s] < stamp[target]
          \/ stamp[s] = stamp[target] /\ s <= target
      BY <2>3 DEF Eligible
    <3>3. ~(last < k)
      <4> SUFFICES ASSUME last < k PROVE FALSE
        OBVIOUS
      <4>1. \/ stamp[target] < stamp[s]
            \/ stamp[target] = stamp[s] /\ target < s
        BY <2>1, <3>1
      <4>2. stamp[s] \in Int /\ stamp[target] \in Int /\ s \in Int /\ target \in Int
        BY <1>4, <2>1, <3>1
      <4> QED
        BY <3>2, <4>1, <4>2
    <3> QED
      BY <1>1, <2>1, <3>3
  <2> QED
    BY <2>2, <2>3
<1>8. ToSet(w) \subseteq Eligible
  BY <1>2, <1>6
<1>9. ASSUME NEW r \in ToSet(w), NEW s \in Eligible \ ToSet(w)
      PROVE  stamp[s] <= stamp[r]
  <2>1. PICK k \in 1..last : k > lo /\ runs[k] = r
    BY <1>2
  <2>2. PICK l \in 1..last : runs[l] = s
    BY <1>7
  <2>3. ~(l > lo)
    BY <1>2, <1>9, <2>2
  <2>4. l < k
    BY <1>1, <1>2, <2>1, <2>3
  <2>5. stamp[s] < stamp[r] \/ stamp[s] = stamp[r]
    BY <1>5, <2>1, <2>2, <2>4
  <2>6. stamp[s] \in Int /\ stamp[r] \in Int
    BY <1>4, <1>5, <2>1, <2>2
  <2> QED
    BY <2>5, <2>6
<1>10. ASSUME ToSet(w) # Eligible PROVE Cardinality(ToSet(w)) = HistoryLimit
  <2>1. PICK s \in Eligible : s \notin ToSet(w)
    BY <1>8, <1>10
  <2>2. PICK l \in 1..last : runs[l] = s
    BY <1>7
  <2>3. lo > 0
    <3>1. ~(l > lo)
      BY <1>2, <2>1, <2>2
    <3>2. l >= 1 /\ l \in Int /\ lo \in Int
      BY <1>1, <1>2
    <3> QED
      BY <3>1, <3>2
  <2>4. IsInjective(w)
    <3> SUFFICES ASSUME NEW i \in 1..Len(w), NEW j \in 1..Len(w), i < j PROVE w[i] # w[j]
      <4>1. DOMAIN w = 1..Len(w) /\ Len(w) \in Nat
        BY <1>1, <1>2
      <4>2. \A i, j \in DOMAIN w : w[i] = w[j] => ~(i < j) /\ ~(j < i)
        BY <4>1
      <4>3. \A i, j \in DOMAIN w : ~(i < j) /\ ~(j < i) => i = j
        BY <4>1
      <4> QED
        BY <4>2, <4>3 DEF IsInjective
    <3>1. i + lo \in 1..Len(runs) /\ j + lo \in 1..Len(runs) /\ i + lo < j + lo
      BY <1>1, <1>2, <1>5
    <3>2. \/ stamp[w[i]] < stamp[w[j]]
          \/ stamp[w[i]] = stamp[w[j]] /\ w[i] < w[j]
      <4>1. w[i] = runs[i + lo] /\ w[j] = runs[j + lo]
        BY <1>2
      <4> DEFINE a == i + lo
                 b == j + lo
      <4>2. a \in 1..Len(runs) /\ b \in 1..Len(runs) /\ a < b /\ w[i] = runs[a] /\ w[j] = runs[b]
        BY <3>1, <4>1
      <4> HIDE DEF a, b
      <4>3. \/ stamp[runs[a]] < stamp[runs[b]]
            \/ stamp[runs[a]] = stamp[runs[b]] /\ runs[a] < runs[b]
        BY <4>2
      <4> QED
        BY <4>2, <4>3
    <3>3. w[i] \in Int /\ stamp[w[i]] \in Int
      BY <1>2, <1>4, <3>1
    <3> QED
      BY <3>2, <3>3
  <2> QED
    BY <1>2, <1>3, <2>3, <2>4, SizeFacts
<1> QED
  BY <1>8, <1>9, <1>10 DEF NewestHistory, w

\* So it is with the first runs of a list that the server has filtered and sorted.
LEMMA FilteredIsNewest ==
  ASSUME stamp \in [Runs -> Nat], target = NoTarget,
         NEW newest \in NewestFirst(Successful), NEW last,
         EndsAt(ByTimestamp(Front1(newest, HistoryLimit)), last)
  PROVE  NewestHistory(ToSet(Window(ByTimestamp(Front1(newest, HistoryLimit)), last)))
<1> DEFINE n == Len(newest)
           m == IF HistoryLimit <= n THEN HistoryLimit ELSE n
           front == Front1(newest, HistoryLimit)
           runs == ByTimestamp(front)
           w == Window(runs, last)
<1>1. /\ newest \in Seq(Runs) /\ ToSet(newest) = Successful /\ IsInjective(newest)
      /\ \A i, j \in 1..n : i < j => stamp[newest[i]] >= stamp[newest[j]]
  BY NewestFirstFacts DEF Successful
<1>2. n \in Nat /\ m \in 0..n /\ m <= HistoryLimit /\ (m = n \/ m = HistoryLimit)
  BY <1>1, HistoryLimitAssumption, ToSetFacts
<1>3. front = SubSeq(newest, 1, m)
  BY DEF Front1
<1> HIDE DEF m, front
<1>4. front \in Seq(Runs) /\ Len(front) = m /\ \A k \in 1..m : front[k] = newest[k]
  BY <1>1, <1>2, <1>3
<1>5. runs \in Seq(Runs) /\ Len(runs) = m /\ ToSet(runs) = ToSet(front)
  BY <1>4, SortedFacts
<1>6. last = m /\ last \in 0..Len(runs) /\ ~(last > HistoryLimit)
  BY <1>2, <1>5, HistoryLimitAssumption DEF EndsAt, front
<1> HIDE DEF runs
<1>7. \A r : r \in ToSet(w) <=> \E k \in 1..m : runs[k] = r
  <2>1. LET lo == IF last > HistoryLimit THEN last - HistoryLimit ELSE 0
        IN  \A r : r \in ToSet(w) <=> \E k \in 1..last : k > lo /\ runs[k] = r
    BY <1>5, <1>6, WindowFacts
  <2> HIDE DEF w
  <2>2. \A r : r \in ToSet(w) <=> \E k \in 1..last : k > 0 /\ runs[k] = r
    BY <1>6, <2>1
  <2> QED
    BY <1>2, <1>6, <2>2
<1> HIDE DEF w
<1>8. ToSet(w) = ToSet(front)
  <2>1. \A r : r \in ToSet(runs) <=> \E k \in 1..m : runs[k] = r
    BY <1>5, ToSetFacts
  <2> QED
    BY <1>5, <1>7, <2>1
<1>9. \A r : r \in ToSet(w) <=> \E k \in 1..m : newest[k] = r
  <2>1. \A r : r \in ToSet(front) <=> \E k \in 1..m : front[k] = r
    BY <1>4, ToSetFacts
  <2> QED
    BY <1>4, <1>8, <2>1
<1>10. \A r : r \in Eligible <=> \E k \in 1..n : newest[k] = r
  <2>1. Eligible = Successful
    BY DEF Eligible
  <2>2. \A r : r \in ToSet(newest) <=> \E k \in 1..n : newest[k] = r
    BY <1>1, ToSetFacts
  <2> QED
    BY <1>1, <2>1, <2>2
<1> HIDE DEF n
<1>11. ToSet(w) \subseteq Eligible
  BY <1>2, <1>9, <1>10
<1>12. ASSUME NEW r \in ToSet(w), NEW s \in Eligible \ ToSet(w)
       PROVE  stamp[s] <= stamp[r]
  <2>1. PICK k \in 1..m : newest[k] = r
    BY <1>9
  <2>2. PICK l \in 1..n : newest[l] = s
    BY <1>10
  <2>3. ~(l \in 1..m)
    BY <1>9, <1>12, <2>2
  <2>4. k \in 1..n /\ k < l
    BY <1>2, <2>1, <2>2, <2>3
  <2>5. stamp[newest[k]] >= stamp[newest[l]]
    BY <1>1, <2>2, <2>4 DEF n
  <2>6. r \in Runs /\ s \in Runs
    BY <1>11, <1>12 DEF Eligible, Successful
  <2> QED
    BY <2>1, <2>2, <2>5, <2>6
<1>13. ASSUME ToSet(w) # Eligible PROVE Cardinality(ToSet(w)) = HistoryLimit
  <2>1. m # n
    BY <1>9, <1>10, <1>13
  <2>2. m = HistoryLimit
    BY <1>2, <2>1
  <2>3. IsInjective(front)
    <3>1. DOMAIN front = 1..m /\ DOMAIN newest = 1..n
      BY <1>1, <1>2, <1>4 DEF n
    <3>2. \A k \in 1..m : k \in 1..n
      BY <1>2
    <3> QED
      BY <1>1, <1>4, <3>1, <3>2 DEF IsInjective
  <2> QED
    BY <1>4, <1>8, <2>2, <2>3, SizeFacts
<1> QED
  BY <1>11, <1>12, <1>13 DEF NewestHistory, w, runs, front

-------------------------------------------------------------------------------
(* The task instances.                                                     *)

\* A finite set in a total order, as a list, has each of its elements once.
LEMMA OrderedLists ==
  ASSUME NEW S, IsFiniteSet(S), NEW R, IsTotalOrder(R, S)
  PROVE  /\ Ordered(S, R) \in Seq(S) /\ IsInjective(Ordered(S, R))
         /\ ToSet(Ordered(S, R)) = S
<1> DEFINE s == Ordered(S, R)
           n == Cardinality(S)
<1>1. /\ s \in [1..n -> S] /\ \A x \in S : \E k \in 1..n : s[k] = x
      /\ \A i, j \in 1..n : i < j => <<s[i], s[j]>> \in R /\ s[i] # s[j]
  BY OrderedEnumerates
<1>2. n \in Nat
  BY FS_CardinalityType
<1> HIDE DEF s, n
<1>3. s \in Seq(S) /\ DOMAIN s = 1..n
  BY <1>1, <1>2
<1>4. ASSUME NEW i \in 1..n, NEW j \in 1..n, s[i] = s[j] PROVE i = j
  <2>1. ~(i < j) /\ ~(j < i)
    BY <1>1, <1>4
  <2>2. i \in Int /\ j \in Int
    BY <1>2
  <2> QED
    BY <2>1, <2>2
<1>5. IsInjective(s) /\ ToSet(s) = S
  BY <1>1, <1>3, <1>4 DEF IsInjective, ToSet
<1> QED
  BY <1>3, <1>5 DEF s

\* Whatever the order of a batch, it lists the instances, each once.
LEMMA BatchFacts ==
  ASSUME NEW found \in SUBSET (Runs \X Tasks), NEW batch \in BatchOrders(found)
  PROVE  batch \in Seq(Runs \X Tasks) /\ IsInjective(batch) /\ ToSet(batch) = found
<1> DEFINE runs == {o[1] : o \in found}
           task == [o \in found |-> TaskOrder[o[2]]]
           run(rank) == [o \in found |-> rank[o[1]]]
           by(f, g) == Ordered(found, Lexicographic(found, f, g))
<1>1. PICK rank \in Ranks(runs) : batch = by(run(rank), task) \/ batch = by(task, run(rank))
  <2> DEFINE both(rank) == {by(run(rank), task), by(task, run(rank))}
  <2>1. batch \in UNION {both(rank) : rank \in Ranks(runs)}
    BY DEF BatchOrders
  <2>2. \E rank \in Ranks(runs) : batch \in both(rank)
    <3> HIDE DEF both, runs
    <3> QED
      BY <2>1
  <2> QED
    BY <2>2
<1>2. IsFiniteSet(runs) /\ Cardinality(runs) \in Nat
  <2>1. IsFiniteSet(Runs)
    BY BoundsAssumption, FS_Interval DEF Runs
  <2>2. runs \subseteq Runs
    OBVIOUS
  <2> QED
    BY <2>1, <2>2, FS_Subset, FS_CardinalityType
<1>3. IsFiniteSet(found) /\ Cardinality(found) \in Nat
  <2>1. IsFiniteSet(Runs)
    BY BoundsAssumption, FS_Interval DEF Runs
  <2>2. IsFiniteSet(Runs \X Tasks)
    BY <2>1, TasksAssumption, FS_Product
  <2> QED
    BY <2>2, FS_Subset, FS_CardinalityType
<1>4. /\ rank \in [runs -> Int] /\ \A r, s \in runs : rank[r] = rank[s] => r = s
  BY <1>2 DEF Ranks, Bijection, Injection, IsInjective
<1>5. /\ TaskOrder \in [Tasks -> Int] /\ \A t, u \in Tasks : TaskOrder[t] = TaskOrder[u] => t = u
  <2> DEFINE c == Cardinality(Tasks)
  <2>1. c \in Nat
    BY TasksAssumption, FS_CardinalityType
  <2>2. IsFiniteSet(1..c) /\ Cardinality(1..c) = c
    <3> HIDE DEF c
    <3> QED
      BY <2>1, FS_Interval
  <2>3. ExistsBijection(Tasks, 1..c)
    BY <2>2, TasksAssumption, FS_SameCardinalityBij
  <2>4. Ranks(Tasks) # {}
    BY <2>3 DEF Ranks, ExistsBijection
  <2>5. TaskOrder \in Ranks(Tasks)
    BY <2>4 DEF TaskOrder
  <2> QED
    BY <2>1, <2>5 DEF Ranks, Bijection, Injection, IsInjective
<1>6. /\ run(rank) \in [found -> Int] /\ task \in [found -> Int]
      /\ \A o, p \in found : run(rank)[o] = run(rank)[p] /\ task[o] = task[p] => o = p
  <2>1. \A o \in found : o[1] \in runs /\ o[2] \in Tasks /\ o = <<o[1], o[2]>>
    OBVIOUS
  <2> HIDE DEF runs
  <2>2. task = [o \in found |-> TaskOrder[o[2]]]
    OBVIOUS
  <2>3. \A o \in found : run(rank)[o] = rank[o[1]] /\ task[o] = TaskOrder[o[2]]
    BY <2>2
  <2>4. run(rank) \in [found -> Int] /\ task \in [found -> Int]
    BY <1>4, <1>5, <2>1, <2>2
  <2>5. ASSUME NEW o \in found, NEW p \in found,
               run(rank)[o] = run(rank)[p], task[o] = task[p]
        PROVE  o = p
    <3>1. o[1] = p[1] /\ o[2] = p[2]
      BY <1>4, <1>5, <2>1, <2>3, <2>5
    <3> QED
      BY <2>1, <3>1
  <2> QED
    BY <2>4, <2>5
<1> DEFINE ofRun == run(rank)
<1>7. /\ ofRun \in [found -> Int] /\ task \in [found -> Int]
      /\ \A o, p \in found : ofRun[o] = ofRun[p] /\ task[o] = task[p] => o = p
      /\ batch = Ordered(found, Lexicographic(found, ofRun, task))
           \/ batch = Ordered(found, Lexicographic(found, task, ofRun))
  BY <1>1, <1>6
<1> HIDE DEF ofRun, task, runs, run, by
<1>8. /\ IsTotalOrder(Lexicographic(found, ofRun, task), found)
      /\ IsTotalOrder(Lexicographic(found, task, ofRun), found)
  BY <1>7, LexicographicIsTotal
<1>9. PICK R : IsTotalOrder(R, found) /\ batch = Ordered(found, R)
  BY <1>7, <1>8
<1>10. /\ Ordered(found, R) \in Seq(found) /\ IsInjective(Ordered(found, R))
       /\ ToSet(Ordered(found, R)) = found
  BY <1>3, <1>9, OrderedLists
<1>11. found \subseteq Runs \X Tasks
  OBVIOUS
<1> QED
  BY <1>9, <1>10, <1>11

\* What succeeded in the window is kept of an answer, and nothing else.
LEMMA InWindowFacts ==
  ASSUME NEW batch \in Seq(Runs \X Tasks)
  PROVE  /\ InWindow(batch) \in Seq(Runs \X Tasks)
         /\ \A i \in DOMAIN InWindow(batch) : InWindow(batch)[i][1] \in ToSet(selected)
         /\ IsInjective(batch) => IsInjective(InWindow(batch))
         /\ ToSet(InWindow(batch)) = ToSet(batch) \cap Succeeded(ToSet(selected))
<1> DEFINE w == InWindow(batch)
           A == Runs \X Tasks
           B == Succeeded(ToSet(selected))
<1>1. w \in Seq(A \cap B)
  BY OnlyKeeps DEF InWindow
<1>2. \A o \in B : o[1] \in ToSet(selected)
  BY DEF Succeeded
<1>3. PICK p : /\ At(p, batch, w)
               /\ \A i \in DOMAIN batch : batch[i] \in B => \E k \in DOMAIN w : p[k] = i
  <2>1. w = Only(batch, B)
    BY DEF InWindow
  <2> HIDE DEF B
  <2>2. \E p : /\ At(p, batch, Only(batch, B))
               /\ \A i \in DOMAIN batch : batch[i] \in B =>
                    \E k \in DOMAIN Only(batch, B) : p[k] = i
               /\ \A i, j \in DOMAIN Only(batch, B) : i < j => p[i] < p[j]
    BY OnlyKeeps
  <2> HIDE DEF w
  <2> QED
    BY <2>1, <2>2
<1> HIDE DEF w, A, B
<1>4. w \in Seq(A) /\ \A i \in DOMAIN w : w[i] \in A \cap B
  BY <1>1
<1>5. /\ \A k \in DOMAIN w : p[k] \in DOMAIN batch /\ w[k] = batch[p[k]]
      /\ \A i, j \in DOMAIN w : p[i] = p[j] => i = j
  BY <1>3 DEF At
<1>6. IsInjective(batch) => IsInjective(w)
  BY <1>5 DEF IsInjective
<1>7. ToSet(w) = ToSet(batch) \cap B
  <2>1. ASSUME NEW k \in DOMAIN w PROVE w[k] \in ToSet(batch) /\ w[k] \in B
    BY <1>4, <1>5 DEF ToSet
  <2>2. ASSUME NEW i \in DOMAIN batch, batch[i] \in B PROVE batch[i] \in ToSet(w)
    <3>1. PICK k \in DOMAIN w : p[k] = i
      BY <1>3, <2>2
    <3> QED
      BY <1>5, <3>1 DEF ToSet
  <2> QED
    BY <2>1, <2>2 DEF ToSet
<1> QED
  BY <1>2, <1>4, <1>6, <1>7 DEF w, A, B

\* A finite set as a list has each of its elements once.
LEMMA SetToSeqFacts ==
  ASSUME NEW S, IsFiniteSet(S)
  PROVE  SetToSeq(S) \in Seq(S) /\ IsInjective(SetToSeq(S)) /\ ToSet(SetToSeq(S)) = S
<1> DEFINE found == SetToSeq(S)
           n == Cardinality(S)
<1>1. n \in Nat /\ ExistsBijection(1..n, S)
  BY FS_CardinalityType
<1>2. \E f \in [1..n -> S] : IsInjective(f)
  BY <1>1 DEF ExistsBijection, Bijection, Injection
<1>3. found \in [1..n -> S] /\ IsInjective(found)
  BY <1>2 DEF SetToSeq
<1> HIDE DEF found
<1>4. \A t \in S : \E k \in 1..n : found[k] = t
  <2>1. found \in Injection(1..n, S)
    BY <1>3 DEF Injection, IsInjective
  <2>2. IsFiniteSet(1..n) /\ Cardinality(1..n) = n
    <3> HIDE DEF n
    <3> QED
      BY <1>1, FS_Interval
  <2>3. found \in Surjection(1..n, S)
    BY <2>1, <2>2, FS_Injection
  <2> QED
    BY <2>3 DEF Surjection
<1> HIDE DEF n
<1>5. found \in Seq(S) /\ DOMAIN found = 1..n
  BY <1>1, <1>3
<1>6. ToSet(found) = S
  BY <1>3, <1>4, <1>5 DEF ToSet
<1> QED
  BY <1>3, <1>5, <1>6 DEF found

\* What is kept of the instances of one run of the window.
LEMMA OfRunFacts ==
  ASSUME NEW r \in Runs, r \in ToSet(selected), completed \in [Runs -> SUBSET Tasks]
  PROVE  LET more == InWindow(SetToSeq({r} \X Tasks))
         IN  /\ more \in Seq(Runs \X Tasks) /\ \A k \in DOMAIN more : more[k][1] = r
             /\ IsInjective(more) /\ ToSet(more) = {<<r, t>> : t \in completed[r]}
<1> DEFINE S == {r} \X Tasks
           list == SetToSeq(S)
           more == InWindow(list)
<1>1. IsFiniteSet(S)
  <2>1. IsFiniteSet({r})
    BY FS_Singleton
  <2> QED
    BY <2>1, TasksAssumption, FS_Product
<1> HIDE DEF S
<1>2. list \in Seq(S) /\ IsInjective(list) /\ ToSet(list) = S
  BY <1>1, SetToSeqFacts
<1> HIDE DEF list
<1>3. list \in Seq(Runs \X Tasks)
  <2>1. S \subseteq Runs \X Tasks
    BY DEF S
  <2> QED
    BY <1>2, <2>1
<1>4. /\ more \in Seq(Runs \X Tasks) /\ IsInjective(more)
      /\ ToSet(more) = S \cap Succeeded(ToSet(selected))
  BY <1>2, <1>3, InWindowFacts
<1> HIDE DEF more
<1>5. S \cap Succeeded(ToSet(selected)) = {<<r, t>> : t \in completed[r]}
  <2>1. completed[r] \subseteq Tasks
    OBVIOUS
  <2> QED
    BY <2>1 DEF S, Succeeded
<1>6. \A k \in DOMAIN more : more[k][1] = r
  <2>1. \A k \in DOMAIN more : more[k] \in ToSet(more)
    BY DEF ToSet
  <2> QED
    BY <1>4, <2>1 DEF S
<1> QED
  BY <1>4, <1>5, <1>6 DEF more, list, S

-------------------------------------------------------------------------------
(* The inductive invariant.                                                *)

\* Before anything is collected, the invariant holds.
LEMMA InitIInv == Init => IInv
<1> SUFFICES ASSUME Init PROVE IInv
  OBVIOUS
<1>1. stamp \in [Runs -> Nat] /\ completed \in [Runs -> SUBSET Tasks]
  BY StampsAssumption, HistoriesAssumption DEF Init
<1>2. Typed
  BY <1>1 DEF Init, Typed, States, Phases
<1>3. InLimit
  BY HistoryLimitAssumption DEF Init, InLimit, ToSet, Observed
<1>4. Empty /\ UpToTarget /\ Newest /\ Missing
  BY DEF Init, Empty, UpToTarget, Newest, Missing, ToSet
<1> QED
  BY <1>2, <1>3, <1>4 DEF IInv

\* What depends on Airflow and the target.
LEMMA AirflowKept ==
  UNCHANGED <<stamp, state, target>> =>
     /\ Successful' = Successful
     /\ \A set : NewestHistory(set)' = NewestHistory(set)
BY DEF Successful, Eligible, NewestHistory

\* A listing that is not torn lists all, and a torn one unless it skips one; Select
\* keeps the newest of it.
LEMMA ListingIInv ==
  ASSUME IInv, phase = "list", UNCHANGED <<airflow, target, pending, collected>>, changes' \in Nat,
         NEW list \in Seq(Runs), Select(list),
         target # NoTarget /\ torn' # "skip" => Successful \subseteq ToSet(list),
         changes' = 0 =>
           \A last : EndsAt(ByTimestamp(list), last) =>
             NewestHistory(ToSet(Window(ByTimestamp(list), last)))
  PROVE  IInv'
<1>1. /\ Typed /\ selected = <<>> /\ ToSet(pending) \subseteq ToSet(selected)
      /\ Observed \subseteq ToSet(selected)
  BY DEF IInv, Empty, InLimit
<1>2. UNCHANGED <<server, stamp, state, completed>>
  BY DEF airflow
<1>3. ToSet(selected) = {}
  BY <1>1 DEF ToSet
<1>4. stamp \in [Runs -> Nat]
  BY <1>1 DEF Typed
<1>5. Observed' = {} /\ ToSet(pending') = {}
  BY <1>1, <1>3 DEF Observed
<1>6. CASE phase' = "notFound" /\ UNCHANGED selected /\ target \notin ToSet(list)
  <2>1. Typed' /\ Empty'
    BY <1>1, <1>2, <1>6 DEF Typed, Phases, Empty
  <2>2. InLimit' /\ UpToTarget' /\ Newest'
    BY <1>1, <1>3, <1>5, <1>6, HistoryLimitAssumption DEF InLimit, UpToTarget, Newest
  <2>3. Missing'
    <3>1. NoTarget \notin Successful
      BY DEF NoTarget, Successful, Runs
    <3> QED
      BY <1>2, <1>6, <3>1, AirflowKept DEF Missing
  <2> QED
    BY <2>1, <2>2, <2>3 DEF IInv
<1>7. ASSUME phase' \in {"fetch", "done"},
             NEW last, EndsAt(ByTimestamp(list), last), selected' = Window(ByTimestamp(list), last)
      PROVE  IInv'
  <2> DEFINE w == Window(ByTimestamp(list), last)
  <2>1. /\ w \in Seq(Runs) /\ Len(w) <= HistoryLimit
        /\ \A r \in ToSet(w) :
             target # NoTarget => target \in ToSet(w) /\ stamp[r] <= stamp[target]
    BY <1>4, <1>7, WindowIsInLimit
  <2>2. changes' = 0 => NewestHistory(ToSet(w))
    BY <1>7
  <2>3. selected' = w
    BY <1>7
  <2> HIDE DEF w
  <2>4. Typed' /\ Empty'
    BY <1>1, <1>2, <1>7, <2>1, <2>3 DEF Typed, Phases, Empty
  <2>5. InLimit' /\ UpToTarget'
    BY <1>2, <1>5, <2>1, <2>3 DEF InLimit, UpToTarget
  <2>6. Newest' /\ Missing'
    BY <1>2, <1>7, <2>2, <2>3, AirflowKept DEF Newest, Missing, Stable
  <2> QED
    BY <2>4, <2>5, <2>6 DEF IInv
<1> QED
  BY <1>4, <1>6, <1>7, SelectFacts

\* A list the server filtered selects the newest runs.
LEMMA ListFilteredIInv == IInv /\ ListFiltered => IInv'
<1> SUFFICES ASSUME IInv, ListFiltered PROVE IInv'
  OBVIOUS
<1>1. PICK tear \in Tears, newest \in NewestFirst(Successful) :
        /\ Tear(tear)
        /\ \E list \in Paged(newest, tear) : Select(Front1(list, HistoryLimit))
  BY DEF ListFiltered
<1>2. PICK list \in Paged(newest, tear) : Select(Front1(list, HistoryLimit))
  BY <1>1
<1>3. /\ phase = "list" /\ target = NoTarget
      /\ UNCHANGED <<airflow, target, pending, collected>>
      /\ stamp \in [Runs -> Nat] /\ changes \in Nat
  BY DEF ListFiltered, IInv, Typed
<1>4. newest \in Seq(Runs)
  BY NewestFirstFacts DEF Successful
<1>5. list \in Seq(Runs) /\ (tear = "no" => list = newest)
  BY <1>4, PagedFacts
<1>6. Front1(list, HistoryLimit) \in Seq(Runs)
  BY <1>5, HistoryLimitAssumption DEF Front1
<1>7. changes' \in Nat /\ (changes' = 0 => tear = "no")
  BY <1>1, <1>3 DEF Tear
<1>8. ASSUME changes' = 0, NEW last, EndsAt(ByTimestamp(Front1(list, HistoryLimit)), last)
      PROVE  NewestHistory(ToSet(Window(ByTimestamp(Front1(list, HistoryLimit)), last)))
  <2>1. list = newest
    BY <1>5, <1>7, <1>8
  <2> QED
    BY <1>3, <1>8, <2>1, FilteredIsNewest
<1> QED
  BY <1>2, <1>3, <1>6, <1>7, <1>8, ListingIInv

\* A list filtered by the client selects the newest runs.
LEMMA ListAllIInv == IInv /\ ListAll => IInv'
<1> SUFFICES ASSUME IInv, ListAll PROVE IInv'
  OBVIOUS
<1>1. PICK tear \in Tears :
        /\ Tear(tear)
        /\ \E list \in Paged(Ascending(Existing), tear) : Select(Only(list, Successful))
  BY DEF ListAll
<1>2. PICK list \in Paged(Ascending(Existing), tear) : Select(Only(list, Successful))
  BY <1>1
<1>3. /\ phase = "list" /\ UNCHANGED <<airflow, target, pending, collected>>
      /\ stamp \in [Runs -> Nat] /\ changes \in Nat
  BY DEF ListAll, IInv, Typed
<1> DEFINE all == Ascending(Existing)
           only == Only(list, Successful)
<1>4. /\ all \in Seq(Runs) /\ ToSet(all) = Existing
      /\ \A i, j \in 1..Len(all) : i < j => all[i] < all[j]
  BY AscendingFacts DEF Existing
<1>5. /\ list \in Seq(Runs) /\ (tear # "skip" => ToSet(all) \subseteq ToSet(list))
      /\ tear = "no" => list = all
  BY <1>4, PagedFacts
<1>6. /\ only \in Seq(Runs) /\ ToSet(only) = ToSet(list) \cap Successful
      /\ (\A i, j \in 1..Len(list) : i < j => list[i] < list[j]) =>
           \A i, j \in 1..Len(only) : i < j => only[i] < only[j]
  BY <1>5, OnlyFacts
<1>7. changes' \in Nat /\ (changes' = 0 => tear = "no") /\ torn' = tear
  BY <1>1, <1>3 DEF Tear
<1>8. Successful \subseteq Existing
  BY DEF Successful, Existing
<1> HIDE DEF all, only
<1>9. torn' # "skip" => Successful \subseteq ToSet(only)
  BY <1>4, <1>5, <1>6, <1>7, <1>8
<1>10. ASSUME changes' = 0, NEW last, EndsAt(ByTimestamp(only), last)
       PROVE  NewestHistory(ToSet(Window(ByTimestamp(only), last)))
  <2>1. list = all
    BY <1>5, <1>7, <1>10
  <2>2. ToSet(only) = Successful
    BY <1>4, <1>6, <1>8, <2>1
  <2>3. \A i, j \in 1..Len(only) : i < j => only[i] < only[j]
    BY <1>4, <1>6, <2>1
  <2> DEFINE s == ByTimestamp(only)
  <2>4. /\ s \in Seq(Runs) /\ ToSet(s) = Successful
        /\ \A i, j \in 1..Len(s) : i < j => \/ stamp[s[i]] < stamp[s[j]]
                                            \/ stamp[s[i]] = stamp[s[j]] /\ s[i] < s[j]
    BY <1>3, <1>6, <2>2, <2>3, SortedFacts
  <2>5. EndsAt(s, last)
    BY <1>10
  <2> HIDE DEF s
  <2>6. NewestHistory(ToSet(Window(s, last)))
    BY <1>3, <2>4, <2>5, WindowIsNewest
  <2> QED
    BY <2>6 DEF s
<1>11. Select(only)
  BY <1>2 DEF only
<1> QED
  BY <1>3, <1>6, <1>7, <1>9, <1>10, <1>11, ListingIInv

\* A step of the fetch: what it adds is of the window.
LEMMA FetchingIInv ==
  ASSUME IInv, phase \in {"fetch", "runByRun"}, phase' \in {"runByRun", "done", "failed"},
         UNCHANGED <<airflow, target, selected, changes, torn>>,
         pending' \in Seq(Runs), ToSet(pending') \subseteq ToSet(selected),
         collected' \in Seq(Runs \X Tasks),
         \A i \in DOMAIN collected' : collected'[i][1] \in ToSet(selected)
  PROVE  IInv'
<1>1. UNCHANGED <<server, stamp, state, completed>>
  BY DEF airflow
<1>2. Typed'
  BY <1>1 DEF IInv, Typed, Phases
<1>3. Empty' /\ Missing'
  BY DEF Empty, Missing
<1>4. InLimit' /\ UpToTarget'
  BY <1>1 DEF IInv, InLimit, UpToTarget, Observed
<1>5. Newest'
  BY <1>1, AirflowKept DEF IInv, Newest, Stable
<1> QED
  BY <1>2, <1>3, <1>4, <1>5 DEF IInv

\* Every task run that was collected is of a run in the window.
LEMMA ObservedIsSelected ==
  IInv => \A i \in DOMAIN collected : collected[i][1] \in ToSet(selected)
BY DEF IInv, InLimit, Observed

\* The batch endpoint adds task runs of the window only, whatever it returns.
LEMMA FetchBatchIInv == IInv /\ FetchBatch => IInv'
<1> SUFFICES ASSUME IInv, FetchBatch PROVE IInv'
  OBVIOUS
<1> DEFINE found == IF server = "lenient" THEN Existing \X Tasks ELSE Succeeded(ToSet(selected))
<1>1. PICK batch \in BatchOrders(found) : collected' = InWindow(batch)
  BY DEF FetchBatch
<1>2. found \in SUBSET (Runs \X Tasks)
  <2>1. ToSet(selected) \subseteq Runs
    BY DEF IInv, Typed, ToSet
  <2> QED
    BY <2>1 DEF Existing, Succeeded
<1>3. batch \in Seq(Runs \X Tasks)
  <2> HIDE DEF found
  <2> QED
    BY <1>2, BatchFacts
<1>4. /\ collected' \in Seq(Runs \X Tasks)
      /\ \A i \in DOMAIN collected' : collected'[i][1] \in ToSet(selected)
  BY <1>1, <1>3, InWindowFacts
<1>5. /\ phase = "fetch" /\ phase' = "done"
      /\ UNCHANGED <<airflow, target, selected, pending, changes, torn>>
      /\ pending \in Seq(Runs) /\ ToSet(pending) \subseteq ToSet(selected)
  BY DEF FetchBatch, IInv, Typed, InLimit
<1> QED
  BY <1>4, <1>5, FetchingIInv

\* Falling back to single runs keeps the window to be visited.
LEMMA FallBackIInv == IInv /\ FallBack => IInv'
<1> SUFFICES ASSUME IInv, FallBack PROVE IInv'
  OBVIOUS
<1>1. /\ phase = "fetch" /\ phase' = "runByRun" /\ pending' = selected
      /\ UNCHANGED <<airflow, target, selected, collected, changes, torn>>
      /\ selected \in Seq(Runs) /\ collected \in Seq(Runs \X Tasks)
  BY DEF FallBack, IInv, Typed
<1> QED
  BY <1>1, ObservedIsSelected, FetchingIInv

\* Fetching one run adds task runs of that run only.
LEMMA FetchRunIInv == IInv /\ FetchRun => IInv'
<1> SUFFICES ASSUME IInv, FetchRun PROVE IInv'
  OBVIOUS
<1> DEFINE r == Head(pending)
           more == InWindow(SetToSeq({r} \X Tasks))
           A == Runs \X Tasks
<1>1. /\ phase = "runByRun" /\ pending # <<>> /\ collected' = collected \o more
      /\ pending' = Tail(pending) /\ phase' \in {"runByRun", "done"}
      /\ UNCHANGED <<airflow, target, selected, changes, torn>>
  BY DEF FetchRun
<1>2. /\ pending \in Seq(Runs) /\ collected \in Seq(A) /\ completed \in [Runs -> SUBSET Tasks]
      /\ ToSet(pending) \subseteq ToSet(selected)
  BY DEF IInv, Typed, InLimit
<1>3. r \in Runs /\ r \in ToSet(pending) /\ pending' \in Seq(Runs)
  <2>1. 1 \in 1..Len(pending) /\ pending[1] = Head(pending)
    BY <1>1, <1>2
  <2> QED
    BY <1>1, <1>2, <2>1, ToSetFacts
<1>4. ToSet(pending') \subseteq ToSet(pending)
  <2>1. \A k \in 1..Len(pending') : k + 1 \in 1..Len(pending) /\ pending'[k] = pending[k + 1]
    BY <1>1, <1>2
  <2> QED
    BY <1>2, <1>3, <2>1, ToSetFacts
<1>5. more \in Seq(A) /\ \A k \in DOMAIN more : more[k][1] = r
  <2>1. r \in ToSet(selected)
    BY <1>2, <1>3
  <2> HIDE DEF r
  <2> QED
    BY <1>2, <1>3, <2>1, OfRunFacts
<1> HIDE DEF more, A, r
<1>6. collected' \in Seq(A) /\ ToSet(collected') = ToSet(collected) \cup ToSet(more)
  BY <1>1, <1>2, <1>5, JoinedFacts
<1>7. ASSUME NEW i \in DOMAIN collected' PROVE collected'[i][1] \in ToSet(selected)
  <2>1. collected'[i] \in ToSet(collected) \cup ToSet(more)
    BY <1>6 DEF ToSet
  <2>2. \A o \in ToSet(collected) : o[1] \in ToSet(selected)
    BY ObservedIsSelected DEF ToSet
  <2>3. \A o \in ToSet(more) : o[1] = r
    BY <1>5 DEF ToSet
  <2> QED
    BY <1>2, <1>3, <2>1, <2>2, <2>3
<1> QED
  BY <1>1, <1>2, <1>3, <1>4, <1>6, <1>7, FetchingIInv DEF A

\* A failed collection hands nothing on.
LEMMA FailureIInv ==
  ASSUME IInv, RunGone \/ Fail \/ DependenciesFail
  PROVE  IInv'
<1>1. /\ phase' = "failed"
      /\ UNCHANGED <<airflow, target, selected, pending, collected, changes, torn>>
  BY DEF RunGone, Fail, DependenciesFail
<1>2. UNCHANGED <<server, stamp, state, completed>>
  BY <1>1 DEF airflow
<1>3. Typed'
  BY <1>1, <1>2 DEF IInv, Typed, Phases
<1>4. InLimit' /\ UpToTarget'
  BY <1>1, <1>2 DEF IInv, InLimit, UpToTarget, Observed
<1>5. Empty' /\ Newest' /\ Missing'
  BY <1>1 DEF Empty, Newest, Missing
<1> QED
  BY <1>3, <1>4, <1>5 DEF IInv

\* Once Airflow has changed anything, only what was selected is known of the window.
LEMMA ChangeIInv == IInv /\ (Finish \/ Clear \/ Delete) => IInv'
<1> SUFFICES ASSUME IInv, Finish \/ Clear \/ Delete PROVE IInv'
  OBVIOUS
<1>1. /\ phase \in {"fetch", "runByRun"} /\ changes' = changes + 1
      /\ UNCHANGED <<server, stamp, target, phase, selected, pending, collected, torn>>
  BY DEF Finish, Clear, Delete, Change
<1>2. state' \in [Runs -> States] /\ completed' \in [Runs -> SUBSET Tasks]
  <2>1. state \in [Runs -> States] /\ completed \in [Runs -> SUBSET Tasks]
    BY DEF IInv, Typed
  <2>2. CASE Finish
    BY <2>1, <2>2, HistoriesAssumption DEF Finish, States
  <2>3. CASE Clear
    BY <2>1, <2>3, HistoriesAssumption DEF Clear, States
  <2>4. CASE Delete
    BY <2>1, <2>4 DEF Delete, States
  <2> QED
    BY <2>2, <2>3, <2>4
<1>3. Typed' /\ changes' # 0
  BY <1>1, <1>2 DEF IInv, Typed
<1>4. InLimit' /\ UpToTarget'
  BY <1>1 DEF IInv, InLimit, UpToTarget, Observed
<1>5. Empty' /\ Newest' /\ Missing'
  BY <1>1, <1>3 DEF Empty, Newest, Missing, Stable
<1> QED
  BY <1>3, <1>4, <1>5 DEF IInv

\* A step in which nothing happens keeps the invariant.
LEMMA StutterIInv == IInv /\ UNCHANGED vars => IInv'
<1> SUFFICES ASSUME IInv, UNCHANGED vars PROVE IInv'
  OBVIOUS
<1>1. UNCHANGED <<server, stamp, state, completed, target, phase, selected, pending, collected,
                  changes, torn>>
  BY DEF vars, airflow
<1>2. Typed' /\ Empty' /\ InLimit' /\ UpToTarget'
  BY <1>1 DEF IInv, Typed, Empty, InLimit, UpToTarget, Observed
<1>3. Newest' /\ Missing'
  BY <1>1, AirflowKept DEF IInv, Newest, Missing, Stable
<1> QED
  BY <1>2, <1>3 DEF IInv

\* The invariant is inductive.
LEMMA StepIInv == IInv /\ [Next]_vars => IInv'
BY ListFilteredIInv, ListAllIInv, FetchBatchIInv, FallBackIInv, FetchRunIInv, FailureIInv,
   ChangeIInv, StutterIInv DEF Next

\* The invariant is about each part of the selection; together they are the
\* property.
LEMMA Selection == IInv => NewestSelected
<1> SUFFICES ASSUME IInv PROVE NewestSelected
  OBVIOUS
<1>1. Observed \subseteq ToSet(selected) /\ Len(selected) <= HistoryLimit /\ selected \in Seq(Runs)
  BY DEF IInv, InLimit, Typed
<1>2. Cardinality(Observed) <= HistoryLimit
  <2>1. /\ IsFiniteSet(ToSet(selected)) /\ Cardinality(ToSet(selected)) <= Len(selected)
        /\ Len(selected) \in Nat
    BY <1>1, SizeFacts, ToSetFacts
  <2>2. Cardinality(Observed) <= Cardinality(ToSet(selected)) /\ IsFiniteSet(Observed)
    BY <1>1, <2>1, FS_Subset
  <2>3. Cardinality(Observed) \in Nat /\ Cardinality(ToSet(selected)) \in Nat
    BY <2>1, <2>2, FS_CardinalityType
  <2> QED
    BY <1>1, <2>1, <2>2, <2>3, HistoryLimitAssumption
<1>3. target # NoTarget =>
        \A r \in Observed : target \in ToSet(selected) /\ stamp[r] <= stamp[target]
  BY <1>1 DEF IInv, UpToTarget
<1>4. Newest /\ Missing
  BY DEF IInv
<1> QED
  BY <1>1, <1>2, <1>3, <1>4 DEF NewestSelected, Newest, NewestHistory, Missing

\* Whatever Airflow supports, changes and lists meanwhile, the engine sees at most
\* history_run_limit runs, of the window only and none newer than the target; and
\* while Airflow stands still the window is the newest history there is
\* (AirflowClient.collect_task_runs).
THEOREM SelectsTheNewest == Spec => []NewestSelected
<1> QED
  BY InitIInv, StepIInv, Selection, PTL DEF Spec

-------------------------------------------------------------------------------
(* The whole analysis: what its parts keep, besides IInv.                  *)

\* The task runs collected are the instances that succeeded in these runs, each once.
Gathered(runs) ==
  /\ IsInjective(collected)
  /\ ToSet(collected) = {o \in runs \X Tasks : o[2] \in completed[o[1]]}

\* While Airflow stands still, no run is listed twice, and what was fetched is whole.
Complete ==
  Stable => /\ phase \in {"fetch", "runByRun", "done"} => IsInjective(selected)
            /\ phase = "runByRun" => /\ IsInjective(pending)
                                     /\ Gathered(ToSet(selected) \ ToSet(pending))
            /\ phase = "done" => Gathered(ToSet(selected))

\* Nothing is collected before the fetch.
Unfetched == phase \in {"list", "fetch"} => collected = <<>>

\* A list of runs in the order of time; with a repeated run all at one place; with
\* nothing but the target after the target.
Aging(runs) == \A i, j \in DOMAIN runs : i <= j => stamp[runs[i]] <= stamp[runs[j]]
Together(runs) ==
  \A i, j, k \in DOMAIN runs : i <= j /\ j <= k /\ runs[i] = runs[k] => runs[j] = runs[i]
TargetLast(runs) ==
  \A i, j \in DOMAIN runs : i <= j /\ runs[i] = target => runs[j] = target

Steady(runs) == Aging(runs) /\ Together(runs) /\ TargetLast(runs)

RunsOf(observed) == [k \in DOMAIN observed |-> observed[k][1]]

\* Run by run, what was fetched and what is still to be are in this order.
InTime ==
  NoBatch =>
    /\ phase = "fetch" => Steady(selected)
    /\ phase \in {"runByRun", "done"} => Steady(RunsOf(collected) \o pending)

EnginePhases == {"collect", "tasks", "handoffs", "done"}

\* The engine begins with a whole collection, and since a stage of it ran, its
\* results are those of what was collected.
Analyzed ==
  /\ enginePhase \in EnginePhases
  /\ enginePhase # "collect" =>
       /\ phase = "done"
       /\ durations = [t \in Tasks |-> Engine!DurationHistory(t)]
       /\ drift = Engine!Compared(durations)
  /\ enginePhase = "tasks" => insufficient = Engine!TooShort(durations)
  /\ enginePhase \in {"handoffs", "done"} =>
       /\ delays = [e \in Engine!Edges |-> Engine!HandoffHistory(e)]
       /\ handoffDrift = Engine!Compared(delays)
       /\ insufficient = Engine!TooShort(durations) \cup Engine!TooShort(delays)
  /\ enginePhase = "done" /\ collected # <<>> => current = Last(collected)[1]

SystemIInv == IInv /\ Unfetched /\ Complete /\ InTime /\ Analyzed

-------------------------------------------------------------------------------
(* The order of the runs.                                                  *)

\* s has elements of t, in the order of t, some of them left out or repeated.
Follows(s, t) ==
  \E p : /\ \A k \in DOMAIN s : p[k] \in DOMAIN t /\ s[k] = t[p[k]]
        /\ \A i, j \in DOMAIN s : i <= j => p[i] <= p[j]

\* To leave out or to repeat elements on the spot disturbs no order.
LEMMA FollowsKeeps ==
  ASSUME NEW s \in Seq(Runs), NEW t \in Seq(Runs), Follows(s, t)
  PROVE  /\ Together(t) => Together(s)
         /\ Aging(t) => Aging(s)
         /\ TargetLast(t) => TargetLast(s)
<1>1. PICK p : /\ \A k \in DOMAIN s : p[k] \in DOMAIN t /\ s[k] = t[p[k]]
               /\ \A i, j \in DOMAIN s : i <= j => p[i] <= p[j]
  BY DEF Follows
<1>2. Together(t) => Together(s)
  BY <1>1 DEF Together
<1>3. Aging(t) => Aging(s)
  BY <1>1 DEF Aging
<1>4. TargetLast(t) => TargetLast(s)
  BY <1>1 DEF TargetLast
<1> QED
  BY <1>2, <1>3, <1>4

\* The window, and the runs that are kept, follow the list they are taken from.
LEMMA PartsFollow ==
  ASSUME NEW list \in Seq(Runs)
  PROVE  /\ \A last \in 0..Len(list) : Follows(Window(list, last), list)
         /\ \A S : Follows(Only(list, S), list)
         /\ Follows(Front1(list, HistoryLimit), list)
<1>1. Len(list) \in Nat /\ DOMAIN list = 1..Len(list)
  OBVIOUS
<1>2. ASSUME NEW last \in 0..Len(list) PROVE Follows(Window(list, last), list)
  <2> DEFINE w == Window(list, last)
             lo == IF last > HistoryLimit THEN last - HistoryLimit ELSE 0
             p == [k \in 1..Len(w) |-> k + lo]
  <2>1. /\ w \in Seq(Runs) /\ lo \in 0..last
        /\ \A k \in 1..Len(w) : k + lo \in 1..last /\ w[k] = list[k + lo]
    BY WindowFacts
  <2> HIDE DEF w, lo
  <2>2. DOMAIN w = 1..Len(w) /\ Len(w) \in Nat
    BY <2>1
  <2>3. p \in [DOMAIN w -> DOMAIN list] /\ \A k \in DOMAIN w : w[k] = list[p[k]]
    BY <1>1, <2>1, <2>2
  <2>4. \A i, j \in DOMAIN w : i <= j => p[i] <= p[j]
    BY <2>1, <2>2
  <2> HIDE DEF p
  <2>5. Follows(w, list)
    BY <2>3, <2>4 DEF Follows
  <2> QED
    BY <2>5 DEF w
<1>3. ASSUME NEW S PROVE Follows(Only(list, S), list)
  <2> DEFINE s == Only(list, S)
  <2>1. s \in Seq(Runs \cap S)
    BY OnlyKeeps
  <2>2. PICK p : At(p, list, s) /\ \A i, j \in DOMAIN s : i < j => p[i] < p[j]
    BY OnlyKeeps
  <2> HIDE DEF s
  <2>3. \A i \in DOMAIN s : i \in Int /\ p[i] \in Int
    BY <1>1, <2>1, <2>2 DEF At
  <2>4. \A i, j \in DOMAIN s : i <= j => p[i] <= p[j]
    BY <2>2, <2>3
  <2>5. \A k \in DOMAIN s : p[k] \in DOMAIN list /\ s[k] = list[p[k]]
    BY <2>2 DEF At
  <2> QED
    BY <2>4, <2>5 DEF Follows, s
<1>4. Follows(Front1(list, HistoryLimit), list)
  <2> DEFINE n == IF HistoryLimit <= Len(list) THEN HistoryLimit ELSE Len(list)
             s == Front1(list, HistoryLimit)
             p == [k \in 1..n |-> k]
  <2>1. n \in 0..Len(list) /\ s = SubSeq(list, 1, n)
    BY <1>1, HistoryLimitAssumption DEF Front1
  <2> HIDE DEF n, s
  <2>2. DOMAIN s = 1..n /\ \A k \in 1..n : s[k] = list[k]
    BY <2>1
  <2>3. /\ \A k \in DOMAIN s : p[k] \in DOMAIN list /\ s[k] = list[p[k]]
        /\ \A i, j \in DOMAIN s : i <= j => p[i] <= p[j]
    BY <1>1, <2>1, <2>2
  <2> QED
    BY <2>3 DEF Follows, s
<1> QED
  BY <1>2, <1>3, <1>4

\* What is left of a list after its first i elements.
LEMMA RestFacts ==
  ASSUME NEW list \in Seq(Runs), NEW i \in 0..Len(list)
  PROVE  LET b == SubSeq(list, i + 1, Len(list))
         IN  /\ b \in Seq(Runs) /\ Len(b) = Len(list) - i
             /\ \A k \in 1..Len(list) - i : b[k] = list[k + i]
<1>1. Len(list) \in Nat /\ i \in Int /\ i <= Len(list)
  OBVIOUS
<1> QED
  BY <1>1

\* Two lists, one after the other.
LEMMA JoinedAt ==
  ASSUME NEW S, NEW a \in Seq(S), NEW b \in Seq(S)
  PROVE  /\ a \o b \in Seq(S) /\ Len(a \o b) = Len(a) + Len(b)
         /\ \A k \in 1..Len(a \o b) : (a \o b)[k] = IF k <= Len(a) THEN a[k] ELSE b[k - Len(a)]
<1>1. /\ a \o b \in Seq(S) /\ Len(a \o b) = Len(a) + Len(b)
      /\ \A k \in 1..Len(a) + Len(b) :
           (a \o b)[k] = IF k <= Len(a) THEN a[k] ELSE b[k - Len(a)]
  BY ConcatProperties
<1> QED
  BY <1>1

\* So does the list that paging made of another one.
LEMMA PagedFollows ==
  ASSUME NEW list \in Seq(Runs), NEW tear \in Tears, NEW l \in Paged(list, tear)
  PROVE  Follows(l, list)
<1>1. Len(list) \in Nat /\ DOMAIN list = 1..Len(list)
  OBVIOUS
<1> DEFINE n == Len(list)
<1>2. CASE tear = "no"
  <2> DEFINE p == [k \in 1..n |-> k]
  <2>1. l = list
    BY <1>2 DEF Paged
  <2>2. /\ \A k \in DOMAIN l : p[k] \in DOMAIN list /\ l[k] = list[p[k]]
        /\ \A i, j \in DOMAIN l : i <= j => p[i] <= p[j]
    BY <1>1, <2>1
  <2> QED
    BY <2>2 DEF Follows
<1>3. CASE tear = "repeat"
  <2>1. PICK i \in 1..n : l = InsertAt(list, i + 1, list[i])
    BY <1>1, <1>3 DEF Paged
  <2> DEFINE p == [k \in 1..n + 1 |-> IF k <= i THEN k ELSE k - 1]
             a == SubSeq(list, 1, i)
             m == <<list[i]>>
             b == SubSeq(list, i + 1, n)
             c == a \o m
  <2>2. l = c \o b
    <3>1. (i + 1) - 1 = i
      BY <1>1, <2>1
    <3> QED
      BY <2>1, <3>1 DEF InsertAt
  <2>3. i \in 1..Len(list) /\ i \in 0..Len(list) /\ n = Len(list)
    BY <1>1, <2>1
  <2> HIDE DEF n
  <2>4. a \in Seq(Runs) /\ Len(a) = i /\ \A k \in 1..i : a[k] = list[k]
    BY <1>1, <2>3
  <2>5. b \in Seq(Runs) /\ Len(b) = n - i /\ \A k \in 1..n - i : b[k] = list[k + i]
    BY <1>1, <2>3, RestFacts
  <2>6. m \in Seq(Runs) /\ Len(m) = 1 /\ m[1] = list[i]
    BY <1>1, <2>3
  <2> HIDE DEF a, m, b
  <2>7. /\ c \in Seq(Runs) /\ Len(c) = i + 1
        /\ \A k \in 1..i + 1 : c[k] = list[IF k <= i THEN k ELSE k - 1]
    <3>1. /\ c \in Seq(Runs) /\ Len(c) = i + 1
          /\ \A k \in 1..i + 1 : c[k] = IF k <= i THEN a[k] ELSE m[k - i]
      <4>1. i + 1 = Len(a) + Len(m)
        BY <2>4, <2>6
      <4>2. /\ c \in Seq(Runs) /\ Len(c) = Len(a) + Len(m)
            /\ \A k \in 1..Len(c) : c[k] = IF k <= Len(a) THEN a[k] ELSE m[k - Len(a)]
        BY <2>4, <2>6, JoinedAt
      <4> HIDE DEF c
      <4> QED
        BY <2>4, <4>1, <4>2
    <3> HIDE DEF c
    <3>2. c[i + 1] = list[i]
      <4>1. i + 1 \in 1..i + 1 /\ ~(i + 1 <= i) /\ (i + 1) - i = 1
        BY <1>1, <2>3
      <4> QED
        BY <2>6, <3>1, <4>1
    <3>3. \A k \in 1..i + 1 : k <= i \/ k = i + 1
      BY <1>1, <2>3
    <3>4. ~(i + 1 <= i) /\ (i + 1) - 1 = i /\ \A k \in 1..i + 1 : k <= i => k \in 1..i
      BY <1>1, <2>3
    <3> QED
      BY <2>4, <3>1, <3>2, <3>3, <3>4
  <2> HIDE DEF c
  <2>8. /\ Len(l) = n + 1 /\ l \in Seq(Runs)
        /\ \A k \in 1..n + 1 : l[k] = IF k <= i + 1 THEN c[k] ELSE b[k - (i + 1)]
    <3>1. n + 1 = Len(c) + Len(b)
      BY <1>1, <2>3, <2>5, <2>7
    <3> QED
      <4>1. /\ l \in Seq(Runs) /\ Len(l) = Len(c) + Len(b)
            /\ \A k \in 1..Len(l) : l[k] = IF k <= Len(c) THEN c[k] ELSE b[k - Len(c)]
        BY <2>2, <2>5, <2>7, JoinedAt
      <4> QED
        BY <2>7, <3>1, <4>1
  <2>9. \A k \in 1..n + 1 : l[k] = list[p[k]] /\ p[k] \in 1..n
    <3> SUFFICES ASSUME NEW k \in 1..n + 1
                 PROVE  l[k] = list[p[k]] /\ p[k] \in 1..n
      OBVIOUS
    <3>1. CASE k <= i + 1
      BY <1>1, <2>3, <2>7, <2>8, <3>1
    <3>2. CASE k > i + 1
      <4>1. k - (i + 1) \in 1..n - i /\ k - (i + 1) + i = k - 1 /\ ~(k <= i)
            /\ ~(k <= i + 1) /\ p[k] = k - 1 /\ k - 1 \in 1..n
        BY <1>1, <2>3, <3>2
      <4>2. b[k - (i + 1)] = list[k - 1]
        BY <2>5, <4>1
      <4> QED
        BY <2>8, <4>1, <4>2
    <3> QED
      BY <1>1, <2>3, <3>1, <3>2
  <2>10. \A j, k \in 1..n + 1 : j <= k => p[j] <= p[k]
    BY <1>1, <2>3
  <2>11. DOMAIN l = 1..n + 1 /\ DOMAIN list = 1..n
    BY <1>1, <2>3, <2>8
  <2> HIDE DEF p
  <2> QED
    BY <2>9, <2>10, <2>11 DEF Follows
<1>4. CASE tear = "skip"
  <2>1. PICK i \in 1..n : l = RemoveAt(list, i)
    BY <1>1, <1>4 DEF Paged
  <2> DEFINE p == [k \in 1..n - 1 |-> IF k < i THEN k ELSE k + 1]
             a == SubSeq(list, 1, i - 1)
             b == SubSeq(list, i + 1, n)
  <2>2. l = a \o b
    BY <2>1 DEF RemoveAt
  <2>3. i \in 1..Len(list) /\ i \in 0..Len(list) /\ i - 1 \in 0..Len(list) /\ n = Len(list)
    BY <1>1, <2>1
  <2> HIDE DEF n
  <2>4. a \in Seq(Runs) /\ Len(a) = i - 1 /\ \A k \in 1..i - 1 : a[k] = list[k]
    BY <1>1, <2>3
  <2>5. b \in Seq(Runs) /\ Len(b) = n - i /\ \A k \in 1..n - i : b[k] = list[k + i]
    BY <1>1, <2>3, RestFacts
  <2> HIDE DEF a, b
  <2>6. /\ l \in Seq(Runs) /\ Len(l) = n - 1
        /\ \A k \in 1..n - 1 : l[k] = IF k <= i - 1 THEN a[k] ELSE b[k - (i - 1)]
    <3>1. n - 1 = Len(a) + Len(b)
      BY <1>1, <2>3, <2>4, <2>5
    <3> QED
      <4>1. /\ l \in Seq(Runs) /\ Len(l) = Len(a) + Len(b)
            /\ \A k \in 1..Len(l) : l[k] = IF k <= Len(a) THEN a[k] ELSE b[k - Len(a)]
        BY <2>2, <2>4, <2>5, JoinedAt
      <4> QED
        BY <2>4, <3>1, <4>1
  <2>7. \A k \in 1..n - 1 : l[k] = list[p[k]] /\ p[k] \in 1..n
    <3> SUFFICES ASSUME NEW k \in 1..n - 1
                 PROVE  l[k] = list[p[k]] /\ p[k] \in 1..n
      OBVIOUS
    <3>1. CASE k < i
      BY <1>1, <2>3, <2>4, <2>6, <3>1
    <3>2. CASE ~(k < i)
      <4>1. k - (i - 1) \in 1..n - i /\ k - (i - 1) + i = k + 1 /\ ~(k <= i - 1)
            /\ p[k] = k + 1 /\ k + 1 \in 1..n
        BY <1>1, <2>3, <3>2
      <4>2. b[k - (i - 1)] = list[k + 1]
        BY <2>5, <4>1
      <4> QED
        BY <2>6, <4>1, <4>2
    <3> QED
      BY <3>1, <3>2
  <2>8. \A j, k \in 1..n - 1 : j <= k => p[j] <= p[k]
    BY <1>1, <2>3
  <2>9. DOMAIN l = 1..n - 1 /\ DOMAIN list = 1..n
    BY <1>1, <2>3, <2>6
  <2> HIDE DEF p
  <2> QED
    BY <2>7, <2>8, <2>9 DEF Follows
<1> QED
  BY <1>2, <1>3, <1>4 DEF Tears

\* A stable sort leaves together what was together, and repeats nothing.
LEMMA SortedTogether ==
  ASSUME stamp \in [Runs -> Nat], NEW list \in Seq(Runs)
  PROVE  /\ Aging(ByTimestamp(list))
         /\ Together(list) => Together(ByTimestamp(list))
         /\ IsInjective(list) => IsInjective(ByTimestamp(list))
<1> DEFINE s == ByTimestamp(list)
<1>1. stamp \in [Runs -> Int]
  OBVIOUS
<1>2. s \in Seq(Runs) /\ Len(s) = Len(list)
  BY <1>1, SortedByRank DEF ByTimestamp
<1>3. PICK p : /\ At(p, list, s)
               /\ \A i, j \in DOMAIN list : i < j => InOrder(stamp, s, p, i, j)
  BY <1>1, SortedByRank DEF ByTimestamp
<1> HIDE DEF s
<1>4. /\ DOMAIN list = DOMAIN s /\ DOMAIN s = 1..Len(s) /\ Len(s) \in Nat
      /\ \A k \in DOMAIN s : s[k] \in Runs /\ stamp[s[k]] \in Int
  BY <1>1, <1>2
<1>5. \A k \in DOMAIN s : p[k] \in DOMAIN list /\ p[k] \in Int /\ s[k] = list[p[k]]
  BY <1>3, <1>4 DEF At
<1>6. ASSUME NEW i \in DOMAIN s, NEW j \in DOMAIN s, i <= j
      PROVE  /\ stamp[s[i]] <= stamp[s[j]]
             /\ stamp[s[i]] = stamp[s[j]] => p[i] <= p[j]
             /\ i < j /\ stamp[s[i]] = stamp[s[j]] => p[i] < p[j]
  <2>1. CASE i = j
    BY <1>4, <1>5, <2>1
  <2>2. CASE i < j
    <3>1. \/ stamp[s[i]] < stamp[s[j]]
          \/ stamp[s[i]] = stamp[s[j]] /\ p[i] < p[j]
      BY <1>3, <1>4, <2>2 DEF InOrder
    <3> QED
      BY <1>4, <1>5, <3>1
  <2> QED
    BY <1>4, <1>6, <2>1, <2>2
<1>7. Aging(s)
  BY <1>6 DEF Aging
<1>8. ASSUME Together(list), NEW i \in DOMAIN s, NEW j \in DOMAIN s, NEW k \in DOMAIN s,
             i <= j, j <= k, s[i] = s[k]
      PROVE  s[j] = s[i]
  <2>1. i <= k /\ stamp[s[i]] = stamp[s[j]] /\ stamp[s[j]] = stamp[s[k]]
    BY <1>4, <1>6, <1>8
  <2>2. p[i] <= p[j] /\ p[j] <= p[k] /\ list[p[i]] = list[p[k]]
    BY <1>5, <1>6, <1>8, <2>1
  <2> QED
    BY <1>5, <1>8, <2>2 DEF Together
<1>9. ASSUME IsInjective(list), NEW i \in DOMAIN s, NEW j \in DOMAIN s, s[i] = s[j]
      PROVE  i = j
  <2>1. p[i] = p[j]
    BY <1>5, <1>9 DEF IsInjective
  <2>2. ~(i < j) /\ ~(j < i)
    BY <1>4, <1>5, <1>6, <1>9, <2>1
  <2> QED
    BY <1>4, <2>2
<1> QED
  BY <1>7, <1>8, <1>9 DEF Together, IsInjective, s

\* What Select keeps of a list without scattered repetitions is in the order of time,
\* and without any if the list is.
LEMMA SelectedInTime ==
  ASSUME stamp \in [Runs -> Nat], NEW list \in Seq(Runs), Together(list),
         NEW last, EndsAt(ByTimestamp(list), last)
  PROVE  LET w == Window(ByTimestamp(list), last)
         IN  Steady(w) /\ (IsInjective(list) => IsInjective(w))
<1> DEFINE s == ByTimestamp(list)
           w == Window(s, last)
           lo == IF last > HistoryLimit THEN last - HistoryLimit ELSE 0
<1>1. s \in Seq(Runs) /\ Aging(s) /\ Together(s) /\ (IsInjective(list) => IsInjective(s))
  BY SortedFacts, SortedTogether
<1>2. last \in 0..Len(s) /\ (target # NoTarget => last \in 1..Len(s) /\ s[last] = target)
  BY DEF EndsAt
<1> HIDE DEF s
<1>3. /\ w \in Seq(Runs) /\ lo \in 0..last /\ Len(w) = last - lo
      /\ \A k \in 1..Len(w) : k + lo \in 1..last /\ w[k] = s[k + lo]
  BY <1>1, <1>2, WindowFacts
<1>4. Follows(w, s)
  BY <1>1, <1>2, PartsFollow
<1> HIDE DEF w, lo
<1>5. Aging(w) /\ Together(w)
  BY <1>1, <1>3, <1>4, FollowsKeeps
<1>6. DOMAIN w = 1..Len(w) /\ Len(s) \in Nat /\ DOMAIN s = 1..Len(s)
  BY <1>1, <1>3
<1>7. ASSUME NEW i \in DOMAIN w, NEW j \in DOMAIN w, i <= j, w[i] = target
      PROVE  w[j] = target
  <2>1. target # NoTarget
    <3>1. w[i] \in Runs
      BY <1>3
    <3> QED
      BY <1>7, <3>1 DEF NoTarget, Runs
  <2>2. /\ i + lo <= j + lo /\ j + lo <= last /\ s[i + lo] = s[last]
        /\ i + lo \in DOMAIN s /\ j + lo \in DOMAIN s /\ last \in DOMAIN s
    BY <1>2, <1>3, <1>6, <1>7, <2>1
  <2>3. s[j + lo] = s[i + lo]
    BY <1>1, <2>2 DEF Together
  <2> QED
    BY <1>3, <1>6, <1>7, <2>3
<1>8. ASSUME IsInjective(s), NEW i \in DOMAIN w, NEW j \in DOMAIN w, w[i] = w[j]
      PROVE  i = j
  <2>1. i + lo \in 1..last /\ w[i] = s[i + lo] /\ j + lo \in 1..last /\ w[j] = s[j + lo]
    BY <1>3, <1>6
  <2>3. \A k \in 1..last : k \in DOMAIN s
    BY <1>2, <1>6
  <2>4. i + lo \in DOMAIN s /\ j + lo \in DOMAIN s /\ s[i + lo] = s[j + lo]
    BY <1>8, <2>1, <2>3
  <2>2. i + lo = j + lo
    BY <1>8, <2>4 DEF IsInjective
  <2> QED
    BY <1>3, <1>6, <2>2
<1> QED
  BY <1>1, <1>5, <1>7, <1>8 DEF Steady, TargetLast, IsInjective, w, s

-------------------------------------------------------------------------------
(* The collection keeps its task runs whole and in order.                  *)

CollectionIInv == Unfetched /\ Complete /\ InTime

\* A list in which no run is repeated is steady.
LEMMA InjectiveIsTogether ==
  ASSUME NEW s \in Seq(Runs), IsInjective(s)
  PROVE  Together(s)
<1>1. \A i \in DOMAIN s : i \in Int
  OBVIOUS
<1> QED
  BY <1>1 DEF Together, IsInjective

\* Steadiness depends on the timestamps and the target only.
LEMMA SteadyKept ==
  ASSUME UNCHANGED <<stamp, target>>, NEW s
  PROVE  Steady(s)' <=> Steady(s')
BY DEF Steady, Aging, Together, TargetLast

\* Whatever list the runs are selected from, the selection is steady and, while
\* Airflow stands still, without repetition.
LEMMA ListingInTime ==
  ASSUME IInv, Unfetched, phase = "list", UNCHANGED <<airflow, target, pending, collected>>,
         NEW list \in Seq(Runs), Together(list), Select(list),
         changes' = 0 => IsInjective(list)
  PROVE  CollectionIInv'
<1>1. /\ stamp \in [Runs -> Nat] /\ collected = <<>> /\ collected' = <<>>
      /\ pending \in Seq(Runs) /\ pending' = pending
      /\ UNCHANGED <<server, stamp, state, completed, target>>
  BY DEF IInv, Typed, Unfetched, airflow
<1>2. pending' = <<>>
  <2>1. ToSet(pending) = {}
    BY DEF IInv, Empty, InLimit, ToSet
  <2>2. \A k \in 1..Len(pending) : FALSE
    BY <1>1, <2>1, ToSetFacts
  <2> QED
    BY <1>1, <2>2
<1>3. CASE phase' = "notFound"
  BY <1>1, <1>3 DEF CollectionIInv, Unfetched, Complete, InTime
<1>4. ASSUME phase' \in {"fetch", "done"}, phase' = "done" => ByTimestamp(list) = <<>>,
             NEW last, EndsAt(ByTimestamp(list), last), selected' = Window(ByTimestamp(list), last)
      PROVE  CollectionIInv'
  <2> DEFINE w == Window(ByTimestamp(list), last)
  <2>1. Steady(w) /\ (IsInjective(list) => IsInjective(w))
    BY <1>1, <1>4, SelectedInTime
  <2>2. selected' = w
    BY <1>4
  <2>3. phase' = "done" => ToSet(w) = {}
    <3> SUFFICES ASSUME phase' = "done" PROVE ToSet(w) = {}
      OBVIOUS
    <3>1. ByTimestamp(list) = <<>> /\ ByTimestamp(list) \in Seq(Runs)
      BY <1>4
    <3>2. last \in 0..Len(ByTimestamp(list)) /\ Len(ByTimestamp(list)) = 0
      BY <1>4, <3>1 DEF EndsAt
    <3>3. \A r : r \in ToSet(w) <=> \E k \in 1..last : k > (IF last > HistoryLimit THEN last - HistoryLimit ELSE 0)
                                                        /\ ByTimestamp(list)[k] = r
      BY <3>1, <3>2, WindowFacts
    <3>4. \A r : r \notin ToSet(w)
      BY <3>2, <3>3
    <3> QED
      BY <3>4
  <2> HIDE DEF w
  <2>4. Unfetched'
    BY <1>1 DEF Unfetched
  <2>5. Complete'
    <3>1. Gathered({})'
      BY <1>1 DEF Gathered, IsInjective, ToSet
    <3>2. phase' = "done" => Gathered(ToSet(selected))'
      BY <2>2, <2>3, <3>1 DEF Gathered
    <3> QED
      BY <1>4, <2>1, <2>2, <3>2 DEF Complete, Stable
  <2>6. InTime'
    <3>1. phase' = "fetch" => Steady(selected)'
      BY <1>1, <2>1, <2>2, SteadyKept
    <3>2. RunsOf(collected') \o pending' = <<>>
      BY <1>1, <1>2 DEF RunsOf
    <3>3. Steady(<<>>)'
      BY DEF Steady, Aging, Together, TargetLast
    <3>4. Steady(RunsOf(collected) \o pending)'
      BY <1>1, <3>2, <3>3, SteadyKept
    <3> QED
      BY <1>4, <3>1, <3>4 DEF InTime
  <2> QED
    BY <2>4, <2>5, <2>6 DEF CollectionIInv
<1> QED
  BY <1>1, <1>3, <1>4, SelectFacts

\* The list that the server filters hands on the runs in their order.
LEMMA ListFilteredInTime == IInv /\ CollectionIInv /\ ListFiltered => CollectionIInv'
<1> SUFFICES ASSUME IInv, CollectionIInv, ListFiltered PROVE CollectionIInv'
  OBVIOUS
<1>1. PICK tear \in Tears, newest \in NewestFirst(Successful) :
        /\ Tear(tear)
        /\ \E list \in Paged(newest, tear) : Select(Front1(list, HistoryLimit))
  BY DEF ListFiltered
<1>2. PICK list \in Paged(newest, tear) : Select(Front1(list, HistoryLimit))
  BY <1>1
<1>3. /\ phase = "list" /\ UNCHANGED <<airflow, target, pending, collected>>
      /\ changes \in Nat /\ Unfetched
  BY DEF ListFiltered, IInv, Typed, CollectionIInv
<1>4. newest \in Seq(Runs) /\ IsInjective(newest)
  BY NewestFirstFacts DEF Successful
<1>5. list \in Seq(Runs) /\ (tear = "no" => list = newest) /\ Follows(list, newest)
  BY <1>4, PagedFacts, PagedFollows
<1> DEFINE front == Front1(list, HistoryLimit)
<1>6. front \in Seq(Runs)
  BY <1>5, HistoryLimitAssumption DEF Front1
<1>7. Follows(front, list)
  BY <1>5, PartsFollow
<1>8. Select(front)
  BY <1>2
<1>9. changes' = 0 => tear = "no"
  BY <1>1, <1>3 DEF Tear
<1>10. IsInjective(list) => IsInjective(front)
  <2>1. Len(list) \in Nat /\ DOMAIN list = 1..Len(list)
    BY <1>5
  <2> DEFINE n == IF HistoryLimit <= Len(list) THEN HistoryLimit ELSE Len(list)
  <2>2. n \in 0..Len(list) /\ front = SubSeq(list, 1, n)
    BY <2>1, HistoryLimitAssumption DEF Front1
  <2> HIDE DEF n, front
  <2>3. DOMAIN front = 1..n /\ \A k \in 1..n : front[k] = list[k] /\ k \in DOMAIN list
    BY <1>5, <2>1, <2>2
  <2> QED
    BY <2>3 DEF IsInjective
<1> HIDE DEF front
<1>11. Together(front)
  BY <1>4, <1>5, <1>6, <1>7, InjectiveIsTogether, FollowsKeeps
<1> QED
  BY <1>3, <1>4, <1>5, <1>6, <1>8, <1>9, <1>10, <1>11, ListingInTime

\* So does the list that is filtered here.
LEMMA ListAllInTime == IInv /\ CollectionIInv /\ ListAll => CollectionIInv'
<1> SUFFICES ASSUME IInv, CollectionIInv, ListAll PROVE CollectionIInv'
  OBVIOUS
<1>1. PICK tear \in Tears :
        /\ Tear(tear)
        /\ \E list \in Paged(Ascending(Existing), tear) : Select(Only(list, Successful))
  BY DEF ListAll
<1>2. PICK list \in Paged(Ascending(Existing), tear) : Select(Only(list, Successful))
  BY <1>1
<1>3. /\ phase = "list" /\ UNCHANGED <<airflow, target, pending, collected>>
      /\ changes \in Nat /\ Unfetched
  BY DEF ListAll, IInv, Typed, CollectionIInv
<1> DEFINE all == Ascending(Existing)
           only == Only(list, Successful)
<1>4. /\ all \in Seq(Runs)
      /\ \A i, j \in 1..Len(all) : i < j => all[i] < all[j]
  BY AscendingFacts DEF Existing
<1>5. /\ list \in Seq(Runs) /\ Follows(list, all) /\ (tear = "no" => list = all)
  BY <1>4, PagedFacts, PagedFollows
<1>6. /\ only \in Seq(Runs) /\ Follows(only, list)
      /\ (\A i, j \in 1..Len(list) : i < j => list[i] < list[j]) =>
           \A i, j \in 1..Len(only) : i < j => only[i] < only[j]
  BY <1>5, OnlyFacts, PartsFollow
<1>7. changes' = 0 => tear = "no"
  BY <1>1, <1>3 DEF Tear
<1>8. Select(only)
  BY <1>2
<1> HIDE DEF all, only
<1>9. ASSUME NEW s \in Seq(Runs), \A i, j \in 1..Len(s) : i < j => s[i] < s[j]
      PROVE  IsInjective(s)
  <2>1. DOMAIN s = 1..Len(s) /\ \A i \in 1..Len(s) : s[i] \in Int
    <3>1. \A r \in Runs : r \in Int
      BY DEF Runs
    <3>2. DOMAIN s = 1..Len(s) /\ \A i \in 1..Len(s) : s[i] \in Runs
      OBVIOUS
    <3> QED
      BY <3>1, <3>2
  <2>2. \A i, j \in 1..Len(s) : s[i] = s[j] => ~(i < j) /\ ~(j < i)
    BY <1>9, <2>1
  <2>3. \A i, j \in 1..Len(s) : ~(i < j) /\ ~(j < i) => i = j
    OBVIOUS
  <2> QED
    BY <2>1, <2>2, <2>3 DEF IsInjective
<1>10. IsInjective(all) /\ (changes' = 0 => IsInjective(only))
  BY <1>4, <1>5, <1>6, <1>7, <1>9
<1>11. Together(only)
  BY <1>4, <1>5, <1>6, <1>10, InjectiveIsTogether, FollowsKeeps
<1> QED
  BY <1>3, <1>6, <1>8, <1>10, <1>11, ListingInTime

\* A batch is whole, as far as the window goes.
LEMMA FetchBatchInTime == IInv /\ CollectionIInv /\ FetchBatch => CollectionIInv'
<1> SUFFICES ASSUME IInv, CollectionIInv, FetchBatch PROVE CollectionIInv'
  OBVIOUS
<1> DEFINE found == IF server = "lenient" THEN Existing \X Tasks ELSE Succeeded(ToSet(selected))
<1>1. PICK batch \in BatchOrders(found) : collected' = InWindow(batch)
  BY DEF FetchBatch
<1>2. found \in SUBSET (Runs \X Tasks)
  <2>1. ToSet(selected) \subseteq Runs
    BY DEF IInv, Typed, ToSet
  <2> QED
    BY <2>1 DEF Existing, Succeeded
<1>3. batch \in Seq(Runs \X Tasks) /\ IsInjective(batch) /\ ToSet(batch) = found
  <2> HIDE DEF found
  <2> QED
    BY <1>2, BatchFacts
<1>4. IsInjective(collected') /\ ToSet(collected') = found \cap Succeeded(ToSet(selected))
  <2> HIDE DEF found
  <2> QED
    BY <1>1, <1>3, InWindowFacts
<1>5. /\ phase = "fetch" /\ phase' = "done" /\ ~NoBatch
      /\ UNCHANGED <<server, stamp, state, completed, target, selected, pending, changes, torn>>
  BY DEF FetchBatch, airflow
<1>6. Stable => ToSet(selected) \subseteq Existing
  <2>1. Stable => ToSet(selected) \subseteq Eligible
    BY <1>5 DEF IInv, Newest, NewestHistory
  <2> QED
    BY <2>1 DEF Eligible, Successful, Existing
<1>7. Stable => Gathered(ToSet(selected))'
  <2> SUFFICES ASSUME Stable PROVE Gathered(ToSet(selected))'
    OBVIOUS
  <2>1. found \cap Succeeded(ToSet(selected)) = Succeeded(ToSet(selected))
    BY <1>6 DEF Succeeded
  <2>2. ToSet(collected') = {o \in ToSet(selected) \X Tasks : o[2] \in completed[o[1]]}
    <3> HIDE DEF found
    <3> QED
      BY <1>4, <2>1 DEF Succeeded
  <2> QED
    BY <1>4, <1>5, <2>2 DEF Gathered
<1>8. Complete'
  BY <1>5, <1>7 DEF CollectionIInv, Complete, Stable
<1> QED
  BY <1>5, <1>8 DEF CollectionIInv, Unfetched, InTime

\* What is still to be fetched run by run is the window.
LEMMA FallBackInTime == IInv /\ CollectionIInv /\ FallBack => CollectionIInv'
<1> SUFFICES ASSUME IInv, CollectionIInv, FallBack PROVE CollectionIInv'
  OBVIOUS
<1>1. /\ phase = "fetch" /\ phase' = "runByRun" /\ NoBatch /\ pending' = selected
      /\ UNCHANGED <<server, stamp, state, completed, target, selected, collected, changes, torn>>
      /\ collected = <<>> /\ selected \in Seq(Runs)
  BY DEF FallBack, airflow, CollectionIInv, Unfetched, IInv, Typed
<1>2. Complete'
  <2>1. Gathered({})'
    BY <1>1 DEF Gathered, IsInjective, ToSet
  <2>2. ToSet(selected') \ ToSet(pending') = {}
    BY <1>1
  <2>3. Gathered(ToSet(selected) \ ToSet(pending))'
    BY <2>1, <2>2 DEF Gathered
  <2> QED
    BY <1>1, <2>3 DEF CollectionIInv, Complete, Stable
<1>3. InTime'
  <2>1. RunsOf(collected') \o pending' = selected
    BY <1>1 DEF RunsOf
  <2>2. Steady(selected)
    BY <1>1 DEF CollectionIInv, InTime
  <2>3. Steady(RunsOf(collected) \o pending)'
    BY <1>1, <2>1, <2>2, SteadyKept
  <2> QED
    BY <1>1, <2>3 DEF InTime
<1> QED
  BY <1>1, <1>2, <1>3 DEF CollectionIInv, Unfetched

\* To put the instances of the next run in the place of the run disturbs no order.
LEMMA RouteFollows ==
  ASSUME NEW seen \in Seq(Runs), NEW next \in Seq(Runs), next # <<>>,
         NEW more \in Seq(Runs), \A k \in DOMAIN more : more[k] = Head(next)
  PROVE  Follows((seen \o more) \o Tail(next), seen \o next)
<1> DEFINE n == Len(seen)
           m == Len(more)
           t == seen \o next
           u == seen \o more
           rest == Tail(next)
           s == u \o rest
           p == [k \in 1..Len(s) |-> IF k <= n THEN k ELSE IF k <= n + m THEN n + 1 ELSE k - m + 1]
<1>1. n \in Nat /\ m \in Nat /\ Len(next) \in Nat /\ Len(next) >= 1
  OBVIOUS
<1>2. /\ rest \in Seq(Runs) /\ Len(rest) = Len(next) - 1 /\ Head(next) = next[1]
      /\ \A k \in 1..Len(rest) : rest[k] = next[k + 1]
  BY <1>1
<1>3. /\ t \in Seq(Runs) /\ Len(t) = n + Len(next)
      /\ \A k \in 1..Len(t) : t[k] = IF k <= n THEN seen[k] ELSE next[k - n]
  BY JoinedAt
<1>4. /\ u \in Seq(Runs) /\ Len(u) = n + m
      /\ \A k \in 1..Len(u) : u[k] = IF k <= n THEN seen[k] ELSE more[k - n]
  BY JoinedAt
<1> HIDE DEF t, u, rest
<1>5. /\ s \in Seq(Runs) /\ Len(s) = Len(u) + Len(rest)
      /\ \A k \in 1..Len(s) : s[k] = IF k <= Len(u) THEN u[k] ELSE rest[k - Len(u)]
  <2>1. u \in Seq(Runs) /\ rest \in Seq(Runs)
    BY <1>2, <1>4
  <2> QED
    BY <2>1, JoinedAt
<1>6. \A k \in 1..m : more[k] = next[1]
  BY <1>2
<1> HIDE DEF s, n, m
<1>7. Len(s) = n + m + Len(next) - 1 /\ Len(t) = n + Len(next) /\ Len(u) = n + m
  BY <1>1, <1>2, <1>3, <1>4, <1>5
<1>8. ASSUME NEW k \in 1..Len(s)
      PROVE  p[k] \in 1..Len(t) /\ s[k] = t[p[k]]
  <2>1. CASE k <= n
    <3>1. k \in 1..Len(t) /\ k \in 1..Len(u) /\ p[k] = k
      BY <1>1, <1>7, <2>1
    <3> QED
      BY <1>3, <1>4, <1>5, <1>7, <2>1, <3>1
  <2>2. CASE ~(k <= n) /\ k <= n + m
    <3>1. /\ n + 1 \in 1..Len(t) /\ k \in 1..Len(u) /\ p[k] = n + 1 /\ k - n \in 1..m
          /\ ~(n + 1 <= n) /\ (n + 1) - n = 1
      BY <1>1, <1>7, <2>2
    <3>2. t[n + 1] = next[1]
      BY <1>3, <3>1
    <3>3. s[k] = more[k - n]
      BY <1>4, <1>5, <1>7, <2>2, <3>1
    <3> QED
      BY <1>6, <3>1, <3>2, <3>3
  <2>3. CASE ~(k <= n + m)
    <3>1. /\ p[k] = k - m + 1 /\ k - m + 1 \in 1..Len(t) /\ ~(k - m + 1 <= n)
          /\ k - (n + m) \in 1..Len(rest)
          /\ (k - m + 1) - n = (k - (n + m)) + 1
      BY <1>1, <1>2, <1>7, <2>3
    <3>2. t[k - m + 1] = next[(k - m + 1) - n]
      BY <1>3, <3>1
    <3>3. s[k] = rest[k - (n + m)]
      BY <1>5, <1>7, <2>3
    <3>4. rest[k - (n + m)] = next[(k - (n + m)) + 1]
      BY <1>2, <3>1
    <3> QED
      BY <3>1, <3>2, <3>3, <3>4
  <2> QED
    BY <2>1, <2>2, <2>3
<1>9. \A i, j \in 1..Len(s) : i <= j => p[i] <= p[j]
  BY <1>1, <1>7
<1>10. DOMAIN s = 1..Len(s) /\ DOMAIN t = 1..Len(t)
  BY <1>3, <1>5
<1> HIDE DEF p
<1> QED
  BY <1>8, <1>9, <1>10 DEF Follows, s, t, u, rest

\* The runs of observations.
LEMMA RunsOfFacts ==
  ASSUME NEW observed \in Seq(Runs \X Tasks)
  PROVE  /\ RunsOf(observed) \in Seq(Runs) /\ Len(RunsOf(observed)) = Len(observed)
         /\ \A k \in 1..Len(observed) : RunsOf(observed)[k] = observed[k][1]
<1>1. DOMAIN observed = 1..Len(observed) /\ Len(observed) \in Nat
  OBVIOUS
<1>2. \A k \in 1..Len(observed) : observed[k][1] \in Runs
  OBVIOUS
<1> QED
  BY <1>1, <1>2 DEF RunsOf

\* The runs of two lists of observations, one after the other.
LEMMA RunsOfJoined ==
  ASSUME NEW a \in Seq(Runs \X Tasks), NEW b \in Seq(Runs \X Tasks)
  PROVE  RunsOf(a) \o RunsOf(b) = RunsOf(a \o b)
<1> DEFINE ra == RunsOf(a)
           rb == RunsOf(b)
           u == a \o b
           A == Runs \X Tasks
<1>1. /\ ra \in Seq(Runs) /\ Len(ra) = Len(a) /\ \A k \in 1..Len(a) : ra[k] = a[k][1]
      /\ rb \in Seq(Runs) /\ Len(rb) = Len(b) /\ \A k \in 1..Len(b) : rb[k] = b[k][1]
  BY RunsOfFacts
<1>2. Len(a) \in Nat /\ Len(b) \in Nat
  OBVIOUS
<1>3. /\ u \in Seq(A) /\ Len(u) = Len(a) + Len(b)
      /\ \A k \in 1..Len(u) : u[k] = IF k <= Len(a) THEN a[k] ELSE b[k - Len(a)]
  BY JoinedAt
<1> HIDE DEF ra, rb, u
<1>4. /\ RunsOf(u) \in Seq(Runs) /\ Len(RunsOf(u)) = Len(u)
      /\ \A k \in 1..Len(u) : RunsOf(u)[k] = u[k][1]
  BY <1>3, RunsOfFacts
<1>5. /\ ra \o rb \in Seq(Runs) /\ Len(ra \o rb) = Len(ra) + Len(rb)
      /\ \A k \in 1..Len(ra \o rb) :
           (ra \o rb)[k] = IF k <= Len(ra) THEN ra[k] ELSE rb[k - Len(ra)]
  <2>1. ra \in Seq(Runs) /\ rb \in Seq(Runs)
    BY <1>1
  <2> QED
    BY <2>1, JoinedAt
<1> DEFINE v == ra \o rb
           w == RunsOf(u)
<1> HIDE DEF v, w
<1>6. Len(v) = Len(u) /\ v \in Seq(Runs) /\ w \in Seq(Runs) /\ Len(w) = Len(u) /\ Len(u) \in Nat
  BY <1>1, <1>2, <1>3, <1>4, <1>5 DEF v, w
<1>7. ASSUME NEW k \in 1..Len(u) PROVE v[k] = w[k]
  <2>1. CASE k <= Len(a)
    <3>1. k \in 1..Len(a)
      BY <1>2, <1>3, <2>1
    <3> QED
      BY <1>1, <1>3, <1>4, <1>5, <1>6, <2>1, <3>1 DEF v, w
  <2>2. CASE ~(k <= Len(a))
    <3>1. k - Len(a) \in 1..Len(b)
      BY <1>2, <1>3, <2>2
    <3> QED
      BY <1>1, <1>3, <1>4, <1>5, <1>6, <2>2, <3>1 DEF v, w
  <2> QED
    BY <2>1, <2>2
<1>8. v = w
  BY <1>6, <1>7
<1> QED
  BY <1>8 DEF v, w, ra, rb, u

\* Lists without repetition that share nothing, one after the other.
LEMMA JoinedInjective ==
  ASSUME NEW S, NEW a \in Seq(S), NEW b \in Seq(S), IsInjective(a), IsInjective(b),
         ToSet(a) \cap ToSet(b) = {}
  PROVE  IsInjective(a \o b)
<1> DEFINE u == a \o b
<1>1. /\ u \in Seq(S) /\ Len(u) = Len(a) + Len(b)
      /\ \A k \in 1..Len(u) : u[k] = IF k <= Len(a) THEN a[k] ELSE b[k - Len(a)]
  BY JoinedAt
<1>2. /\ Len(a) \in Nat /\ Len(b) \in Nat
      /\ DOMAIN a = 1..Len(a) /\ DOMAIN b = 1..Len(b)
  OBVIOUS
<1> HIDE DEF u
<1>3. ASSUME NEW i \in 1..Len(u), NEW j \in 1..Len(u), u[i] = u[j], i < j
      PROVE  FALSE
  <2>1. CASE j <= Len(a)
    <3>1. i \in DOMAIN a /\ j \in DOMAIN a /\ i # j /\ i <= Len(a)
      BY <1>1, <1>2, <1>3, <2>1
    <3> QED
      BY <1>1, <1>3, <2>1, <3>1 DEF IsInjective
  <2>2. CASE i <= Len(a) /\ ~(j <= Len(a))
    <3>1. i \in DOMAIN a /\ j - Len(a) \in DOMAIN b
      BY <1>1, <1>2, <1>3, <2>2
    <3>2. u[i] = a[i] /\ u[j] = b[j - Len(a)]
      BY <1>1, <2>2
    <3>3. u[i] \in ToSet(a) /\ u[j] \in ToSet(b)
      BY <3>1, <3>2 DEF ToSet
    <3> QED
      BY <1>3, <3>3
  <2>3. CASE ~(i <= Len(a))
    <3>1. /\ i - Len(a) \in DOMAIN b /\ j - Len(a) \in DOMAIN b /\ i - Len(a) # j - Len(a)
          /\ ~(j <= Len(a))
      BY <1>1, <1>2, <1>3, <2>3
    <3>2. u[i] = b[i - Len(a)] /\ u[j] = b[j - Len(a)]
      BY <1>1, <2>3, <3>1
    <3> QED
      BY <1>3, <3>1, <3>2 DEF IsInjective
  <2> QED
    BY <2>1, <2>2, <2>3
<1>4. DOMAIN u = 1..Len(u) /\ \A i \in 1..Len(u) : i \in Int
  BY <1>1
<1>5. \A i, j \in 1..Len(u) : u[i] = u[j] => ~(i < j) /\ ~(j < i)
  BY <1>3
<1>6. \A i, j \in 1..Len(u) : ~(i < j) /\ ~(j < i) => i = j
  BY <1>4
<1> QED
  BY <1>4, <1>5, <1>6 DEF IsInjective, u

\* The next run is fetched whole, once, and after those before it.
LEMMA FetchRunInTime == IInv /\ CollectionIInv /\ FetchRun => CollectionIInv'
<1> SUFFICES ASSUME IInv, CollectionIInv, FetchRun PROVE CollectionIInv'
  OBVIOUS
<1> DEFINE r == Head(pending)
           more == InWindow(SetToSeq({r} \X Tasks))
           A == Runs \X Tasks
<1>1. /\ phase = "runByRun" /\ pending # <<>> /\ collected' = collected \o more
      /\ pending' = Tail(pending) /\ phase' \in {"runByRun", "done"}
      /\ phase' = "done" => Tail(pending) = <<>>
      /\ UNCHANGED <<server, stamp, state, completed, target, selected, changes, torn>>
  BY DEF FetchRun, airflow
<1>2. /\ pending \in Seq(Runs) /\ collected \in Seq(A) /\ completed \in [Runs -> SUBSET Tasks]
      /\ selected \in Seq(Runs) /\ ToSet(pending) \subseteq ToSet(selected)
  BY DEF IInv, Typed, InLimit
<1>3. /\ Len(pending) \in Nat /\ Len(pending) >= 1 /\ DOMAIN pending = 1..Len(pending)
      /\ r = pending[1] /\ r \in Runs /\ 1 \in DOMAIN pending
  BY <1>1, <1>2
<1>4. /\ Tail(pending) \in Seq(Runs) /\ DOMAIN Tail(pending) = 1..Len(pending) - 1
      /\ \A k \in 1..Len(pending) - 1 : Tail(pending)[k] = pending[k + 1]
  BY <1>2, <1>3
<1>5. r \in ToSet(selected)
  BY <1>2, <1>3 DEF ToSet
<1>6. /\ more \in Seq(A) /\ \A k \in DOMAIN more : more[k][1] = r
      /\ IsInjective(more) /\ ToSet(more) = {<<r, t>> : t \in completed[r]}
  <2> HIDE DEF r
  <2> QED
    BY <1>2, <1>3, <1>5, OfRunFacts
<1> HIDE DEF r, more
<1>7. ASSUME Stable PROVE Complete'
  <2>1. IsInjective(pending) /\ Gathered(ToSet(selected) \ ToSet(pending)) /\ IsInjective(selected)
    BY <1>1, <1>7 DEF CollectionIInv, Complete
  <2>2. ToSet(Tail(pending)) = ToSet(pending) \ {r}
    <3>1. \A k \in 1..Len(pending) - 1 : /\ k + 1 \in DOMAIN pending /\ k + 1 # 1
                                        /\ pending[k + 1] # r
      BY <1>3, <2>1 DEF IsInjective
    <3>2. \A k \in DOMAIN pending : pending[k] # r =>
             k - 1 \in 1..Len(pending) - 1 /\ (k - 1) + 1 = k
      BY <1>3
    <3>3. \A x : x \in ToSet(Tail(pending)) => x \in ToSet(pending) \ {r}
      BY <1>4, <3>1 DEF ToSet
    <3>4. ASSUME NEW k \in DOMAIN pending, pending[k] # r
          PROVE  pending[k] \in ToSet(Tail(pending))
      <4>1. Tail(pending)[k - 1] = pending[k] /\ k - 1 \in DOMAIN Tail(pending)
        BY <1>4, <3>2, <3>4
      <4> QED
        BY <4>1 DEF ToSet
    <3> QED
      BY <3>3, <3>4 DEF ToSet
  <2>3. IsInjective(Tail(pending))
    <3>1. \A j, k \in 1..Len(pending) - 1 :
             /\ j + 1 \in DOMAIN pending /\ k + 1 \in DOMAIN pending
             /\ j + 1 = k + 1 => j = k
      BY <1>3
    <3>2. \A j, k \in 1..Len(pending) - 1 :
             Tail(pending)[j] = Tail(pending)[k] => j + 1 = k + 1
      BY <1>4, <2>1, <3>1 DEF IsInjective
    <3> QED
      BY <1>4, <3>1, <3>2 DEF IsInjective
  <2>4. ToSet(collected) \cap ToSet(more) = {}
    <3>1. \A o \in ToSet(collected) : o[1] # r
      BY <1>3, <2>1 DEF Gathered, ToSet
    <3>2. \A o \in ToSet(more) : o[1] = r
      BY <1>6 DEF ToSet
    <3> QED
      BY <3>1, <3>2
  <2>5. IsInjective(collected')
    BY <1>1, <1>2, <1>6, <2>1, <2>4, JoinedInjective DEF Gathered
  <2>6. ToSet(collected') = ToSet(collected) \cup ToSet(more)
    BY <1>1, <1>2, <1>6, JoinedFacts
  <2> DEFINE after == ToSet(selected) \ ToSet(Tail(pending))
  <2>7. ToSet(collected') = {o \in after \X Tasks : o[2] \in completed[o[1]]}
    <3> DEFINE before == ToSet(selected) \ ToSet(pending)
    <3>1. after = before \cup {r}
      BY <1>3, <1>5, <2>2 DEF ToSet
    <3>2. ToSet(collected) = {o \in before \X Tasks : o[2] \in completed[o[1]]}
      BY <2>1 DEF Gathered
    <3>3. \A o : o \in ToSet(more) <=> o \in {r} \X Tasks /\ o[2] \in completed[o[1]]
      BY <1>2, <1>3, <1>6
    <3> HIDE DEF before, after
    <3>4. \A o : o \in ToSet(collected') <=> o \in after \X Tasks /\ o[2] \in completed[o[1]]
      BY <2>6, <3>1, <3>2, <3>3
    <3> QED
      BY <3>4
  <2>8. phase' = "done" => Gathered(ToSet(selected))'
    <3>1. Tail(pending) = <<>> => after = ToSet(selected')
      BY <1>1 DEF ToSet
    <3> HIDE DEF after
    <3> QED
      BY <1>1, <2>5, <2>7, <3>1 DEF Gathered
  <2>9. phase' = "runByRun" => Gathered(ToSet(selected) \ ToSet(pending))'
    <3>1. after = ToSet(selected') \ ToSet(pending')
      BY <1>1
    <3> HIDE DEF after
    <3> QED
      BY <1>1, <2>5, <2>7, <3>1 DEF Gathered
  <2> QED
    BY <1>1, <2>1, <2>3, <2>8, <2>9 DEF Complete
<1>8. Complete'
  BY <1>1, <1>7 DEF Complete, Stable
<1>9. InTime'
  <2> SUFFICES ASSUME NoBatch PROVE Steady(RunsOf(collected) \o pending)'
    BY <1>1 DEF InTime
  <2>1. Steady(RunsOf(collected) \o pending)
    BY <1>1 DEF CollectionIInv, InTime
  <2>2. RunsOf(collected) \in Seq(Runs) /\ RunsOf(more) \in Seq(Runs)
    BY <1>2, <1>6, RunsOfFacts
  <2>3. \A k \in DOMAIN RunsOf(more) : RunsOf(more)[k] = Head(pending)
    BY <1>6 DEF RunsOf, r
  <2>4. Follows((RunsOf(collected) \o RunsOf(more)) \o Tail(pending), RunsOf(collected) \o pending)
    BY <1>1, <1>2, <2>2, <2>3, RouteFollows
  <2>5. RunsOf(collected) \o RunsOf(more) = RunsOf(collected')
    BY <1>1, <1>2, <1>6, RunsOfJoined
  <2>6. Steady(RunsOf(collected') \o pending')
    <3>1. /\ RunsOf(collected) \o pending \in Seq(Runs)
          /\ (RunsOf(collected) \o RunsOf(more)) \o Tail(pending) \in Seq(Runs)
      BY <1>2, <1>4, <2>2
    <3> QED
      BY <1>1, <2>1, <2>4, <2>5, <3>1, FollowsKeeps DEF Steady
  <2> QED
    BY <1>1, <2>6, SteadyKept DEF RunsOf
<1> QED
  BY <1>1, <1>8, <1>9 DEF CollectionIInv, Unfetched

\* A step that changes neither the window nor what was fetched disturbs no order.
LEMMA InTimeKept ==
  ASSUME UNCHANGED <<server, stamp, target, phase, selected, pending, collected>>, InTime
  PROVE  InTime'
<1>1. Steady(selected)' <=> Steady(selected)
  BY SteadyKept
<1>2. RunsOf(collected') \o pending' = RunsOf(collected) \o pending
  OBVIOUS
<1>3. Steady(RunsOf(collected) \o pending)' <=> Steady(RunsOf(collected) \o pending)
  BY <1>2, SteadyKept
<1> QED
  BY <1>1, <1>3 DEF InTime

\* What fails hands nothing on, and a change of Airflow leaves what was fetched.
LEMMA OtherInTime ==
  ASSUME IInv, CollectionIInv,
         RunGone \/ Fail \/ DependenciesFail \/ Finish \/ Clear \/ Delete \/ UNCHANGED vars
  PROVE  CollectionIInv'
<1>1. CASE RunGone \/ Fail \/ DependenciesFail
  <2>1. phase' = "failed"
    BY <1>1 DEF RunGone, Fail, DependenciesFail
  <2> QED
    BY <2>1 DEF CollectionIInv, Unfetched, Complete, InTime
<1>2. CASE Finish \/ Clear \/ Delete
  <2>1. /\ UNCHANGED <<server, stamp, target, phase, selected, pending, collected>>
        /\ changes' = changes + 1 /\ changes \in Nat
    BY <1>2 DEF Finish, Clear, Delete, Change, IInv, Typed
  <2>2. ~Stable'
    BY <2>1 DEF Stable
  <2>3. InTime'
    BY <2>1, InTimeKept DEF CollectionIInv
  <2> QED
    BY <2>1, <2>2, <2>3 DEF CollectionIInv, Unfetched, Complete
<1>3. CASE UNCHANGED vars
  <2>1. UNCHANGED <<server, stamp, completed, target, phase, selected, pending, collected, changes>>
    BY <1>3 DEF vars, airflow
  <2>2. Complete'
    BY <2>1 DEF CollectionIInv, Complete, Stable, Gathered
  <2>3. InTime'
    BY <2>1, InTimeKept DEF CollectionIInv
  <2> QED
    BY <2>1, <2>2, <2>3 DEF CollectionIInv, Unfetched
<1> QED
  BY <1>1, <1>2, <1>3

\* Every step of the collection.
LEMMA NextInTime == IInv /\ CollectionIInv /\ [Next]_vars => CollectionIInv'
BY ListFilteredInTime, ListAllInTime, FetchBatchInTime, FallBackInTime, FetchRunInTime,
   OtherInTime DEF Next

-------------------------------------------------------------------------------
(* The engine after the collection.                                        *)

\* The histories are functions of the collection and the graph.
LEMMA GivenKept ==
  ASSUME UNCHANGED <<collected, dependencies>>
  PROVE  /\ [t \in Tasks |-> Engine!DurationHistory(t)]' = [t \in Tasks |-> Engine!DurationHistory(t)]
         /\ [e \in Engine!Edges |-> Engine!HandoffHistory(e)]' = [e \in Engine!Edges |-> Engine!HandoffHistory(e)]
<1>1. TaskRuns' = TaskRuns
  BY DEF TaskRuns
<1>2. Engine!Edges' = Engine!Edges
  BY DEF Engine!Edges
<1>3. Engine!Indices' = Engine!Indices
  BY <1>1 DEF Engine!Indices
<1>4. \A r, t : Engine!Of(r, t)' = Engine!Of(r, t)
  BY <1>1, <1>3 DEF Engine!Of
<1>5. \A r, t : Engine!Counted(r, t)' = Engine!Counted(r, t)
  BY <1>1, <1>4 DEF Engine!Counted
<1>6. \A t : Engine!DurationHistory(t)' = Engine!DurationHistory(t)
  BY <1>5 DEF Engine!DurationHistory, Engine!ByFirst
<1>7. Engine!RunsSeen' = Engine!RunsSeen
  BY <1>1, <1>3 DEF Engine!RunsSeen
<1>8. Engine!RunOrder' = Engine!RunOrder
  BY <1>1, <1>3, <1>7 DEF Engine!RunOrder, Engine!ByFirst
<1>9. \A S : Engine!Starts(S)' = Engine!Starts(S) /\ Engine!Ends(S)' = Engine!Ends(S)
  BY <1>1 DEF Engine!Starts, Engine!Ends
<1>10. \A r, e : /\ Engine!Verdict(r, e)' = Engine!Verdict(r, e)
                 /\ Engine!Delay(r, e)' = Engine!Delay(r, e)
  BY <1>4, <1>9 DEF Engine!Verdict, Engine!Delay
<1>11. \A e : Engine!HandoffHistory(e)' = Engine!HandoffHistory(e)
  BY <1>8, <1>10 DEF Engine!HandoffHistory
<1> QED
  BY <1>2, <1>6, <1>11

\* So is what is made of them.
LEMMA ComparedKept ==
  /\ UNCHANGED durations => /\ Engine!Compared(durations)' = Engine!Compared(durations)
                            /\ Engine!TooShort(durations)' = Engine!TooShort(durations)
  /\ UNCHANGED delays => /\ Engine!Compared(delays)' = Engine!Compared(delays)
                         /\ Engine!TooShort(delays)' = Engine!TooShort(delays)
<1>1. UNCHANGED durations => Engine!Compared(durations)' = Engine!Compared(durations)
  BY DEF Engine!Compared, Engine!Compare, Engine!Baseline, Engine!Enough
<1>2. UNCHANGED delays => Engine!Compared(delays)' = Engine!Compared(delays)
  BY DEF Engine!Compared, Engine!Compare, Engine!Baseline, Engine!Enough
<1>3. /\ UNCHANGED durations => Engine!TooShort(durations)' = Engine!TooShort(durations)
      /\ UNCHANGED delays => Engine!TooShort(delays)' = Engine!TooShort(delays)
  BY DEF Engine!TooShort, Engine!Enough
<1> QED
  BY <1>1, <1>2, <1>3

\* The results of the engine's stages, as long as they stay.
LEMMA AnalyzedKept ==
  ASSUME Analyzed,
         UNCHANGED <<phase, collected, dependencies, enginePhase, durations, delays, drift,
                     handoffDrift, insufficient, current>>
  PROVE  Analyzed'
<1>1. enginePhase # "collect" =>
        /\ durations' = [t \in Tasks |-> Engine!DurationHistory(t)]'
        /\ drift' = Engine!Compared(durations)'
  BY GivenKept, ComparedKept DEF Analyzed
<1>2. enginePhase = "tasks" => insufficient' = Engine!TooShort(durations)'
  BY ComparedKept DEF Analyzed
<1>3. enginePhase \in {"handoffs", "done"} =>
        /\ delays' = [e \in Engine!Edges |-> Engine!HandoffHistory(e)]'
        /\ handoffDrift' = Engine!Compared(delays)'
  BY GivenKept, ComparedKept DEF Analyzed
<1>4. enginePhase \in {"handoffs", "done"} =>
        insufficient' = Engine!TooShort(durations)' \cup Engine!TooShort(delays)'
  BY ComparedKept DEF Analyzed
<1>5. enginePhase = "done" /\ collected' # <<>> => current' = Last(collected')[1]
  BY DEF Analyzed
<1> QED
  BY <1>1, <1>2, <1>3, <1>4, <1>5 DEF Analyzed

\* Each stage reports on what was collected.
LEMMA EngineStepAnalyzed == Analyzed /\ EngineStep => Analyzed'
<1> SUFFICES ASSUME Analyzed, EngineStep PROVE Analyzed'
  OBVIOUS
<1>1. phase = "done" /\ phase' = "done" /\ collected' = collected
  BY DEF EngineStep, vars
<1>2. CASE Engine!AnalyzeTasks
  <2>1. /\ dependencies' = dependencies /\ enginePhase' = "tasks"
        /\ durations' = [t \in Tasks |-> Engine!DurationHistory(t)]
        /\ drift' = Engine!Compared(durations') /\ insufficient' = Engine!TooShort(durations')
    BY <1>2 DEF Engine!AnalyzeTasks, Engine!given
  <2>2. durations' = [t \in Tasks |-> Engine!DurationHistory(t)]'
    BY <1>1, <2>1, GivenKept
  <2> QED
    BY <1>1, <2>1, <2>2 DEF Analyzed, EnginePhases, Engine!Compared, Engine!Compare,
                            Engine!Baseline, Engine!Enough, Engine!TooShort
<1>3. CASE Engine!AnalyzeHandoffs
  <2>1. /\ UNCHANGED <<dependencies, durations, drift>> /\ enginePhase = "tasks"
        /\ enginePhase' = "handoffs"
        /\ delays' = [e \in Engine!Edges |-> Engine!HandoffHistory(e)]
        /\ handoffDrift' = Engine!Compared(delays')
        /\ insufficient' = insufficient \cup Engine!TooShort(delays')
    BY <1>3 DEF Engine!AnalyzeHandoffs, Engine!given, Engine!ofTasks
  <2>2. /\ delays' = [e \in Engine!Edges |-> Engine!HandoffHistory(e)]'
        /\ durations' = [t \in Tasks |-> Engine!DurationHistory(t)]'
    BY <1>1, <2>1, GivenKept DEF Analyzed
  <2>3. drift' = Engine!Compared(durations)'
    BY <2>1, ComparedKept DEF Analyzed
  <2>4. insufficient' = Engine!TooShort(durations)' \cup Engine!TooShort(delays)'
    BY <2>1, ComparedKept DEF Analyzed
  <2>5. handoffDrift' = Engine!Compared(delays)'
    BY <2>1 DEF Engine!Compared, Engine!Compare, Engine!Baseline, Engine!Enough
  <2> QED
    BY <1>1, <2>1, <2>2, <2>3, <2>4, <2>5 DEF Analyzed, EnginePhases
<1>4. CASE Engine!Report
  <2>1. /\ UNCHANGED <<dependencies, durations, drift, delays, handoffDrift, insufficient>>
        /\ enginePhase = "handoffs" /\ enginePhase' = "done"
        /\ current' = IF TaskRuns = <<>> THEN Engine!None ELSE Engine!Last(TaskRuns).run
    BY <1>4 DEF Engine!Report, Engine!given, Engine!ofTasks, Engine!ofHandoffs
  <2>2. /\ delays' = [e \in Engine!Edges |-> Engine!HandoffHistory(e)]'
        /\ durations' = [t \in Tasks |-> Engine!DurationHistory(t)]'
    BY <1>1, <2>1, GivenKept DEF Analyzed
  <2>3. drift' = Engine!Compared(durations)'
    BY <2>1, ComparedKept DEF Analyzed
  <2>6. handoffDrift' = Engine!Compared(delays)'
    BY <2>1, ComparedKept DEF Analyzed
  <2>4. insufficient' = Engine!TooShort(durations)' \cup Engine!TooShort(delays)'
    BY <2>1, ComparedKept DEF Analyzed
  <2>5. collected' # <<>> => current' = Last(collected')[1]
    BY <1>1, <2>1 DEF TaskRuns, Last, Engine!Last
  <2> QED
    BY <1>1, <2>1, <2>2, <2>3, <2>4, <2>5, <2>6 DEF Analyzed, EnginePhases
<1> QED
  BY <1>2, <1>3, <1>4 DEF EngineStep

\* Before the analysis begins, the invariant holds.
LEMMA SystemInitIInv == SystemInit => SystemIInv
<1> SUFFICES ASSUME SystemInit PROVE SystemIInv
  OBVIOUS
<1>1. Init /\ enginePhase = "collect"
  BY DEF SystemInit, Engine!Init
<1>2. IInv
  BY <1>1, InitIInv
<1>3. Unfetched /\ Complete /\ InTime
  BY <1>1 DEF Init, Unfetched, Complete, InTime
<1>4. Analyzed
  BY <1>1 DEF Analyzed, EnginePhases
<1> QED
  BY <1>2, <1>3, <1>4 DEF SystemIInv

\* Every step keeps it: once the collection is done, only the engine goes on.
LEMMA SystemStepIInv == SystemIInv /\ [SystemNext]_systemVars => SystemIInv'
<1> SUFFICES ASSUME SystemIInv, [SystemNext]_systemVars PROVE SystemIInv'
  OBVIOUS
<1>1. IInv /\ CollectionIInv /\ Analyzed
  BY DEF SystemIInv, CollectionIInv
<1>2. CASE CollectionStep
  <2>1. Next /\ enginePhase' = enginePhase
    BY <1>2 DEF CollectionStep, engine
  <2>2. phase # "done"
    BY <2>1 DEF Next, ListFiltered, ListAll, FetchBatch, FallBack, FetchRun, RunGone, Fail,
                Finish, Clear, Delete, Change
  <2>3. Analyzed'
    BY <1>1, <2>1, <2>2 DEF Analyzed, EnginePhases
  <2> QED
    BY <1>1, <2>1, <2>3, StepIInv, NextInTime DEF SystemIInv, CollectionIInv
<1>3. CASE DependenciesFail
  <2>1. Analyzed'
    BY <1>3 DEF DependenciesFail, engine, Analyzed, EnginePhases
  <2> QED
    BY <1>1, <1>3, <2>1, FailureIInv, OtherInTime DEF SystemIInv, CollectionIInv
<1>4. CASE EngineStep
  <2>1. UNCHANGED vars
    BY <1>4 DEF EngineStep
  <2> QED
    BY <1>1, <1>4, <2>1, EngineStepAnalyzed, StutterIInv, OtherInTime
    DEF SystemIInv, CollectionIInv
<1>5. CASE UNCHANGED systemVars
  <2>1. UNCHANGED vars /\ UNCHANGED engine
    BY <1>5 DEF systemVars
  <2>2. UNCHANGED <<phase, collected, dependencies, enginePhase, durations, delays, drift,
                    handoffDrift, insufficient, current>>
    BY <2>1 DEF vars, engine
  <2> QED
    BY <1>1, <2>1, <2>2, AnalyzedKept, StutterIInv, OtherInTime DEF SystemIInv, CollectionIInv
<1> QED
  BY <1>2, <1>3, <1>4, <1>5 DEF SystemNext

\* The invariant holds in every state of an analysis.
LEMMA AlwaysSystemIInv == SystemSpec => []SystemIInv
BY SystemInitIInv, SystemStepIInv, PTL DEF SystemSpec

\* Also with an engine behind it, the collection selects the newest history there is,
\* and hands on nothing else (AnalyzeDAG.execute on collect_task_runs).
THEOREM SystemSelectsTheNewest == SystemSpec => []NewestSelected
<1>1. SystemIInv => NewestSelected
  BY Selection DEF SystemIInv
<1> QED
  BY <1>1, AlwaysSystemIInv, PTL

-------------------------------------------------------------------------------
(* The histories the engine makes.                                         *)

\* The engine orders its lists as the collection does.
LEMMA SameOrders ==
  /\ \A S, f, g : Engine!Ordered(S, Engine!Lexicographic(S, f, g)) = Ordered(S, Lexicographic(S, f, g))
  /\ \A list, S : Engine!Only(list, S) = Only(list, S)
<1>1. ASSUME NEW S, NEW R PROVE Engine!Ordered(S, R) = Ordered(S, R)
  BY Zenon DEF Engine!Ordered, Ordered, Engine!Cardinality, Cardinality
<1>2. \A S, f, g : Engine!Lexicographic(S, f, g) = Lexicographic(S, f, g)
  BY DEF Engine!Lexicographic, Lexicographic
<1>3. \A S : Engine!Ascending(S) = Ascending(S)
  BY <1>1 DEF Engine!Ascending, Ascending
<1>4. \A list, S : Engine!Only(list, S) = Only(list, S)
  BY <1>3 DEF Engine!Only, Only
<1> QED
  BY <1>1, <1>2, <1>4

\* Where task t of run r was observed.
Places(r, t) == {k \in DOMAIN collected : collected[k] = <<r, t>>}

\* All instances that were collected count, each at its place.
LEMMA CountedFacts ==
  ASSUME collected \in Seq(Runs \X Tasks), NEW r \in Runs, NEW t \in Tasks
  PROVE  /\ Engine!Counted(r, t) = Places(r, t)
         /\ Places(r, t) \in SUBSET Int /\ IsFiniteSet(Places(r, t))
<1>1. Len(collected) \in Nat /\ DOMAIN collected = 1..Len(collected)
  OBVIOUS
<1>2. \A k \in DOMAIN collected : collected[k] = <<collected[k][1], collected[k][2]>>
  BY <1>1
<1>3. /\ DOMAIN TaskRuns = DOMAIN collected
      /\ \A k \in DOMAIN collected : /\ TaskRuns[k].run = collected[k][1]
                                     /\ TaskRuns[k].task = collected[k][2]
                                     /\ TaskRuns[k].shape.success /\ TaskRuns[k].shape.timed
  BY DEF TaskRuns, Whole
<1>4. \A k \in DOMAIN collected : collected[k] = <<r, t>> <=> TaskRuns[k].run = r /\ TaskRuns[k].task = t
  BY <1>2, <1>3
<1>5. \A k : k \in Engine!Counted(r, t) <=> k \in Places(r, t)
  BY <1>3, <1>4 DEF Engine!Counted, Engine!Of, Engine!Indices, Places
<1>6. Places(r, t) \subseteq 1..Len(collected)
  BY <1>1 DEF Places
<1>7. IsFiniteSet(Places(r, t))
  <2>1. IsFiniteSet(1..Len(collected))
    BY <1>1, FS_Interval
  <2> QED
    BY <1>6, <2>1, FS_Subset
<1>8. Engine!Counted(r, t) = Places(r, t)
  BY <1>5 DEF Engine!Counted, Places
<1>9. Places(r, t) \in SUBSET Int
  BY <1>1, <1>6
<1> QED
  BY <1>7, <1>8, <1>9

\* The earliest of some places is one of them.
LEMMA EarliestFacts ==
  ASSUME NEW S \in SUBSET Int, IsFiniteSet(S), S # {}
  PROVE  Engine!Earliest(S) \in S /\ \A j \in S : Engine!Earliest(S) <= j
BY HasExtremes DEF Engine!Earliest

\* The history of a task has an observation of each run in which the task was
\* observed, made of what was, in the order of the first places.
LEMMA HistoryFacts ==
  ASSUME collected \in Seq(Runs \X Tasks), NEW t \in Tasks
  PROVE  LET h == Engine!DurationHistory(t)
         IN  /\ Len(h) \in Nat /\ DOMAIN h = 1..Len(h)
             /\ \A k \in DOMAIN h : /\ h[k].run \in Runs /\ h[k].from = Places(h[k].run, t)
                                    /\ Places(h[k].run, t) # {}
             /\ \A r \in Runs : Places(r, t) # {} => \E k \in DOMAIN h : h[k].run = r
             /\ \A i, j \in DOMAIN h : i < j =>
                  Engine!Earliest(Places(h[i].run, t)) < Engine!Earliest(Places(h[j].run, t))
<1> DEFINE S == {r \in Runs : Engine!Counted(r, t) # {}}
           first == [r \in S |-> Engine!Earliest(Engine!Counted(r, t))]
           o == Ordered(S, Lexicographic(S, first, first))
           n == Cardinality(S)
           h == Engine!DurationHistory(t)
<1>1. \A r \in Runs : /\ Engine!Counted(r, t) = Places(r, t)
                      /\ Places(r, t) \in SUBSET Int /\ IsFiniteSet(Places(r, t))
  BY CountedFacts
<1>2. \A r \in S : /\ Engine!Earliest(Places(r, t)) \in Places(r, t)
                   /\ first[r] = Engine!Earliest(Places(r, t))
  BY <1>1, EarliestFacts
<1>3. first \in [S -> Int]
  BY <1>1, <1>2
<1>4. \A r, s \in S : first[r] = first[s] => r = s
  <2> SUFFICES ASSUME NEW r \in S, NEW s \in S, first[r] = first[s] PROVE r = s
    OBVIOUS
  <2>1. collected[first[r]] = <<r, t>>
    BY <1>2 DEF Places
  <2>2. collected[first[s]] = <<s, t>>
    BY <1>2 DEF Places
  <2>3. <<r, t>> = <<s, t>>
    BY <2>1, <2>2
  <2> QED
    BY <2>3
<1>5. IsFiniteSet(S)
  <2>1. IsFiniteSet(Runs)
    BY BoundsAssumption, FS_Interval DEF Runs
  <2> QED
    BY <2>1, FS_Subset
<1>6. h = [k \in DOMAIN o |-> [run |-> o[k], from |-> Engine!Counted(o[k], t)]]
  <2>1. h = [k \in DOMAIN Engine!Ordered(S, Engine!Lexicographic(S, first, first)) |->
               [run |-> Engine!Ordered(S, Engine!Lexicographic(S, first, first))[k],
                from |-> Engine!Counted(Engine!Ordered(S, Engine!Lexicographic(S, first, first))[k], t)]]
    BY DEF Engine!DurationHistory, Engine!ByFirst, Engine!Runs, Runs
  <2> HIDE DEF h, S, first
  <2> QED
    BY <2>1, SameOrders
<1>7. /\ n \in Nat /\ o \in [1..n -> S]
      /\ \A r \in S : \E k \in 1..n : o[k] = r
      /\ \A i, j \in 1..n : i < j => first[o[i]] < first[o[j]]
  <2> HIDE DEF S, first
  <2> QED
    BY <1>3, <1>4, <1>5, FirstEnumerates
<1> HIDE DEF n, o, h, first
<1>8. DOMAIN h = 1..n /\ Len(h) = n
  BY <1>6, <1>7
<1>9. \A k \in 1..n : /\ o[k] \in S /\ o[k] \in Runs /\ h[k].run = o[k]
                      /\ h[k].from = Engine!Counted(o[k], t)
  BY <1>6, <1>7
<1>10. \A k \in 1..n : h[k].from = Places(h[k].run, t) /\ Places(h[k].run, t) # {}
  BY <1>1, <1>9
<1>11. \A r \in Runs : Places(r, t) # {} => \E k \in 1..n : h[k].run = r
  BY <1>1, <1>7, <1>9
<1>12. ASSUME NEW i \in 1..n, NEW j \in 1..n, i < j
       PROVE  Engine!Earliest(Places(h[i].run, t)) < Engine!Earliest(Places(h[j].run, t))
  <2>1. first[o[i]] < first[o[j]] /\ o[i] \in S /\ o[j] \in S
    BY <1>7, <1>9, <1>12
  <2> QED
    BY <1>2, <1>9, <2>1
<1> QED
  BY <1>7, <1>8, <1>9, <1>10, <1>11, <1>12 DEF h

\* An edge is no task, so only its history can be too short for a task.
LEMMA SubjectFacts ==
  ASSUME enginePhase = "done", Analyzed, NEW t \in Tasks
  PROVE  /\ durations[t] = Engine!DurationHistory(t)
         /\ t \in DOMAIN drift <=> Len(durations[t]) >= MinimumHistory
         /\ t \in insufficient <=> durations[t] # <<>> /\ ~(Len(durations[t]) >= MinimumHistory)
<1>1. /\ durations = [u \in Tasks |-> Engine!DurationHistory(u)]
      /\ drift = Engine!Compared(durations)
      /\ delays = [e \in Engine!Edges |-> Engine!HandoffHistory(e)]
      /\ insufficient = Engine!TooShort(durations) \cup Engine!TooShort(delays)
  BY DEF Analyzed
<1>2. t \in DOMAIN durations /\ durations[t] = Engine!DurationHistory(t)
  BY <1>1
<1>3. t \notin DOMAIN delays
  <2>1. DOMAIN delays \subseteq Tasks \X Tasks
    BY <1>1 DEF Engine!Edges
  <2> QED
    BY <2>1, SubjectsAssumption
<1>4. t \in DOMAIN drift <=> Len(durations[t]) >= MinimumHistory
  BY <1>1, <1>2 DEF Engine!Compared, Engine!Enough
<1>5. t \in insufficient <=> durations[t] # <<>> /\ ~(Len(durations[t]) >= MinimumHistory)
  BY <1>1, <1>2, <1>3 DEF Engine!TooShort, Engine!Enough
<1> QED
  BY <1>2, <1>4, <1>5

\* While Airflow stands still, the history of every task that any analysis reports is
\* made of all runs of the window that completed the task, each once
\* (AnalyzeDAG.execute, build_duration_history, analyze_task_histories).
THEOREM HistoriesAreComplete == SystemSpec => []HistoriesComplete
<1>1. SystemIInv => HistoriesComplete
  <2> SUFFICES ASSUME SystemIInv, Reported, Stable, NEW t \in Tasks
               PROVE  LET ran == {r \in ToSet(selected) : t \in completed[r]}
                      IN  /\ MeasuredRuns(t) = ran
                          /\ Len(durations[t]) = Cardinality(ran)
                          /\ \A k \in DOMAIN durations[t] : Cardinality(durations[t][k].from) = 1
                          /\ (t \in DOMAIN drift) = (Cardinality(ran) >= MinimumHistory)
                          /\ t \in insufficient <=> ran # {} /\ t \notin DOMAIN drift
    BY DEF HistoriesComplete
  <2> DEFINE ran == {r \in ToSet(selected) : t \in completed[r]}
             h == durations[t]
             runs == [k \in DOMAIN h |-> h[k].run]
  <2>1. /\ collected \in Seq(Runs \X Tasks) /\ selected \in Seq(Runs)
        /\ enginePhase = "done" /\ Analyzed /\ Gathered(ToSet(selected))
    BY DEF SystemIInv, IInv, Typed, Analyzed, Complete, Reported
  <2>2. /\ h = Engine!DurationHistory(t)
        /\ t \in DOMAIN drift <=> Len(h) >= MinimumHistory
        /\ t \in insufficient <=> h # <<>> /\ ~(Len(h) >= MinimumHistory)
    BY <2>1, SubjectFacts
  <2>3. /\ Len(h) \in Nat /\ DOMAIN h = 1..Len(h)
        /\ \A k \in DOMAIN h : /\ h[k].run \in Runs /\ h[k].from = Places(h[k].run, t)
                               /\ Places(h[k].run, t) # {}
        /\ \A r \in Runs : Places(r, t) # {} => \E k \in DOMAIN h : h[k].run = r
        /\ \A i, j \in DOMAIN h : i < j =>
             Engine!Earliest(Places(h[i].run, t)) < Engine!Earliest(Places(h[j].run, t))
    BY <2>1, <2>2, HistoryFacts
  <2> HIDE DEF h
  <2>4. /\ ToSet(selected) \subseteq Runs
        /\ \A r : Places(r, t) # {} <=> r \in ran
    <3>1. ToSet(selected) \subseteq Runs
      BY <2>1, ToSetFacts
    <3>2. \A r : Places(r, t) # {} <=> <<r, t>> \in ToSet(collected)
      BY DEF Places, ToSet
    <3>3. \A r : <<r, t>> \in ToSet(collected) <=> r \in ran
      BY <2>1 DEF Gathered
    <3> QED
      BY <3>1, <3>2, <3>3
  <2>5. MeasuredRuns(t) = ran
    <3>1. \A r : r \in ran => \E k \in DOMAIN h : h[k].run = r
      BY <2>3, <2>4
    <3>2. \A k \in DOMAIN h : h[k].run \in ran
      BY <2>3, <2>4
    <3> HIDE DEF ran
    <3> QED
      BY <3>1, <3>2 DEF MeasuredRuns, h
  <2>6. Len(h) = Cardinality(ran)
    <3>1. runs \in Seq(Runs) /\ DOMAIN runs = DOMAIN h /\ Len(runs) = Len(h)
      BY <2>3
    <3>2. IsInjective(runs)
      <4>1. \A k \in DOMAIN h : Engine!Earliest(Places(h[k].run, t)) \in Int
        <5>1. \A k \in DOMAIN h : /\ Places(h[k].run, t) \in SUBSET Int
                                  /\ IsFiniteSet(Places(h[k].run, t))
          BY <2>1, <2>3, CountedFacts
        <5>2. \A k \in DOMAIN h : Engine!Earliest(Places(h[k].run, t)) \in Places(h[k].run, t)
          BY <2>3, <5>1, EarliestFacts
        <5> QED
          BY <5>1, <5>2
      <4>2. \A i, j \in DOMAIN h : h[i].run = h[j].run => ~(i < j) /\ ~(j < i)
        BY <2>3, <4>1
      <4>3. \A i, j \in DOMAIN h : ~(i < j) /\ ~(j < i) => i = j
        BY <2>3
      <4> QED
        BY <3>1, <4>2, <4>3 DEF IsInjective
    <3>3. ToSet(runs) = ran
      <4>1. ToSet(runs) = {h[k].run : k \in DOMAIN h}
        BY DEF ToSet
      <4> HIDE DEF ran
      <4> QED
        BY <2>5, <4>1 DEF MeasuredRuns, h
    <3> HIDE DEF runs, ran
    <3> QED
      BY <3>1, <3>2, <3>3, SizeFacts
  <2>7. ASSUME NEW k \in DOMAIN h PROVE Cardinality(h[k].from) = 1
    <3>1. PICK i : i \in Places(h[k].run, t)
      BY <2>3
    <3>2. \A j \in Places(h[k].run, t) : j = i
      BY <2>1, <3>1 DEF Places, Gathered, IsInjective
    <3>3. h[k].from = {i}
      BY <2>3, <3>1, <3>2
    <3> QED
      BY <3>3, FS_Singleton
  <2>8. h # <<>> <=> ran # {}
    <3>1. h # <<>> <=> DOMAIN h # {}
      BY <2>3
    <3>2. DOMAIN h # {} <=> ran # {}
      BY <2>3, <2>4
    <3> QED
      BY <3>1, <3>2
  <2> HIDE DEF ran
  <2> QED
    BY <2>2, <2>5, <2>6, <2>7, <2>8 DEF h, ran
<1> QED
  BY <1>1, AlwaysSystemIInv, PTL

-------------------------------------------------------------------------------
(* The order of what is fetched run by run.                                *)

\* What was fetched run by run is in the order of time, the target last, and all of a
\* run at one place.
LEMMA FetchedInOrder ==
  ASSUME SystemIInv, Reported, NoBatch
  PROVE  /\ Len(collected) \in Nat /\ DOMAIN collected = 1..Len(collected)
         /\ \A i \in 1..Len(collected) : collected[i][1] \in Runs
         /\ \A i, j \in 1..Len(collected) : i <= j =>
              /\ stamp[collected[i][1]] <= stamp[collected[j][1]]
              /\ collected[i][1] = target => collected[j][1] = target
         /\ \A i, j, k \in 1..Len(collected) :
              i <= j /\ j <= k /\ collected[i][1] = collected[k][1] =>
                collected[j][1] = collected[i][1]
<1> DEFINE n == Len(collected)
           u == RunsOf(collected)
           t == u \o pending
<1>1. /\ collected \in Seq(Runs \X Tasks) /\ pending \in Seq(Runs) /\ Steady(t)
  BY DEF SystemIInv, IInv, Typed, Analyzed, InTime, Reported
<1>2. u \in Seq(Runs) /\ Len(u) = n /\ \A k \in 1..n : u[k] = collected[k][1]
  BY <1>1, RunsOfFacts
<1>3. n \in Nat /\ DOMAIN collected = 1..n /\ Len(pending) \in Nat
  BY <1>1
<1> HIDE DEF u
<1>4. /\ t \in Seq(Runs) /\ Len(t) = Len(u) + Len(pending)
      /\ \A k \in 1..Len(t) : t[k] = IF k <= Len(u) THEN u[k] ELSE pending[k - Len(u)]
  BY <1>1, <1>2, JoinedAt
<1> HIDE DEF t, n
<1>5. \A k \in 1..n : k \in DOMAIN t /\ t[k] = collected[k][1] /\ collected[k][1] \in Runs
  <2>1. DOMAIN t = 1..Len(t)
    BY <1>4
  <2>2. \A k \in 1..n : k \in 1..Len(t) /\ k <= Len(u)
    BY <1>2, <1>3, <1>4
  <2>3. \A k \in 1..n : u[k] \in Runs
    BY <1>2, <1>3
  <2> QED
    BY <1>2, <1>4, <2>1, <2>2, <2>3
<1>6. ASSUME NEW i \in 1..n, NEW j \in 1..n, i <= j
      PROVE  /\ stamp[collected[i][1]] <= stamp[collected[j][1]]
             /\ collected[i][1] = target => collected[j][1] = target
  BY <1>1, <1>5, <1>6 DEF Steady, Aging, TargetLast
<1>7. ASSUME NEW i \in 1..n, NEW j \in 1..n, NEW k \in 1..n, i <= j, j <= k,
             collected[i][1] = collected[k][1]
      PROVE  collected[j][1] = collected[i][1]
  BY <1>1, <1>5, <1>7 DEF Steady, Together
<1> QED
  BY <1>3, <1>5, <1>6, <1>7 DEF n

\* Where run r was observed.
PlacesOf(r) == {k \in DOMAIN collected : collected[k][1] = r}

\* The runs in the order of the first observation of each, which is that of the
\* task runs.
LEMMA RunOrderFacts ==
  ASSUME collected \in Seq(Runs \X Tasks)
  PROVE  /\ Engine!RunOrder \in Seq(Runs)
         /\ \A k \in DOMAIN Engine!RunOrder :
              Engine!Earliest(PlacesOf(Engine!RunOrder[k])) \in PlacesOf(Engine!RunOrder[k])
         /\ \A i, j \in DOMAIN Engine!RunOrder : i < j =>
              Engine!Earliest(PlacesOf(Engine!RunOrder[i]))
                < Engine!Earliest(PlacesOf(Engine!RunOrder[j]))
<1> DEFINE S == Engine!RunsSeen
           first == [r \in S |-> Engine!Earliest(PlacesOf(r))]
           o == Ordered(S, Lexicographic(S, first, first))
           n == Cardinality(S)
           list == Engine!RunOrder
<1>1. Len(collected) \in Nat /\ DOMAIN collected = 1..Len(collected)
  OBVIOUS
<1>2. /\ DOMAIN TaskRuns = DOMAIN collected
      /\ \A k \in DOMAIN collected : TaskRuns[k].run = collected[k][1] /\ collected[k][1] \in Runs
  BY <1>1 DEF TaskRuns
<1>3. S = {collected[k][1] : k \in DOMAIN collected} /\ S \subseteq Runs
  BY <1>2 DEF Engine!RunsSeen, Engine!Indices
<1>4. \A r : {k \in Engine!Indices : TaskRuns[k].run = r} = PlacesOf(r)
  BY <1>2 DEF Engine!Indices, PlacesOf
<1>5. \A r \in S : /\ PlacesOf(r) \in SUBSET Int /\ IsFiniteSet(PlacesOf(r))
                   /\ PlacesOf(r) # {}
  <2>1. IsFiniteSet(1..Len(collected))
    BY <1>1, FS_Interval
  <2>2. \A r : PlacesOf(r) \subseteq 1..Len(collected)
    BY <1>1 DEF PlacesOf
  <2>3. \A r \in S : PlacesOf(r) # {}
    BY <1>3 DEF PlacesOf
  <2> QED
    BY <1>1, <2>1, <2>2, <2>3, FS_Subset
<1>6. \A r \in S : /\ Engine!Earliest(PlacesOf(r)) \in PlacesOf(r)
                   /\ first[r] = Engine!Earliest(PlacesOf(r))
  BY <1>5, EarliestFacts
<1>7. first \in [S -> Int]
  BY <1>5, <1>6
<1>8. ASSUME NEW r \in S, NEW s \in S, first[r] = first[s] PROVE r = s
  <2>1. collected[first[r]][1] = r
    BY <1>6 DEF PlacesOf
  <2>2. collected[first[s]][1] = s
    BY <1>6 DEF PlacesOf
  <2> QED
    BY <1>8, <2>1, <2>2
<1>9. IsFiniteSet(S)
  <2>1. IsFiniteSet(Runs)
    BY BoundsAssumption, FS_Interval DEF Runs
  <2> QED
    BY <1>3, <2>1, FS_Subset
<1>10. list = o
  <2>1. list = Engine!Ordered(S, Engine!Lexicographic(S, first, first))
    BY <1>4 DEF Engine!RunOrder, Engine!ByFirst
  <2> HIDE DEF list, S, first
  <2> QED
    BY <2>1, SameOrders
<1> HIDE DEF list, first
<1>11. /\ n \in Nat /\ o \in [1..n -> S]
       /\ \A i, j \in 1..n : i < j => first[o[i]] < first[o[j]]
  <2> HIDE DEF S
  <2> QED
    BY <1>7, <1>8, <1>9, FirstEnumerates
<1> HIDE DEF n, o, S
<1>12. DOMAIN list = 1..n /\ list \in Seq(Runs) /\ \A k \in 1..n : list[k] \in S
  BY <1>3, <1>10, <1>11
<1>13. ASSUME NEW i \in 1..n, NEW j \in 1..n, i < j
       PROVE  Engine!Earliest(PlacesOf(list[i])) < Engine!Earliest(PlacesOf(list[j]))
  BY <1>6, <1>10, <1>11, <1>12, <1>13
<1> QED
  BY <1>6, <1>12, <1>13 DEF list

\* The history of a handoff has its delays in the order of the first observation of
\* each run.
LEMMA DelayFacts ==
  ASSUME collected \in Seq(Runs \X Tasks), NEW e
  PROVE  LET h == Engine!HandoffHistory(e)
         IN  /\ Len(h) \in Nat /\ DOMAIN h = 1..Len(h)
             /\ \A k \in DOMAIN h : /\ h[k].run \in Runs
                                    /\ Engine!Earliest(PlacesOf(h[k].run)) \in PlacesOf(h[k].run)
             /\ \A i, j \in DOMAIN h : i < j =>
                  Engine!Earliest(PlacesOf(h[i].run)) < Engine!Earliest(PlacesOf(h[j].run))
<1> DEFINE M == {r \in Runs : Engine!Verdict(r, e) = "measured"}
           order == Engine!RunOrder
           runs == Only(order, M)
           h == Engine!HandoffHistory(e)
<1>1. /\ order \in Seq(Runs)
      /\ \A k \in DOMAIN order : Engine!Earliest(PlacesOf(order[k])) \in PlacesOf(order[k])
      /\ \A i, j \in DOMAIN order : i < j =>
           Engine!Earliest(PlacesOf(order[i])) < Engine!Earliest(PlacesOf(order[j]))
  BY RunOrderFacts
<1>2. h = [k \in DOMAIN runs |-> [run |-> runs[k], delay |-> Engine!Delay(runs[k], e)]]
  <2>1. Engine!Only(order, M) = runs
    <3> HIDE DEF M, order
    <3> QED
      BY SameOrders
  <2>2. h = [k \in DOMAIN Engine!Only(order, M) |->
               [run |-> Engine!Only(order, M)[k],
                delay |-> Engine!Delay(Engine!Only(order, M)[k], e)]]
    BY DEF Engine!HandoffHistory, Engine!Runs, Runs
  <2> HIDE DEF h, M, order, runs
  <2> QED
    BY <2>1, <2>2
<1> HIDE DEF order, M, h
<1>3. /\ runs \in Seq(Runs \cap M)
      /\ \E p : /\ At(p, order, runs)
                /\ \A i, j \in DOMAIN runs : i < j => p[i] < p[j]
  BY <1>1, OnlyKeeps
<1>4. PICK p : /\ At(p, order, runs)
               /\ \A i, j \in DOMAIN runs : i < j => p[i] < p[j]
  BY <1>3
<1> HIDE DEF runs
<1>5. /\ Len(runs) \in Nat /\ DOMAIN runs = 1..Len(runs)
      /\ \A k \in DOMAIN runs : runs[k] \in Runs
  BY <1>3
<1>6. /\ DOMAIN h = DOMAIN runs /\ Len(h) = Len(runs)
      /\ \A k \in DOMAIN runs : h[k].run = runs[k]
  BY <1>2, <1>5
<1>7. \A k \in DOMAIN runs : p[k] \in DOMAIN order /\ h[k].run = order[p[k]]
  BY <1>4, <1>6 DEF At
<1>8. ASSUME NEW i \in DOMAIN h, NEW j \in DOMAIN h, i < j
      PROVE  Engine!Earliest(PlacesOf(h[i].run)) < Engine!Earliest(PlacesOf(h[j].run))
  <2>1. p[i] < p[j] /\ p[i] \in DOMAIN order /\ p[j] \in DOMAIN order
    BY <1>4, <1>6, <1>7, <1>8
  <2> QED
    BY <1>1, <1>6, <1>7, <2>1
<1> QED
  BY <1>1, <1>5, <1>6, <1>7, <1>8 DEF h

\* A history is compared by its last observation, with some of those before it.
LEMMA CompareFacts ==
  ASSUME NEW h, Len(h) \in Nat, DOMAIN h = 1..Len(h), Engine!Enough(h),
         \A k \in DOMAIN h : h[k].run \in Runs
  PROVE  /\ Len(h) \in DOMAIN h /\ Engine!Compare(h).current = h[Len(h)].run
         /\ \A r \in ToSet(Engine!Compare(h).baseline) :
              \E k \in DOMAIN h : k < Len(h) /\ h[k].run = r
<1> DEFINE m == Len(h) - 1
           older == [k \in 1..m |-> h[k].run]
           w == IF BaselineWindow = 0 \/ BaselineWindow > Len(older)
                THEN Len(older) ELSE BaselineWindow
           base == SubSeq(older, Len(older) - w + 1, Len(older))
<1>1. m \in Nat /\ m >= 1 /\ Len(h) = m + 1
  BY PolicyAssumption DEF Engine!Enough
<1>2. Engine!Compare(h).current = h[Len(h)].run
  BY DEF Engine!Compare, Engine!Last
<1>3. Engine!Compare(h).baseline = base
  BY DEF Engine!Compare, Engine!Baseline, Engine!NoWindow
<1> HIDE DEF m
<1>4. older \in Seq(Runs) /\ Len(older) = m /\ \A k \in 1..m : older[k] = h[k].run
  BY <1>1
<1> HIDE DEF older
<1>5. w \in 0..m
  BY <1>1, <1>4, PolicyAssumption
<1> HIDE DEF w
<1>6. base \in Seq(Runs) /\ \A i \in DOMAIN base : \E k \in 1..m : base[i] = older[k]
  <2>1. DOMAIN base = 1..w /\ \A i \in 1..w : base[i] = older[m - w + i]
    BY <1>1, <1>4, <1>5
  <2>2. \A i \in 1..w : m - w + i \in 1..m
    BY <1>1, <1>5
  <2>3. base \in Seq(Runs)
    BY <1>1, <1>4, <1>5
  <2> QED
    BY <2>1, <2>2, <2>3
<1>7. \A r \in ToSet(base) : \E k \in 1..m : r = h[k].run
  <2>1. \A r \in ToSet(base) : \E i \in DOMAIN base : r = base[i]
    BY <1>6 DEF ToSet
  <2> HIDE DEF base
  <2> QED
    BY <1>4, <1>6, <2>1
<1>8. \A k \in 1..m : k \in DOMAIN h /\ k < Len(h)
  BY <1>1
<1> QED
  BY <1>1, <1>2, <1>3, <1>7, <1>8

\* The history of a task is compared in the order of time.
LEMMA TaskInOrder ==
  ASSUME SystemIInv, Reported, NoBatch, collected # <<>>, NEW t \in DOMAIN drift
  PROVE  /\ \A r \in MeasuredRuns(t) : stamp[r] <= stamp[drift[t].current]
         /\ drift[t].current \notin ToSet(drift[t].baseline)
         /\ current \in MeasuredRuns(t) => drift[t].current = current
<1> DEFINE h == durations[t]
           m == Len(h)
           n == Len(collected)
           e(k) == Engine!Earliest(Places(h[k].run, t))
<1>1. /\ collected \in Seq(Runs \X Tasks) /\ enginePhase = "done" /\ Analyzed
      /\ current = collected[n][1]
  BY DEF SystemIInv, IInv, Typed, Analyzed, Reported, Last
<1>2. t \in Tasks /\ Engine!Enough(h) /\ drift[t] = Engine!Compare(h)
  BY <1>1 DEF Analyzed, Engine!Compared
<1>3. h = Engine!DurationHistory(t)
  BY <1>1, <1>2, SubjectFacts
<1>4. /\ m \in Nat /\ DOMAIN h = 1..m
      /\ \A k \in DOMAIN h : /\ h[k].run \in Runs /\ Places(h[k].run, t) # {}
      /\ \A i, j \in DOMAIN h : i < j => e(i) < e(j)
  BY <1>1, <1>2, <1>3, HistoryFacts
<1>5. \A k \in DOMAIN h : e(k) \in Places(h[k].run, t)
  <2>1. \A k \in DOMAIN h : /\ Places(h[k].run, t) \in SUBSET Int
                            /\ IsFiniteSet(Places(h[k].run, t))
    BY <1>1, <1>2, <1>4, CountedFacts
  <2> QED
    BY <1>4, <2>1, EarliestFacts
<1>6. /\ m \in DOMAIN h /\ drift[t].current = h[m].run
      /\ \A r \in ToSet(drift[t].baseline) : \E k \in DOMAIN h : k < m /\ h[k].run = r
  <2> HIDE DEF h
  <2> QED
    BY <1>2, <1>4, CompareFacts
<1>7. /\ n \in Nat /\ DOMAIN collected = 1..n
      /\ \A i, j \in 1..n : i <= j => stamp[collected[i][1]] <= stamp[collected[j][1]]
      /\ \A i, j, k \in 1..n : i <= j /\ j <= k /\ collected[i][1] = collected[k][1] =>
           collected[j][1] = collected[i][1]
  BY FetchedInOrder
<1>8. MeasuredRuns(t) = {h[k].run : k \in DOMAIN h}
  BY DEF MeasuredRuns
<1> HIDE DEF h, m, n
<1>9. \A k \in DOMAIN h : /\ e(k) \in 1..n /\ collected[e(k)][1] = h[k].run
  <2>1. \A r, i : i \in Places(r, t) => i \in 1..n /\ collected[i][1] = r
    BY <1>7 DEF Places
  <2> HIDE DEF e
  <2> QED
    BY <1>5, <2>1
<1>10. \A k \in DOMAIN h : e(k) <= e(m) /\ (k # m => e(k) < e(m))
  <2>1. \A k \in DOMAIN h : k # m => k < m
    BY <1>4
  <2>2. \A k \in DOMAIN h : k # m => e(k) < e(m)
    BY <1>4, <1>6, <2>1
  <2>3. \A k \in DOMAIN h : e(k) \in Int
    BY <1>7, <1>9
  <2> QED
    BY <1>6, <2>2, <2>3
<1> HIDE DEF e
<1>11. ASSUME NEW r \in MeasuredRuns(t) PROVE stamp[r] <= stamp[drift[t].current]
  <2>1. PICK k \in DOMAIN h : h[k].run = r
    BY <1>8
  <2> QED
    BY <1>6, <1>7, <1>9, <1>10, <2>1
<1>12. ASSUME drift[t].current \in ToSet(drift[t].baseline) PROVE FALSE
  <2>1. PICK k \in DOMAIN h : k < m /\ h[k].run = h[m].run
    BY <1>6, <1>12
  <2>2. e(k) = e(m)
    BY <2>1 DEF e
  <2>3. e(k) < e(m) /\ e(k) \in Int
    BY <1>4, <1>6, <1>7, <1>9, <1>10, <2>1
  <2> QED
    BY <2>2, <2>3
<1>13. ASSUME current \in MeasuredRuns(t) PROVE drift[t].current = current
  <2>1. PICK k \in DOMAIN h : h[k].run = current
    BY <1>8, <1>13
  <2>2. n \in 1..n /\ e(m) <= n
    BY <1>6, <1>7, <1>9
  <2>3. collected[e(m)][1] = collected[e(k)][1]
    BY <1>1, <1>6, <1>7, <1>9, <1>10, <2>1, <2>2
  <2> QED
    BY <1>6, <1>9, <2>1, <2>3
<1> QED
  BY <1>11, <1>12, <1>13

\* So is the history of a handoff.
LEMMA HandoffInOrder ==
  ASSUME SystemIInv, Reported, NoBatch, NEW e \in DOMAIN handoffDrift
  PROVE  \A r \in ToSet(handoffDrift[e].baseline) : stamp[r] <= stamp[handoffDrift[e].current]
<1> DEFINE h == delays[e]
           m == Len(h)
           n == Len(collected)
           at(k) == Engine!Earliest(PlacesOf(h[k].run))
<1>1. collected \in Seq(Runs \X Tasks) /\ enginePhase = "done" /\ Analyzed
  BY DEF SystemIInv, IInv, Typed, Reported
<1>2. /\ Engine!Enough(h) /\ handoffDrift[e] = Engine!Compare(h)
      /\ h = Engine!HandoffHistory(e)
  <2>1. /\ delays = [f \in Engine!Edges |-> Engine!HandoffHistory(f)]
        /\ handoffDrift = Engine!Compared(delays)
    BY <1>1 DEF Analyzed
  <2>2. e \in DOMAIN delays /\ Engine!Enough(h) /\ handoffDrift[e] = Engine!Compare(h)
    BY <2>1 DEF Engine!Compared
  <2> QED
    BY <2>1, <2>2
<1>3. /\ m \in Nat /\ DOMAIN h = 1..m
      /\ \A k \in DOMAIN h : h[k].run \in Runs /\ at(k) \in PlacesOf(h[k].run)
      /\ \A i, j \in DOMAIN h : i < j => at(i) < at(j)
  BY <1>1, <1>2, DelayFacts
<1>4. /\ m \in DOMAIN h /\ handoffDrift[e].current = h[m].run
      /\ \A r \in ToSet(handoffDrift[e].baseline) : \E k \in DOMAIN h : k < m /\ h[k].run = r
  <2>1. \A k \in DOMAIN h : h[k].run \in Runs
    BY <1>3
  <2>2. Len(h) \in Nat /\ DOMAIN h = 1..Len(h)
    BY <1>3
  <2> HIDE DEF h
  <2>3. /\ Len(h) \in DOMAIN h /\ Engine!Compare(h).current = h[Len(h)].run
        /\ \A r \in ToSet(Engine!Compare(h).baseline) :
             \E k \in DOMAIN h : k < Len(h) /\ h[k].run = r
    BY <1>2, <2>1, <2>2, CompareFacts
  <2> QED
    BY <1>2, <2>3
<1>5. /\ n \in Nat /\ DOMAIN collected = 1..n
      /\ \A i, j \in 1..n : i <= j => stamp[collected[i][1]] <= stamp[collected[j][1]]
  BY FetchedInOrder
<1> HIDE DEF h, m, n
<1>6. \A k \in DOMAIN h : at(k) \in 1..n /\ collected[at(k)][1] = h[k].run
  BY <1>3, <1>5 DEF PlacesOf
<1> SUFFICES ASSUME NEW r \in ToSet(handoffDrift[e].baseline)
             PROVE  stamp[r] <= stamp[handoffDrift[e].current]
  OBVIOUS
<1>7. PICK k \in DOMAIN h : k < m /\ h[k].run = r
  BY <1>4
<1>8. at(k) < at(m)
  BY <1>3, <1>4, <1>7
<1> HIDE DEF at
<1>9. at(k) <= at(m)
  BY <1>4, <1>5, <1>6, <1>7, <1>8
<1> QED
  BY <1>4, <1>5, <1>6, <1>7, <1>9

\* Fetched run by run, the order of the task runs is the order of time, all the way
\* to the comparisons (AnalyzeDAG.execute on _get_task_instances_for_runs, then
\* build_duration_history, build_handoff_history_with_diagnostics, calculate_drift).
THEOREM RunByRunIsInOrder == SystemSpec => []RunByRunKeepsOrder
<1>1. SystemIInv => RunByRunKeepsOrder
  <2> SUFFICES ASSUME SystemIInv, Reported, NoBatch, collected # <<>>
               PROVE  /\ \A r \in Observed : stamp[r] <= stamp[current]
                      /\ target \in Observed => current = target
    BY TaskInOrder, HandoffInOrder DEF RunByRunKeepsOrder
  <2> DEFINE n == Len(collected)
  <2>1. collected \in Seq(Runs \X Tasks) /\ current = collected[n][1]
    BY DEF SystemIInv, IInv, Typed, Analyzed, Reported, Last
  <2>2. /\ n \in Nat /\ DOMAIN collected = 1..n
        /\ \A i, j \in 1..n : i <= j =>
             /\ stamp[collected[i][1]] <= stamp[collected[j][1]]
             /\ collected[i][1] = target => collected[j][1] = target
    BY FetchedInOrder
  <2>3. n \in 1..n
    BY <2>1, <2>2
  <2> HIDE DEF n
  <2>4. \A r \in Observed : \E i \in 1..n : collected[i][1] = r /\ i <= n
    BY <2>2 DEF Observed
  <2> QED
    BY <2>1, <2>2, <2>3, <2>4
<1> QED
  BY <1>1, AlwaysSystemIInv, PTL
===============================================================================
