--------------------------- MODULE Orderings_proofs ---------------------------
(***************************************************************************)
(* What Orderings promises, for every set, list and rank: each puts every  *)
(* element at exactly one place, in the order asked for.                   *)
(***************************************************************************)
EXTENDS Orderings, FiniteSetTheorems, TLAPS

\* R is a reflexive total order on S.
IsTotalOrder(R, S) ==
  /\ \A x \in S : <<x, x>> \in R
  /\ \A x, y \in S : <<x, y>> \in R /\ <<y, x>> \in R => x = y
  /\ \A x, y, z \in S : <<x, y>> \in R /\ <<y, z>> \in R => <<x, z>> \in R
  /\ \A x, y \in S : <<x, y>> \in R \/ <<y, x>> \in R

Below(S, R, x) == {y \in S : <<y, x>> \in R}
Place(S, R) == [x \in S |-> Cardinality(Below(S, R, x))]

\* An element that comes before another one has the lower place.
LEMMA PlaceGrows ==
  ASSUME NEW S, IsFiniteSet(S), NEW R, IsTotalOrder(R, S)
  PROVE  /\ Place(S, R) \in [S -> 1..Cardinality(S)]
         /\ \A x, y \in S : <<x, y>> \in R /\ x # y => Place(S, R)[x] < Place(S, R)[y]
<1>1. \A x \in S : /\ IsFiniteSet(Below(S, R, x))
                   /\ Cardinality(Below(S, R, x)) \in Nat
                   /\ Cardinality(Below(S, R, x)) <= Cardinality(S)
  BY FS_Subset, FS_CardinalityType DEF Below
<1>2. \A x \in S : x \in Below(S, R, x)
  BY DEF Below, IsTotalOrder
<1>3. \A x \in S : Cardinality(Below(S, R, x)) # 0
  BY <1>1, <1>2, FS_EmptySet
<1>4. Cardinality(S) \in Nat
  BY FS_CardinalityType
<1>5. Place(S, R) \in [S -> 1..Cardinality(S)]
  BY <1>1, <1>3, <1>4 DEF Place
<1>6. ASSUME NEW x \in S, NEW y \in S, <<x, y>> \in R, x # y
      PROVE  Place(S, R)[x] < Place(S, R)[y]
  <2>1. Below(S, R, x) \subseteq Below(S, R, y)
    BY <1>6 DEF Below, IsTotalOrder
  <2>2. y \in Below(S, R, y) /\ y \notin Below(S, R, x)
    BY <1>6 DEF Below, IsTotalOrder
  <2>3. /\ Cardinality(Below(S, R, x)) <= Cardinality(Below(S, R, y))
        /\ Cardinality(Below(S, R, x)) # Cardinality(Below(S, R, y))
    BY <1>1, <2>1, <2>2, FS_Subset
  <2> QED
    BY <1>1, <2>3 DEF Place
<1> QED
  BY <1>5, <1>6

\* An ordered set has each of its elements at exactly one place, and the places
\* follow the order: what Ordered enumerates is the whole set, once, in order.
THEOREM OrderedEnumerates ==
  ASSUME NEW S, IsFiniteSet(S), NEW R, IsTotalOrder(R, S)
  PROVE  /\ Ordered(S, R) \in [1..Cardinality(S) -> S]
         /\ \A x \in S : \E k \in 1..Cardinality(S) : Ordered(S, R)[k] = x
         /\ \A i, j \in 1..Cardinality(S) :
              i < j => /\ <<Ordered(S, R)[i], Ordered(S, R)[j]>> \in R
                       /\ Ordered(S, R)[i] # Ordered(S, R)[j]
<1> DEFINE n == Cardinality(S)
           P == Place(S, R)
           o == Ordered(S, R)
<1>1. n \in Nat
  BY FS_CardinalityType
<1>2. P \in [S -> 1..n] /\ \A x, y \in S : <<x, y>> \in R /\ x # y => P[x] < P[y]
  BY PlaceGrows
<1>3. \A x \in S : P[x] \in Int
  BY <1>1, <1>2
<1>4. ASSUME NEW x \in S, NEW y \in S, P[x] = P[y] PROVE x = y
  <2>1. <<x, y>> \in R \/ <<y, x>> \in R
    BY DEF IsTotalOrder
  <2>2. ~(P[x] < P[y]) /\ ~(P[y] < P[x])
    BY <1>3, <1>4
  <2> HIDE DEF P
  <2> QED
    BY <1>2, <2>1, <2>2
<1>5. P \in Injection(S, 1..n)
  BY <1>2, <1>4 DEF Injection, IsInjective
<1>6. IsFiniteSet(1..n) /\ Cardinality(1..n) = n
  BY <1>1, FS_Interval
<1>7. P \in Surjection(S, 1..n)
  BY <1>5, <1>6, FS_Injection
<1>8. \A k \in 1..n : \E x \in S : P[x] = k
  BY <1>7 DEF Surjection
<1>9. \A k \in 1..n : o[k] = CHOOSE x \in S : P[x] = k
  BY DEF Ordered, Place, Below
<1>10. \A k \in 1..n : o[k] \in S /\ P[o[k]] = k
  BY <1>8, <1>9
<1>11. o \in [1..n -> S]
  BY <1>10 DEF Ordered
<1>12. \A x \in S : P[x] \in 1..n /\ o[P[x]] = x
  BY <1>2, <1>4, <1>10
<1>13. ASSUME NEW i \in 1..n, NEW j \in 1..n, i < j
       PROVE  <<o[i], o[j]>> \in R /\ o[i] # o[j]
  <2>1. P[o[i]] < P[o[j]] /\ o[i] \in S /\ o[j] \in S
    BY <1>10, <1>13
  <2>2. ~(P[o[j]] < P[o[i]])
    BY <2>1, <1>3
  <2>3. o[i] # o[j]
    BY <2>1, <1>3
  <2> QED
    BY <1>2, <2>1, <2>2, <2>3 DEF IsTotalOrder
<1> QED
  BY <1>11, <1>12, <1>13

-------------------------------------------------------------------------------

\* The numbers of a finite set, ascending: each once, the smaller ones first.
THEOREM AscendingEnumerates ==
  ASSUME NEW S \in SUBSET Int, IsFiniteSet(S)
  PROVE  /\ Cardinality(S) \in Nat
         /\ Ascending(S) \in [1..Cardinality(S) -> S]
         /\ \A x \in S : \E k \in 1..Cardinality(S) : Ascending(S)[k] = x
         /\ \A i, j \in 1..Cardinality(S) : i < j => Ascending(S)[i] < Ascending(S)[j]
<1> DEFINE R == {p \in S \X S : p[1] <= p[2]}
<1>1. \A x, y \in S : <<x, y>> \in R <=> x <= y
  OBVIOUS
<1>2. IsTotalOrder(R, S)
  <2> HIDE DEF R
  <2> QED
    BY <1>1 DEF IsTotalOrder
<1>3. Ascending(S) = Ordered(S, R)
  BY DEF Ascending
<1>4. /\ Ordered(S, R) \in [1..Cardinality(S) -> S]
      /\ \A x \in S : \E k \in 1..Cardinality(S) : Ordered(S, R)[k] = x
      /\ \A i, j \in 1..Cardinality(S) :
           i < j => /\ <<Ordered(S, R)[i], Ordered(S, R)[j]>> \in R
                    /\ Ordered(S, R)[i] # Ordered(S, R)[j]
  <2> HIDE DEF R
  <2> QED
    BY <1>2, OrderedEnumerates
<1>5. ASSUME NEW i \in 1..Cardinality(S), NEW j \in 1..Cardinality(S), i < j
      PROVE  Ascending(S)[i] < Ascending(S)[j]
  <2> HIDE DEF R
  <2>1. Ascending(S)[i] \in S /\ Ascending(S)[j] \in S
    BY <1>3, <1>4
  <2>2. Ascending(S)[i] <= Ascending(S)[j] /\ Ascending(S)[i] # Ascending(S)[j]
    BY <1>1, <1>3, <1>4, <1>5, <2>1
  <2>3. Ascending(S)[i] \in Int /\ Ascending(S)[j] \in Int
    BY <2>1
  <2> QED
    BY <2>2, <2>3
<1>6. Cardinality(S) \in Nat
  BY FS_CardinalityType
<1> HIDE DEF R
<1> QED
  BY <1>3, <1>4, <1>5, <1>6

\* A finite set of numbers has a least and a greatest one.
LEMMA HasExtremes ==
  ASSUME NEW S \in SUBSET Int, IsFiniteSet(S), S # {}
  PROVE  /\ \E n \in S : \A m \in S : n <= m
         /\ \E n \in S : \A m \in S : m <= n
<1> DEFINE c == Cardinality(S)
           o == Ascending(S)
<1>1. /\ c \in Nat /\ o \in [1..c -> S]
      /\ \A x \in S : \E k \in 1..c : o[k] = x
      /\ \A i, j \in 1..c : i < j => o[i] < o[j]
  BY AscendingEnumerates
<1> HIDE DEF c, o
<1>2. 1 \in 1..c /\ c \in 1..c
  <2>1. PICK x \in S : TRUE
    OBVIOUS
  <2>2. PICK k \in 1..c : o[k] = x
    BY <1>1, <2>1
  <2> QED
    BY <1>1, <2>2
<1>3. \A k \in 1..c : o[k] \in S /\ o[k] \in Int
  BY <1>1
<1>4. \A k \in 1..c : o[1] <= o[k] /\ o[k] <= o[c]
  <2> SUFFICES ASSUME NEW k \in 1..c PROVE o[1] <= o[k] /\ o[k] <= o[c]
    OBVIOUS
  <2>1. (k = 1 \/ 1 < k) /\ (k = c \/ k < c)
    BY <1>1
  <2> QED
    BY <1>1, <1>2, <1>3, <2>1
<1>5. \A m \in S : o[1] <= m /\ m <= o[c]
  BY <1>1, <1>4
<1> QED
  BY <1>2, <1>3, <1>5

\* Two ranks that together tell any two elements apart make a total order.
LEMMA LexicographicIsTotal ==
  ASSUME NEW S, NEW f \in [S -> Int], NEW g \in [S -> Int],
         \A x, y \in S : f[x] = f[y] /\ g[x] = g[y] => x = y
  PROVE  IsTotalOrder(Lexicographic(S, f, g), S)
<1> DEFINE R == Lexicographic(S, f, g)
<1>1. \A x, y \in S : <<x, y>> \in R <=> f[x] < f[y] \/ (f[x] = f[y] /\ g[x] <= g[y])
  BY DEF Lexicographic
<1>2. \A x \in S : f[x] \in Int /\ g[x] \in Int
  OBVIOUS
<1> HIDE DEF R
<1>3. \A x \in S : <<x, x>> \in R
  BY <1>1, <1>2
<1>4. \A x, y \in S : <<x, y>> \in R /\ <<y, x>> \in R => x = y
  BY <1>1, <1>2
<1>5. \A x, y, z \in S : <<x, y>> \in R /\ <<y, z>> \in R => <<x, z>> \in R
  BY <1>1, <1>2
<1>6. ASSUME NEW x \in S, NEW y \in S
      PROVE  <<x, y>> \in R \/ <<y, x>> \in R
  <2>1. f[x] < f[y] \/ f[y] < f[x] \/ (f[x] = f[y] /\ (g[x] <= g[y] \/ g[y] <= g[x]))
    BY <1>2
  <2> QED
    BY <1>1, <2>1
<1> QED
  BY <1>3, <1>4, <1>5, <1>6 DEF IsTotalOrder, R

\* In the order of numbers of their own, the elements are enumerated whole and once.
LEMMA FirstEnumerates ==
  ASSUME NEW S, IsFiniteSet(S), NEW first \in [S -> Int],
         \A r, s \in S : first[r] = first[s] => r = s
  PROVE  LET o == Ordered(S, Lexicographic(S, first, first))
             n == Cardinality(S)
         IN  /\ n \in Nat /\ o \in [1..n -> S]
             /\ \A r \in S : \E k \in 1..n : o[k] = r
             /\ \A i, j \in 1..n : i < j => first[o[i]] < first[o[j]]
<1> DEFINE R == Lexicographic(S, first, first)
           o == Ordered(S, R)
           n == Cardinality(S)
<1>1. IsFiniteSet(S) /\ n \in Nat
  BY FS_CardinalityType
<1>2. IsTotalOrder(R, S)
  BY LexicographicIsTotal
<1>3. \A r, s \in S : <<r, s>> \in R => first[r] <= first[s]
  <2>1. \A r \in S : first[r] \in Int
    OBVIOUS
  <2> QED
    BY <2>1 DEF Lexicographic
<1> HIDE DEF R
<1>4. /\ o \in [1..n -> S]
      /\ \A r \in S : \E k \in 1..n : o[k] = r
      /\ \A i, j \in 1..n : i < j => <<o[i], o[j]>> \in R /\ o[i] # o[j]
  BY <1>1, <1>2, OrderedEnumerates
<1> HIDE DEF o, n
<1>5. ASSUME NEW i \in 1..n, NEW j \in 1..n, i < j
      PROVE  first[o[i]] < first[o[j]]
  <2>1. o[i] \in S /\ o[j] \in S /\ <<o[i], o[j]>> \in R /\ o[i] # o[j]
    BY <1>4, <1>5
  <2>2. first[o[i]] <= first[o[j]] /\ first[o[i]] # first[o[j]]
    BY <1>3, <2>1
  <2>3. first[o[i]] \in Int /\ first[o[j]] \in Int
    BY <2>1
  <2> QED
    BY <2>2, <2>3
<1> QED
  BY <1>1, <1>4, <1>5 DEF o, n, R

\* p is the sequence of positions in list of the elements of another list s.
At(p, list, s) ==
  /\ p \in [DOMAIN s -> DOMAIN list]
  /\ \A k \in DOMAIN s : s[k] = list[p[k]]
  /\ \A i, j \in DOMAIN s : p[i] = p[j] => i = j

\* The elements at i and j are in the order of their ranks, else of the old places.
InOrder(rank, s, p, i, j) ==
  \/ rank[s[i]] < rank[s[j]]
  \/ rank[s[i]] = rank[s[j]] /\ p[i] < p[j]

\* A sorted list is the list, rearranged: by rank, and where the ranks are equal
\* as before.
THEOREM SortedByRank ==
  ASSUME NEW T, NEW list \in Seq(T), NEW rank \in [T -> Int]
  PROVE  /\ SortedBy(list, rank) \in Seq(T)
         /\ Len(SortedBy(list, rank)) = Len(list)
         /\ \E p : /\ At(p, list, SortedBy(list, rank))
                   /\ \A i \in DOMAIN list : \E k \in DOMAIN list : p[k] = i
                   /\ \A i, j \in DOMAIN list : i < j =>
                        InOrder(rank, SortedBy(list, rank), p, i, j)
<1> DEFINE n == Len(list)
           f == [i \in 1..n |-> rank[list[i]]]
           g == [i \in 1..n |-> i]
           R == Lexicographic(1..n, f, g)
           p == Ordered(1..n, R)
           s == SortedBy(list, rank)
<1>1. n \in Nat /\ DOMAIN list = 1..n /\ \A i \in 1..n : list[i] \in T
  OBVIOUS
<1>2. \A i \in 1..n : rank[list[i]] \in Int
  BY <1>1
<1>3. \A i, j \in 1..n :
        <<i, j>> \in R <=> \/ rank[list[i]] < rank[list[j]]
                           \/ rank[list[i]] = rank[list[j]] /\ i <= j
  BY DEF Lexicographic
<1>4. IsTotalOrder(R, 1..n)
  <2>1. f \in [1..n -> Int] /\ g \in [1..n -> Int]
    BY <1>1, <1>2
  <2>2. \A x, y \in 1..n : f[x] = f[y] /\ g[x] = g[y] => x = y
    OBVIOUS
  <2> HIDE DEF f, g, n
  <2> QED
    BY <2>1, <2>2, LexicographicIsTotal
<1>5. IsFiniteSet(1..n) /\ Cardinality(1..n) = n
  BY <1>1, FS_Interval
<1>6. /\ p \in [1..n -> 1..n]
      /\ \A x \in 1..n : \E k \in 1..n : p[k] = x
      /\ \A i, j \in 1..n : i < j => <<p[i], p[j]>> \in R /\ p[i] # p[j]
  <2> HIDE DEF R
  <2> QED
    BY <1>4, <1>5, OrderedEnumerates
<1>7. s = [k \in 1..n |-> list[p[k]]]
  BY <1>1 DEF SortedBy
<1> HIDE DEF p, R, s
<1>8. s \in Seq(T) /\ Len(s) = n /\ DOMAIN s = 1..n
  <2>1. \A k \in 1..n : list[p[k]] \in T
    BY <1>1, <1>6
  <2> HIDE DEF n
  <2> QED
    BY <1>1, <1>7, <2>1
<1>9. \A i, j \in 1..n : p[i] = p[j] => i = j
  <2> SUFFICES ASSUME NEW i \in 1..n, NEW j \in 1..n, p[i] = p[j], i # j PROVE FALSE
    OBVIOUS
  <2>1. i < j \/ j < i
    BY <1>1
  <2> QED
    BY <1>6, <2>1
<1>10. At(p, list, s)
  BY <1>1, <1>6, <1>7, <1>8, <1>9 DEF At
<1>11. ASSUME NEW i \in 1..n, NEW j \in 1..n, i < j
       PROVE  InOrder(rank, s, p, i, j)
  <2>1. <<p[i], p[j]>> \in R /\ p[i] # p[j] /\ p[i] \in 1..n /\ p[j] \in 1..n
    BY <1>6, <1>11
  <2>2. s[i] = list[p[i]] /\ s[j] = list[p[j]]
    BY <1>7
  <2>3. \/ rank[s[i]] < rank[s[j]]
        \/ rank[s[i]] = rank[s[j]] /\ p[i] <= p[j]
    BY <1>3, <2>1, <2>2, SMTT(30)
  <2> QED
    BY <2>1, <2>3 DEF InOrder
<1>12. \E q : /\ At(q, list, s)
              /\ \A i \in DOMAIN list : \E k \in DOMAIN list : q[k] = i
              /\ \A i, j \in DOMAIN list : i < j => InOrder(rank, s, q, i, j)
  <2> HIDE DEF n
  <2> QED
    BY <1>1, <1>6, <1>10, <1>11
<1> QED
  BY <1>8, <1>12 DEF s

\* What is kept of a list are the elements asked for, each as often as in the list
\* and in the order of the list.
THEOREM OnlyKeeps ==
  ASSUME NEW T, NEW list \in Seq(T), NEW S
  PROVE  /\ Only(list, S) \in Seq(T \cap S)
         /\ Len(Only(list, S)) <= Len(list)
         /\ \E p : /\ At(p, list, Only(list, S))
                   /\ \A i \in DOMAIN list : list[i] \in S =>
                        \E k \in DOMAIN Only(list, S) : p[k] = i
                   /\ \A i, j \in DOMAIN Only(list, S) : i < j => p[i] < p[j]
<1> DEFINE n == Len(list)
           Q == {i \in 1..n : list[i] \in S}
           m == Cardinality(Q)
           p == Ascending(Q)
           s == Only(list, S)
<1>1. n \in Nat /\ DOMAIN list = 1..n /\ \A i \in 1..n : list[i] \in T
  OBVIOUS
<1>2. IsFiniteSet(Q) /\ Q \in SUBSET Int /\ m \in Nat /\ m <= n
  <2>1. IsFiniteSet(1..n) /\ Cardinality(1..n) = n
    <3> HIDE DEF n
    <3> QED
      BY <1>1, FS_Interval
  <2>2. IsFiniteSet(Q) /\ m <= n
    BY <2>1, FS_Subset
  <2> QED
    BY <2>2, FS_CardinalityType
<1>3. /\ p \in [1..m -> Q]
      /\ \A x \in Q : \E k \in 1..m : p[k] = x
      /\ \A i, j \in 1..m : i < j => p[i] < p[j]
  <2> HIDE DEF Q
  <2> QED
    BY <1>2, AscendingEnumerates
<1>4. s = [k \in 1..m |-> list[p[k]]]
  <2>1. s = [k \in DOMAIN p |-> list[p[k]]]
    BY <1>1 DEF Only
  <2> HIDE DEF p, m, Q, s
  <2> QED
    BY <1>3, <2>1
<1> HIDE DEF p, s, m
<1>5. s \in Seq(T \cap S) /\ Len(s) = m /\ DOMAIN s = 1..m
  <2>1. \A k \in 1..m : list[p[k]] \in T \cap S
    BY <1>1, <1>3
  <2> HIDE DEF Q
  <2> QED
    BY <1>2, <1>4, <2>1
<1>6. \A i, j \in 1..m : p[i] = p[j] => i = j
  <2> SUFFICES ASSUME NEW i \in 1..m, NEW j \in 1..m, p[i] = p[j], i # j PROVE FALSE
    OBVIOUS
  <2>1. i < j \/ j < i
    BY <1>2
  <2>2. p[i] < p[j] \/ p[j] < p[i]
    BY <1>3, <2>1
  <2>3. p[i] \in Int
    BY <1>3
  <2> QED
    BY <2>2, <2>3
<1>7. At(p, list, s)
  BY <1>1, <1>3, <1>4, <1>5, <1>6 DEF At
<1>8. \A i \in 1..n : list[i] \in S => \E k \in 1..m : p[k] = i
  BY <1>3
<1> QED
  BY <1>1, <1>2, <1>3, <1>5, <1>7, <1>8 DEF s

-------------------------------------------------------------------------------

\* The elements of a list, and how many they are.
LEMMA SizeOfList ==
  ASSUME NEW T, NEW s \in Seq(T)
  PROVE  /\ IsFiniteSet({s[i] : i \in DOMAIN s})
         /\ Cardinality({s[i] : i \in DOMAIN s}) <= Len(s)
         /\ IsInjective(s) => Cardinality({s[i] : i \in DOMAIN s}) = Len(s)
<1> DEFINE n == Len(s)
           S == {s[i] : i \in DOMAIN s}
<1>1. n \in Nat /\ DOMAIN s = 1..n /\ s \in [1..n -> T]
  OBVIOUS
<1> HIDE DEF n
<1>2. IsFiniteSet(1..n) /\ Cardinality(1..n) = n
  BY <1>1, FS_Interval
<1>3. s \in Surjection(1..n, S)
  BY <1>1 DEF Surjection
<1>4. /\ IsFiniteSet(S) /\ Cardinality(S) <= Cardinality(1..n)
      /\ s \in Injection(1..n, S) => Cardinality(S) = Cardinality(1..n)
  <2> HIDE DEF S
  <2> QED
    BY <1>2, <1>3, FS_Surjection
<1>5. IsInjective(s) => s \in Injection(1..n, S)
  BY <1>1 DEF Injection
<1> QED
  BY <1>2, <1>4, <1>5 DEF n

\* What a function makes of finitely many arguments is finite.
LEMMA ImageIsFinite ==
  ASSUME NEW S, IsFiniteSet(S), NEW f
  PROVE  IsFiniteSet({f[x] : x \in S})
<1> DEFINE T == {f[x] : x \in S}
           g == [x \in S |-> f[x]]
<1>1. g \in Surjection(S, T)
  BY DEF Surjection
<1> HIDE DEF T, g
<1>2. IsFiniteSet(T)
  BY <1>1, FS_Surjection
<1> QED
  BY <1>2 DEF T

\* Finitely many things of which any two compare have a greatest.
LEMMA HasGreatest ==
  ASSUME NEW S, IsFiniteSet(S), S # {}, NEW R,
         \A x, y \in S : <<x, y>> \in R \/ <<y, x>> \in R,
         \A x, y, z \in S : <<x, y>> \in R /\ <<y, z>> \in R => <<x, z>> \in R
  PROVE  \E x \in S : \A y \in S : <<x, y>> \in R
<1> DEFINE Beaten(x) == {y \in S : <<x, y>> \in R}
           rank == [x \in S |-> Cardinality(Beaten(x))]
           N == {rank[x] : x \in S}
<1>1. \A x \in S : IsFiniteSet(Beaten(x)) /\ Beaten(x) \subseteq S
  BY FS_Subset
<1>2. \A x \in S : rank[x] \in Nat
  BY <1>1, FS_CardinalityType
<1>3. IsFiniteSet(N)
  <2> HIDE DEF rank
  <2> QED
    BY ImageIsFinite
<1>4. N \in SUBSET Int /\ N # {}
  <2> HIDE DEF rank
  <2> QED
    BY <1>2
<1>5. \E n \in N : \A m \in N : m <= n
  <2> HIDE DEF N
  <2> QED
    BY <1>3, <1>4, HasExtremes
<1>6. PICK x \in S : \A y \in S : rank[y] <= rank[x]
  <2> HIDE DEF rank
  <2> QED
    BY <1>5
<1>7. ASSUME NEW y \in S, <<x, y>> \notin R PROVE FALSE
  <2>1. <<y, x>> \in R /\ <<y, y>> \in R
    BY <1>7
  <2>2. Beaten(x) \subseteq Beaten(y) /\ y \in Beaten(y) /\ y \notin Beaten(x)
    BY <1>7, <2>1
  <2>3. IsFiniteSet(Beaten(x)) /\ IsFiniteSet(Beaten(y))
    BY <1>1
  <2>4. rank[x] = Cardinality(Beaten(x)) /\ rank[y] = Cardinality(Beaten(y))
    OBVIOUS
  <2> HIDE DEF Beaten, rank
  <2>5. /\ Cardinality(Beaten(x)) <= Cardinality(Beaten(y))
        /\ Cardinality(Beaten(x)) # Cardinality(Beaten(y))
    BY <2>2, <2>3, FS_Subset
  <2>6. rank[x] \in Nat /\ rank[y] \in Nat /\ rank[y] <= rank[x]
    BY <1>2, <1>6
  <2> QED
    BY <2>4, <2>5, <2>6
<1> QED
  BY <1>7

\* What a score is.
Fractions == [num : Nat, den : Nat \ {0}]

\* Comparing by cross-multiplication is transitive.
LEMMA Products ==
  ASSUME NEW a \in Nat, NEW b \in Nat, NEW c \in Nat, NEW d \in Nat, NEW e \in Nat, NEW f \in Nat,
         b > 0, d > 0, f > 0, a * d >= c * b, c * f >= e * d
  PROVE  a * f >= e * b
<1>1. (a * d) * f >= (c * b) * f
  OBVIOUS
<1>2. (c * f) * b >= (e * d) * b
  OBVIOUS
<1>3. (c * b) * f = (c * f) * b /\ (a * d) * f = d * (a * f) /\ (e * d) * b = d * (e * b)
  OBVIOUS
<1>4. d * (a * f) >= d * (e * b)
  BY <1>1, <1>2, <1>3
<1> DEFINE x == a * f
           y == e * b
<1>5. x \in Nat /\ y \in Nat /\ d * x >= d * y
  BY <1>4
<1> HIDE DEF x, y
<1>6. x >= y
  BY <1>5
<1> QED
  BY <1>6 DEF x, y

\* Fractions are totally and transitively ordered.
LEMMA FractionsCompare ==
  /\ \A x, y \in Fractions : AtLeast(x, y) \/ AtLeast(y, x)
  /\ \A x, y, z \in Fractions : AtLeast(x, y) /\ AtLeast(y, z) => AtLeast(x, z)
<1>1. \A x \in Fractions : x.num \in Nat /\ x.den \in Nat /\ x.den > 0
  BY DEF Fractions
<1>2. ASSUME NEW x \in Fractions, NEW y \in Fractions
      PROVE  AtLeast(x, y) \/ AtLeast(y, x)
  <2> DEFINE a == x.num * y.den
             b == y.num * x.den
  <2>1. a \in Nat /\ b \in Nat
    BY <1>1
  <2> HIDE DEF a, b
  <2>2. a >= b \/ b >= a
    BY <2>1
  <2> QED
    BY <2>2 DEF AtLeast, a, b
<1>3. ASSUME NEW x \in Fractions, NEW y \in Fractions, NEW z \in Fractions,
             AtLeast(x, y), AtLeast(y, z)
      PROVE  AtLeast(x, z)
  <2>1. /\ x.num \in Nat /\ x.den \in Nat /\ x.den > 0
        /\ y.num \in Nat /\ y.den \in Nat /\ y.den > 0
        /\ z.num \in Nat /\ z.den \in Nat /\ z.den > 0
    BY <1>1
  <2>2. x.num * y.den >= y.num * x.den /\ y.num * z.den >= z.num * y.den
    BY <1>3 DEF AtLeast
  <2>3. x.num * z.den >= z.num * x.den
    BY <2>1, <2>2, Products
  <2> QED
    BY <2>3 DEF AtLeast
<1> QED
  BY <1>2, <1>3

===============================================================================
