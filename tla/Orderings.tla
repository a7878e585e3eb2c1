------------------------------- MODULE Orderings -------------------------------
(***************************************************************************)
(* The orders in which the program puts its lists: Python's stable sort by *)
(* a key, and a comprehension that keeps some of the elements.  Both say   *)
(* which element comes at which place, without going through the list, so  *)
(* that they can be proved about as well as evaluated.                     *)
(***************************************************************************)
EXTENDS Integers, FiniteSets, Sequences

\* The elements of a finite set in the order R, a set of pairs that is a reflexive
\* total order on it: at place k is the element that k elements are not after.
Ordered(S, R) ==
  [k \in 1..Cardinality(S) |->
     CHOOSE x \in S : Cardinality({y \in S : <<y, x>> \in R}) = k]

\* By f, and where f is the same by g.
Lexicographic(S, f, g) ==
  {p \in S \X S : f[p[1]] < f[p[2]] \/ (f[p[1]] = f[p[2]] /\ g[p[1]] <= g[p[2]])}

\* sorted(list, key=rank): by rank, and where the rank is the same as before.
SortedBy(list, rank) ==
  LET places == DOMAIN list
      at == Ordered(places, Lexicographic(places, [i \in places |-> rank[list[i]]],
                                                  [i \in places |-> i]))
  IN  [k \in places |-> list[at[k]]]

\* The numbers of a set, ascending.
Ascending(S) == Ordered(S, {p \in S \X S : p[1] <= p[2]})

\* [x for x in list if x in S].
Only(list, S) ==
  LET at == Ascending({i \in DOMAIN list : list[i] \in S})
  IN  [k \in DOMAIN at |-> list[at[k]]]

\* Scores are fractions, compared by cross-multiplication.
AtLeast(x, y) == x.num * y.den >= y.num * x.den
===============================================================================
