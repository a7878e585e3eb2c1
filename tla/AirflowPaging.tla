----------------------------- MODULE AirflowPaging -----------------------------
(***************************************************************************)
(* Offset pagination over an Airflow collection that changes meanwhile:    *)
(* _get_paginated and _post_paginated, which differ only in where they put *)
(* limit and offset.  One call fetches page after page; between two pages  *)
(* records appear in and vanish from the collection, anywhere in its order.*)
(*                                                                         *)
(* A record is a number: 1..atStart are the records of the first moment,   *)
(* in the collection's order, and every later record gets the next number. *)
(***************************************************************************)
EXTENDS Integers, Sequences

CONSTANTS PageSize,     \* PAGE_SIZE (100 in the code)
          Limits,       \* item_limit: NoLimit or a history_run_limit
          Caps,         \* page sizes the server may cap a page at
          MaxRecords,   \* bound: records at the first moment
          MaxChanges    \* bound: insertions and deletions

NoLimit == 0

\* history_run_limit is at least 2 wherever an item_limit is passed; a server
\* that caps pages still puts a record on each.
ASSUME PageSizeAssumption == PageSize \in Nat \ {0}
ASSUME LimitsAssumption == Limits \subseteq {NoLimit} \cup {n \in Nat : n >= 2}
ASSUME CapsAssumption == Caps \subseteq Nat \ {0}
ASSUME BoundsAssumption == MaxRecords \in Nat /\ MaxChanges \in Nat

VARIABLES coll,         \* external: the collection, in the order it is served
          reports,      \* external: pages carry total_entries
          cap,          \* external: the largest page the server returns
          fresh,        \* external: the last record number used
          limit,        \* item_limit
          items,        \* items
          offset,       \* offset
          phase         \* "fetch", then "done" or "failed"

\* History variables.
VARIABLES atStart,      \* length of the collection at the first moment
          inserted,     \* records inserted since
          deleted       \* records deleted since

serverVars == <<coll, fresh, inserted, deleted>>
fixed == <<reports, cap, limit, atStart>>
clientVars == <<items, offset, phase>>
vars == <<serverVars, fixed, clientVars>>

Init == /\ atStart \in 0..MaxRecords
        /\ coll = [i \in 1..atStart |-> i]
        /\ fresh = atStart
        /\ reports \in BOOLEAN
        /\ cap \in Caps
        /\ limit \in Limits
        /\ items = <<>>
        /\ offset = 0
        /\ phase = "fetch"
        /\ inserted = 0
        /\ deleted = 0

-------------------------------------------------------------------------------
(* One page.                                                               *)

Smaller(a, b) == IF a <= b THEN a ELSE b

\* The limit parameter of the next request.
RequestedSize == IF limit = NoLimit THEN PageSize
                 ELSE Smaller(PageSize, limit - Len(items))

\* What the server returns for offset and limit at this moment.
Page == SubSeq(coll, offset + 1,
               Smaller(offset + Smaller(RequestedSize, cap), Len(coll)))

\* Mutant of LimitReached: the limit has to be exceeded.
LimitExceeded(all) == limit # NoLimit /\ Len(all) > limit

LimitReached(all) == limit # NoLimit /\ Len(all) >= limit

\* Mutant of Exhausted: a page that is not full ends the collection even when
\* total_entries is known.
ExhaustedShort(all, page) ==
  \/ page = <<>>
  \/ Len(page) < RequestedSize

\* Mutant of Exhausted: an empty page does not end the fetch.
ExhaustedByTotal(all, page) ==
  \/ reports /\ Len(all) > Len(coll)
  \/ ~reports /\ Len(page) < RequestedSize

\* The collection has no further page, as far as this one tells.
Exhausted(all, page) ==
  \/ page = <<>>
  \/ reports /\ Len(all) >= Len(coll)
  \/ ~reports /\ Len(page) < RequestedSize

Truncated(all) == IF LimitReached(all) THEN SubSeq(all, 1, limit) ELSE all

\* Mutants of NextOffset: the requested size is taken for the received one; the
\* last record of each page is fetched again.
OffsetByRequest(page) == offset + RequestedSize
OffsetOverlapping(page) == offset + Len(page) - 1

NextOffset(page) == offset + Len(page)

FetchPage ==
  /\ phase = "fetch"
  /\ LET all == items \o Page IN
       /\ items' = Truncated(all)
       /\ IF LimitReached(all) \/ Exhausted(all, Page)
          THEN phase' = "done" /\ UNCHANGED offset
          ELSE offset' = NextOffset(Page) /\ UNCHANGED phase
  /\ UNCHANGED <<serverVars, fixed>>

\* The request raises, or the page is not what the API promises (not an object,
\* no list, total_entries not an integer): everything fetched so far is dropped
\* with the exception.
FetchFails == /\ phase = "fetch"
              /\ phase' = "failed"
              /\ UNCHANGED <<items, offset, serverVars, fixed>>

-------------------------------------------------------------------------------
(* The server between two pages.                                           *)

Changing == phase = "fetch" /\ inserted + deleted < MaxChanges

Insert == /\ Changing
          /\ \E i \in 0..Len(coll) :
               coll' = SubSeq(coll, 1, i) \o <<fresh + 1>>
                       \o SubSeq(coll, i + 1, Len(coll))
          /\ fresh' = fresh + 1
          /\ inserted' = inserted + 1
          /\ UNCHANGED <<deleted, fixed, clientVars>>

Delete == /\ Changing
          /\ \E i \in 1..Len(coll) :
               coll' = SubSeq(coll, 1, i - 1) \o SubSeq(coll, i + 1, Len(coll))
          /\ deleted' = deleted + 1
          /\ UNCHANGED <<fresh, inserted, fixed, clientVars>>

Next == FetchPage \/ FetchFails \/ Insert \/ Delete

\* Every request is answered (or raises, which ends the fetch); the collection
\* changes finitely often.
Spec == Init /\ [][Next]_vars /\ WF_vars(FetchPage)

-------------------------------------------------------------------------------
(* Properties.                                                             *)

Records(seq) == {seq[i] : i \in 1..Len(seq)}

Stable == inserted = 0 /\ deleted = 0

\* A short page means the end of the collection: true unless the server caps
\* pages below what is asked and does not say how many entries there are.
Candid == reports \/ cap >= PageSize

TypeOK == /\ coll \in Seq(1..fresh)
          /\ reports \in BOOLEAN
          /\ cap \in Caps
          /\ fresh \in Nat
          /\ limit \in Limits
          /\ items \in Seq(1..fresh)
          /\ offset \in 0..Len(items)
          /\ phase \in {"fetch", "done", "failed"}
          /\ atStart \in 0..MaxRecords
          /\ inserted \in Nat /\ deleted \in Nat

\* While pages are fetched the offset is the number of records received, the
\* limit is not passed, and the size asked for is positive: a request for zero
\* records would return an empty page for ever or end the fetch early.
PagesAdvance ==
  /\ limit # NoLimit => Len(items) <= limit
  /\ phase = "fetch" => offset = Len(items) /\ RequestedSize >= 1

\* On a collection that does not change, a finished fetch returned exactly its
\* first records: all of them, or the first limit ones.
ExactWhenStable ==
  (phase = "done" /\ Stable /\ Candid) =>
     items = SubSeq(coll, 1, IF limit = NoLimit THEN Len(coll)
                             ELSE Smaller(limit, Len(coll)))

\* Insertions alone make an unlimited fetch lose nothing: a record that was
\* there at the first page is returned, wherever the new ones went.
NothingLostByInsertion ==
  (phase = "done" /\ deleted = 0 /\ limit = NoLimit /\ Candid) =>
     1..atStart \subseteq Records(items)

\* Deletions alone make it return nothing twice or out of the server's order.
NothingRepeatedByDeletion ==
  inserted = 0 => \A i, j \in 1..Len(items) : i < j => items[i] < items[j]

\* The fetch ends, with the records or with an error.
FetchEnds == <>(phase # "fetch")
===============================================================================
