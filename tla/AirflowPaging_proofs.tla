-------------------------- MODULE AirflowPaging_proofs --------------------------
(***************************************************************************)
(* Proofs about AirflowPaging, for every page size, limit, server cap and  *)
(* any number of records and changes.  The invariant speaks of the records *)
(* a fetch has not reached yet, those past the offset: what is lost,       *)
(* repeated or out of order is decided there, before it shows in items.    *)
(***************************************************************************)
EXTENDS AirflowPaging, SequenceTheorems, TLAPS

\* items after the page being fetched, before it is cut to the limit.
Received == items \o Page

\* Until something is inserted, collection and items are in ascending order and
\* what is still to come follows what was received.
Ordered ==
  inserted = 0 =>
    /\ \A i, j \in 1..Len(coll) : i < j => coll[i] < coll[j]
    /\ NothingRepeatedByDeletion
    /\ phase = "fetch" => \A i \in 1..Len(items), j \in 1..Len(coll) :
                             j > offset => items[i] < coll[j]

\* Until something is deleted, every record of the first moment was received or
\* is still to come.
Covered ==
  (deleted = 0 /\ phase = "fetch") =>
    \A r \in 1..atStart : \/ r \in Records(items)
                          \/ \E j \in 1..Len(coll) : j > offset /\ coll[j] = r

\* While nothing changes, items is a prefix of the collection; it is the whole of
\* it, or as much as the limit allows, when the fetch is done.
Prefix ==
  Stable =>
    /\ Len(items) <= Len(coll)
    /\ \A i \in 1..Len(items) : items[i] = coll[i]
    /\ (phase = "done" /\ Candid) => \/ limit # NoLimit /\ Len(items) = limit
                                     \/ Len(items) = Len(coll)

IInv == TypeOK /\ PagesAdvance /\ Ordered /\ Covered /\ NothingLostByInsertion /\ Prefix

-------------------------------------------------------------------------------
(* The page and the items it leads to.                                     *)

\* A page holds the records that follow the offset, no more than were asked for;
\* a page shorter than asked for and than the cap reaches the collection's end.
LEMMA PageFacts ==
  ASSUME TypeOK, PagesAdvance, phase = "fetch"
  PROVE  /\ RequestedSize \in Nat /\ 1 <= RequestedSize /\ RequestedSize <= PageSize
         /\ Page \in Seq(1..fresh)
         /\ Len(Page) \in Nat /\ Len(Page) <= RequestedSize
         /\ Len(Page) > 0 => offset + Len(Page) <= Len(coll)
         /\ \A i \in 1..Len(Page) : Page[i] = coll[offset + i]
         /\ Len(Page) < Smaller(RequestedSize, cap) => Len(coll) <= offset + Len(Page)
         /\ Len(Page) = 0 => Len(coll) <= offset
  <1> DEFINE last == Smaller(offset + Smaller(RequestedSize, cap), Len(coll))
  <1>1. /\ coll \in Seq(1..fresh) /\ Len(coll) \in Nat /\ offset \in Nat
        /\ cap \in Nat /\ cap >= 1 /\ fresh \in Nat /\ limit \in Nat
        /\ items \in Seq(1..fresh) /\ Len(items) \in Nat
    BY LimitsAssumption, CapsAssumption DEF TypeOK, NoLimit
  <1>2. RequestedSize \in Nat /\ 1 <= RequestedSize /\ RequestedSize <= PageSize
    BY <1>1, PageSizeAssumption DEF PagesAdvance, RequestedSize, Smaller
  <1>3. /\ last \in Nat /\ last <= Len(coll) /\ last <= offset + RequestedSize
        /\ last >= offset + 1 \/ (last = Len(coll) /\ last <= offset)
        /\ last < offset + Smaller(RequestedSize, cap) => last = Len(coll)
    BY <1>1, <1>2 DEF Smaller
  <1> HIDE DEF last
  <1>4. \A i \in offset + 1 .. last : coll[i] \in 1..fresh
    BY <1>1, <1>3
  <1>5. /\ Page \in Seq(1..fresh)
        /\ Len(Page) = IF offset + 1 <= last THEN last - (offset + 1) + 1 ELSE 0
        /\ \A i \in 1 .. last - (offset + 1) + 1 : Page[i] = coll[(offset + 1) + i - 1]
    <2>1. Page = SubSeq(coll, offset + 1, last)
      BY DEF Page, last
    <2>2. offset + 1 \in Int /\ last \in Int
      BY <1>1, <1>3
    <2> QED
      BY <1>4, <2>1, <2>2, SubSeqProperties
  <1> QED
    BY <1>1, <1>2, <1>3, <1>5 DEF Smaller

\* The page is appended as it is: what was asked for never passes the limit, so
\* cutting to the limit takes nothing away.
LEMMA ReceivedFacts ==
  ASSUME TypeOK, PagesAdvance, phase = "fetch"
  PROVE  /\ Received \in Seq(1..fresh)
         /\ Len(Received) = offset + Len(Page)
         /\ limit # NoLimit => Len(Received) <= limit
         /\ \A i \in 1..Len(items) : Received[i] = items[i]
         /\ \A i \in offset + 1 .. Len(Received) : Received[i] = coll[i]
         /\ Truncated(Received) = Received
  <1>1. /\ items \in Seq(1..fresh) /\ Len(items) \in Nat /\ offset = Len(items)
        /\ limit \in Nat /\ fresh \in Nat /\ coll \in Seq(1..fresh)
    BY LimitsAssumption DEF TypeOK, PagesAdvance, NoLimit
  <1>2. /\ Received \in Seq(1..fresh)
        /\ Len(Received) = Len(items) + Len(Page)
        /\ \A i \in 1 .. Len(items) + Len(Page) :
              Received[i] = IF i <= Len(items) THEN items[i] ELSE Page[i - Len(items)]
    BY <1>1, PageFacts, ConcatProperties DEF Received
  <1>3. limit # NoLimit => Len(Received) <= limit
    BY <1>1, <1>2, PageFacts, PageSizeAssumption
       DEF PagesAdvance, RequestedSize, Smaller, NoLimit
  <1>4. ASSUME NEW i \in offset + 1 .. Len(Received) PROVE Received[i] = coll[i]
    <2>1. /\ i - offset \in 1..Len(Page) /\ i \in Int
          /\ i \in 1 .. Len(items) + Len(Page) /\ ~(i <= Len(items))
      BY <1>1, <1>2, PageFacts
    <2>2. Received[i] = Page[i - offset]
      BY <1>1, <1>2, <2>1
    <2>3. Page[i - offset] = coll[offset + (i - offset)]
      BY <2>1, PageFacts
    <2> QED
      BY <1>1, <2>1, <2>2, <2>3
  <1>5. Truncated(Received) = Received
    <2>1. SubSeq(Received, 1, Len(Received)) = Received
      BY <1>2, SubSeqFull
    <2> QED
      BY <1>1, <1>2, <1>3, <2>1, PageFacts DEF Truncated, LimitReached
  <1> QED
    BY <1>1, <1>2, <1>3, <1>4, <1>5, PageFacts

\* What FetchPage does, in these terms.
LEMMA FetchPageFacts ==
  ASSUME TypeOK, PagesAdvance, FetchPage
  PROVE  /\ phase = "fetch"
         /\ items' = Received
         /\ \/ /\ phase' = "fetch" /\ offset' = Len(Received)
               /\ Len(Page) > 0
               /\ limit # NoLimit => Len(Received) < limit
            \/ /\ phase' = "done" /\ offset' = offset
               /\ \/ limit # NoLimit /\ Len(Received) = limit
                  \/ Candid => Len(coll) <= Len(Received)
         /\ UNCHANGED <<coll, fresh, inserted, deleted, reports, cap, limit, atStart>>
  <1>1. phase = "fetch"
    BY DEF FetchPage
  <1>3. items' = Received
    BY <1>1, ReceivedFacts DEF FetchPage, Received
  <1>4. Page = <<>> <=> Len(Page) = 0
    BY <1>1, PageFacts, EmptySeq
  <1>5. /\ limit \in Nat /\ Len(coll) \in Nat /\ Len(Received) \in Nat
        /\ offset \in Nat /\ cap \in Nat
    BY <1>1, ReceivedFacts, LimitsAssumption, CapsAssumption DEF TypeOK, NoLimit
  <1>6. CASE LimitReached(Received) \/ Exhausted(Received, Page)
    <2>1. phase' = "done" /\ offset' = offset
      BY <1>6 DEF FetchPage, Received
    <2>2. CASE LimitReached(Received)
      BY <1>1, <1>3, <1>5, <2>1, <2>2, ReceivedFacts
         DEF LimitReached, FetchPage, serverVars, fixed
    <2>3. CASE Exhausted(Received, Page)
      <3>1. Candid => Len(coll) <= Len(Received)
        BY <1>1, <1>4, <1>5, <2>3, PageFacts, ReceivedFacts, PageSizeAssumption
           DEF Exhausted, Candid, Smaller
      <3> QED
        BY <1>1, <1>3, <2>1, <3>1 DEF FetchPage, serverVars, fixed
    <2> QED
      BY <1>6, <2>2, <2>3
  <1>7. CASE ~(LimitReached(Received) \/ Exhausted(Received, Page))
    <2>1. phase' = "fetch" /\ offset' = Len(Received)
      BY <1>1, <1>7, ReceivedFacts DEF FetchPage, Received, NextOffset
    <2>2. Len(Page) > 0
      BY <1>1, <1>4, <1>7, PageFacts DEF Exhausted
    <2>3. limit # NoLimit => Len(Received) < limit
      BY <1>5, <1>7 DEF LimitReached
    <2> QED
      BY <1>1, <1>3, <2>1, <2>2, <2>3 DEF FetchPage, serverVars, fixed
  <1> QED
    BY <1>6, <1>7

-------------------------------------------------------------------------------
(* The server's steps.                                                     *)

\* An insertion moves what follows it one place on.
LEMMA InsertFacts ==
  ASSUME TypeOK, Insert
  PROVE  /\ phase = "fetch"
         /\ fresh' = fresh + 1 /\ inserted' = inserted + 1
         /\ coll' \in Seq(1..fresh') /\ Len(coll') = Len(coll) + 1
         /\ \E k \in 0..Len(coll) : \A j \in 1..Len(coll) :
               coll'[IF j <= k THEN j ELSE j + 1] = coll[j]
         /\ UNCHANGED <<deleted, fixed, clientVars>>
  <1>1. /\ coll \in Seq(1..fresh) /\ Len(coll) \in Nat /\ fresh \in Nat
        /\ fresh' = fresh + 1
    BY DEF TypeOK, Insert
  <1>2. PICK k \in 0..Len(coll) :
          coll' = SubSeq(coll, 1, k) \o <<fresh + 1>> \o SubSeq(coll, k + 1, Len(coll))
    BY DEF Insert
  <1> DEFINE before == SubSeq(coll, 1, k)
             after == SubSeq(coll, k + 1, Len(coll))
             mid == before \o <<fresh + 1>>
             S == 1..fresh + 1
  <1>3. /\ before \in Seq(S) /\ Len(before) = k
        /\ \A i \in 1..k : before[i] = coll[i]
    <2>1. \A i \in 1..k : coll[i] \in S
      BY <1>1, <1>2
    <2>2. 1 \in Int /\ k \in Int
      BY <1>1, <1>2
    <2> HIDE DEF S
    <2>3. /\ before \in Seq(S) /\ Len(before) = (IF 1 <= k THEN k - 1 + 1 ELSE 0)
          /\ \A i \in 1..k - 1 + 1 : before[i] = coll[1 + i - 1]
      BY <2>1, <2>2, SubSeqProperties
    <2> HIDE DEF before
    <2> QED
      BY <1>1, <1>2, <2>3
  <1>4. /\ after \in Seq(S) /\ Len(after) = Len(coll) - k
        /\ \A i \in 1..Len(coll) - k : after[i] = coll[k + i]
    <2>1. \A i \in k + 1..Len(coll) : coll[i] \in S
      BY <1>1, <1>2
    <2>2. k + 1 \in Int /\ Len(coll) \in Int
      BY <1>1, <1>2
    <2> HIDE DEF S
    <2>3. /\ after \in Seq(S)
          /\ Len(after) = (IF k + 1 <= Len(coll) THEN Len(coll) - (k + 1) + 1 ELSE 0)
          /\ \A i \in 1..Len(coll) - (k + 1) + 1 : after[i] = coll[(k + 1) + i - 1]
      BY <2>1, <2>2, SubSeqProperties
    <2> HIDE DEF after
    <2> QED
      BY <1>1, <1>2, <2>3
  <1>5. <<fresh + 1>> \in Seq(S) /\ Len(<<fresh + 1>>) = 1
    BY <1>1
  <1> HIDE DEF before, after, S
  <1>6. /\ mid \in Seq(S) /\ Len(mid) = k + 1
        /\ \A i \in 1..k : mid[i] = before[i]
    BY <1>2, <1>3, <1>5, ConcatProperties
  <1> HIDE DEF mid
  <1>7. /\ coll' \in Seq(S) /\ Len(coll') = Len(coll) + 1
        /\ \A i \in 1..Len(coll) + 1 :
              coll'[i] = IF i <= k + 1 THEN mid[i] ELSE after[i - (k + 1)]
    <2>1. coll' = mid \o after
      BY <1>2 DEF mid, before, after
    <2>2. /\ coll' \in Seq(S) /\ Len(coll') = Len(mid) + Len(after)
          /\ \A i \in 1..Len(mid) + Len(after) :
                coll'[i] = IF i <= Len(mid) THEN mid[i] ELSE after[i - Len(mid)]
      BY <1>4, <1>6, <2>1, ConcatProperties
    <2>3. Len(mid) = k + 1 /\ Len(mid) + Len(after) = Len(coll) + 1
      BY <1>1, <1>2, <1>4, <1>6
    <2> QED
      BY <2>2, <2>3
  <1>8. ASSUME NEW j \in 1..Len(coll)
        PROVE  coll'[IF j <= k THEN j ELSE j + 1] = coll[j]
    <2>1. CASE j <= k
      <3>1. j \in 1..k /\ j \in 1..Len(coll) + 1 /\ j <= k + 1
        BY <1>1, <1>2, <2>1
      <3>2. coll'[j] = mid[j] /\ mid[j] = before[j] /\ before[j] = coll[j]
        BY <1>3, <1>6, <1>7, <3>1
      <3> QED
        BY <2>1, <3>2
    <2>2. CASE ~(j <= k)
      <3>1. j + 1 \in 1..Len(coll) + 1 /\ ~(j + 1 <= k + 1) /\ j - k \in 1..Len(coll) - k
        BY <1>1, <1>2, <2>2
      <3>2. coll'[j + 1] = after[(j + 1) - (k + 1)]
        BY <1>7, <3>1
      <3>3. (j + 1) - (k + 1) = j - k /\ k + (j - k) = j
        BY <1>1, <1>2
      <3>4. after[j - k] = coll[k + (j - k)]
        BY <1>4, <3>1
      <3>5. coll'[j + 1] = coll[j]
        BY <3>2, <3>3, <3>4
      <3> QED
        BY <2>2, <3>5
    <2> QED
      BY <2>1, <2>2
  <1> QED
    BY <1>1, <1>2, <1>7, <1>8 DEF Insert, Changing, S

\* A deletion moves what follows it one place back.
LEMMA DeleteFacts ==
  ASSUME TypeOK, Delete
  PROVE  /\ phase = "fetch"
         /\ deleted' = deleted + 1
         /\ coll' \in Seq(1..fresh) /\ Len(coll') = Len(coll) - 1
         /\ \E k \in 1..Len(coll) : \A j \in 1..Len(coll) - 1 :
               coll'[j] = coll[IF j < k THEN j ELSE j + 1]
         /\ UNCHANGED <<fresh, inserted, fixed, clientVars>>
  <1>1. coll \in Seq(1..fresh) /\ Len(coll) \in Nat /\ fresh \in Nat
    BY DEF TypeOK
  <1>2. PICK k \in 1..Len(coll) :
          coll' = SubSeq(coll, 1, k - 1) \o SubSeq(coll, k + 1, Len(coll))
    BY DEF Delete
  <1> DEFINE before == SubSeq(coll, 1, k - 1)
             after == SubSeq(coll, k + 1, Len(coll))
             S == 1..fresh
  <1>3. /\ before \in Seq(S) /\ Len(before) = k - 1
        /\ \A i \in 1..k - 1 : before[i] = coll[i]
    <2>1. \A i \in 1..k - 1 : coll[i] \in S
      BY <1>1, <1>2
    <2>2. 1 \in Int /\ k - 1 \in Int
      BY <1>1, <1>2
    <2> HIDE DEF S
    <2>3. /\ before \in Seq(S)
          /\ Len(before) = (IF 1 <= k - 1 THEN (k - 1) - 1 + 1 ELSE 0)
          /\ \A i \in 1..(k - 1) - 1 + 1 : before[i] = coll[1 + i - 1]
      BY <2>1, <2>2, SubSeqProperties
    <2> HIDE DEF before
    <2> QED
      BY <1>1, <1>2, <2>3
  <1>4. /\ after \in Seq(S) /\ Len(after) = Len(coll) - k
        /\ \A i \in 1..Len(coll) - k : after[i] = coll[k + i]
    <2>1. \A i \in k + 1..Len(coll) : coll[i] \in S
      BY <1>1, <1>2
    <2>2. k + 1 \in Int /\ Len(coll) \in Int
      BY <1>1, <1>2
    <2> HIDE DEF S
    <2>3. /\ after \in Seq(S)
          /\ Len(after) = (IF k + 1 <= Len(coll) THEN Len(coll) - (k + 1) + 1 ELSE 0)
          /\ \A i \in 1..Len(coll) - (k + 1) + 1 : after[i] = coll[(k + 1) + i - 1]
      BY <2>1, <2>2, SubSeqProperties
    <2> HIDE DEF after
    <2> QED
      BY <1>1, <1>2, <2>3
  <1> HIDE DEF before, after, S
  <1>5. /\ coll' \in Seq(S) /\ Len(coll') = Len(coll) - 1
        /\ \A i \in 1..Len(coll) - 1 :
              coll'[i] = IF i <= k - 1 THEN before[i] ELSE after[i - (k - 1)]
    <2>1. coll' = before \o after
      BY <1>2 DEF before, after
    <2>2. /\ coll' \in Seq(S) /\ Len(coll') = Len(before) + Len(after)
          /\ \A i \in 1..Len(before) + Len(after) :
                coll'[i] = IF i <= Len(before) THEN before[i]
                           ELSE after[i - Len(before)]
      BY <1>3, <1>4, <2>1, ConcatProperties
    <2>3. Len(before) = k - 1 /\ Len(before) + Len(after) = Len(coll) - 1
      BY <1>1, <1>2, <1>3, <1>4
    <2> QED
      BY <2>2, <2>3
  <1>6. ASSUME NEW j \in 1..Len(coll) - 1
        PROVE  coll'[j] = coll[IF j < k THEN j ELSE j + 1]
    <2>1. CASE j < k
      <3>1. j \in 1..k - 1 /\ j \in 1..Len(coll) - 1 /\ j <= k - 1
        BY <1>1, <1>2, <2>1
      <3>2. coll'[j] = before[j] /\ before[j] = coll[j]
        BY <1>3, <1>5, <3>1
      <3> QED
        BY <2>1, <3>2
    <2>2. CASE ~(j < k)
      <3>1. ~(j <= k - 1) /\ j - (k - 1) \in 1..Len(coll) - k /\ k + (j - (k - 1)) = j + 1
        BY <1>1, <1>2, <2>2
      <3>2. coll'[j] = after[j - (k - 1)]
        BY <1>5, <3>1
      <3>3. after[j - (k - 1)] = coll[k + (j - (k - 1))]
        BY <1>4, <3>1
      <3>4. coll'[j] = coll[j + 1]
        BY <3>1, <3>2, <3>3
      <3> QED
        BY <2>2, <3>4
    <2> QED
      BY <2>1, <2>2
  <1> QED
    BY <1>1, <1>2, <1>5, <1>6 DEF Delete, Changing, S

-------------------------------------------------------------------------------
(* The invariant.                                                          *)

\* It holds before the first page.
LEMMA InitIInv == Init => IInv
  <1> SUFFICES ASSUME Init PROVE IInv
    OBVIOUS
  <1>1. /\ atStart \in Nat /\ coll = [i \in 1..atStart |-> i] /\ items = <<>>
        /\ offset = 0 /\ phase = "fetch" /\ fresh = atStart /\ limit \in Limits
    BY BoundsAssumption DEF Init
  <1>2. coll \in Seq(1..fresh) /\ Len(coll) = atStart
    BY <1>1
  <1>3. items \in Seq(1..fresh) /\ Len(items) = 0
    BY <1>1
  <1>4. TypeOK
    BY <1>1, <1>2, <1>3 DEF Init, TypeOK
  <1>5. PagesAdvance
    BY <1>1, <1>3, LimitsAssumption, PageSizeAssumption
       DEF PagesAdvance, RequestedSize, Smaller, NoLimit
  <1>6. Ordered
    BY <1>1, <1>2, <1>3 DEF Ordered, NothingRepeatedByDeletion
  <1>7. Covered
    BY <1>1, <1>2 DEF Covered
  <1>8. NothingLostByInsertion /\ Prefix
    BY <1>1, <1>2, <1>3 DEF NothingLostByInsertion, Prefix
  <1> QED
    BY <1>4, <1>5, <1>6, <1>7, <1>8 DEF IInv

\* A page preserves it: the part of the collection past the offset becomes the
\* end of items, in its order.
LEMMA FetchPageIInv == IInv /\ FetchPage => IInv'
  <1> SUFFICES ASSUME IInv, FetchPage PROVE IInv'
    OBVIOUS
  <1>1. TypeOK /\ PagesAdvance /\ Ordered /\ Covered /\ Prefix
    BY DEF IInv
  <1>2. /\ phase = "fetch" /\ items' = Received
        /\ UNCHANGED <<coll, fresh, inserted, deleted, reports, cap, limit, atStart>>
    BY <1>1, FetchPageFacts
  <1>3. \/ /\ phase' = "fetch" /\ offset' = Len(Received)
           /\ Len(Page) > 0
           /\ limit # NoLimit => Len(Received) < limit
        \/ /\ phase' = "done" /\ offset' = offset
           /\ \/ limit # NoLimit /\ Len(Received) = limit
              \/ Candid => Len(coll) <= Len(Received)
    BY <1>1, FetchPageFacts
  <1>4. /\ Received \in Seq(1..fresh)
        /\ Len(Received) = offset + Len(Page)
        /\ limit # NoLimit => Len(Received) <= limit
        /\ \A i \in 1..Len(items) : Received[i] = items[i]
        /\ \A i \in offset + 1 .. Len(Received) : Received[i] = coll[i]
    BY <1>1, <1>2, ReceivedFacts
  <1>5. /\ Len(Page) \in Nat /\ Len(Received) \in Nat
        /\ Len(Page) > 0 => offset + Len(Page) <= Len(coll)
    BY <1>1, <1>2, <1>4, PageFacts
  <1>6. /\ offset = Len(items) /\ offset \in Nat /\ limit \in Nat
        /\ Len(coll) \in Nat /\ coll \in Seq(1..fresh)
    BY <1>1, <1>2, LimitsAssumption DEF TypeOK, PagesAdvance, NoLimit
  <1> HIDE DEF Received
  <1>7. TypeOK'
    <2>1. items' \in Seq(1..fresh') /\ coll' \in Seq(1..fresh')
      BY <1>2, <1>4, <1>6
    <2>2. offset' \in 0..Len(items')
      BY <1>2, <1>3, <1>4, <1>5, <1>6
    <2>3. phase' \in {"fetch", "done", "failed"}
      BY <1>3
    <2> QED
      BY <1>1, <1>2, <2>1, <2>2, <2>3 DEF TypeOK
  <1>8. PagesAdvance'
    <2>1. limit # NoLimit => Len(items') <= limit
      BY <1>2, <1>4
    <2>2. phase' = "fetch" => offset' = Len(items') /\ RequestedSize' >= 1
      BY <1>2, <1>3, <1>4, <1>5, <1>6, PageSizeAssumption
         DEF RequestedSize, Smaller, NoLimit
    <2> QED
      BY <1>2, <2>1, <2>2 DEF PagesAdvance
  <1>9. Ordered'
    <2> SUFFICES ASSUME inserted = 0 PROVE Ordered'
      BY <1>2 DEF Ordered
    <2>1. /\ \A i, j \in 1..Len(coll) : i < j => coll[i] < coll[j]
          /\ \A i, j \in 1..Len(items) : i < j => items[i] < items[j]
          /\ \A i \in 1..Len(items), j \in 1..Len(coll) :
                j > offset => items[i] < coll[j]
      BY <1>1, <1>2 DEF Ordered, NothingRepeatedByDeletion
    <2>2. ASSUME NEW i \in 1..Len(Received), NEW j \in 1..Len(Received), i < j
          PROVE  Received[i] < Received[j]
      <3>1. CASE j <= offset
        BY <1>4, <1>6, <2>1, <2>2, <3>1
      <3>2. CASE i <= offset /\ j > offset
        BY <1>4, <1>5, <1>6, <2>1, <2>2, <3>2
      <3>3. CASE i > offset
        BY <1>4, <1>5, <1>6, <2>1, <2>2, <3>3
      <3> QED
        BY <1>6, <2>2, <3>1, <3>2, <3>3
    <2>3. ASSUME NEW i \in 1..Len(Received), NEW j \in 1..Len(coll), j > Len(Received)
          PROVE  Received[i] < coll[j]
      BY <1>4, <1>5, <1>6, <2>1, <2>3
    <2> QED
      BY <1>2, <1>3, <2>1, <2>2, <2>3 DEF Ordered, NothingRepeatedByDeletion
  <1>10. ASSUME deleted = 0, NEW r \in 1..atStart
         PROVE  \/ r \in Records(Received)
                \/ \E j \in 1..Len(coll) : j > Len(Received) /\ coll[j] = r
    <2>1. CASE r \in Records(items)
      <3>1. PICK i \in 1..Len(items) : items[i] = r
        BY <2>1 DEF Records
      <3>2. i \in 1..Len(Received) /\ Received[i] = r
        BY <1>4, <1>5, <1>6, <3>1
      <3> QED
        BY <3>2 DEF Records
    <2>2. CASE \E j \in 1..Len(coll) : j > offset /\ coll[j] = r
      <3>1. PICK j \in 1..Len(coll) : j > offset /\ coll[j] = r
        BY <2>2
      <3>2. CASE j <= Len(Received)
        <4>1. j \in 1..Len(Received) /\ Received[j] = r
          BY <1>4, <1>5, <1>6, <3>1, <3>2
        <4> QED
          BY <4>1 DEF Records
      <3>3. CASE j > Len(Received)
        BY <3>1, <3>3
      <3> QED
        BY <1>5, <3>2, <3>3
    <2> QED
      BY <1>1, <1>2, <1>10, <2>1, <2>2 DEF Covered
  <1>11. Covered'
    BY <1>2, <1>3, <1>10 DEF Covered, Records
  <1>12. NothingLostByInsertion'
    <2> SUFFICES ASSUME phase' = "done", deleted = 0, limit = NoLimit, Candid,
                        NEW r \in 1..atStart
                 PROVE  r \in Records(Received)
      BY <1>2 DEF NothingLostByInsertion, Candid, Records
    <2>1. Len(coll) <= Len(Received)
      BY <1>3
    <2> QED
      BY <1>5, <1>6, <1>10, <2>1
  <1>13. Prefix'
    <2> SUFFICES ASSUME Stable PROVE Prefix'
      BY <1>2 DEF Prefix, Stable
    <2>1. Len(items) <= Len(coll) /\ \A i \in 1..Len(items) : items[i] = coll[i]
      BY <1>1 DEF Prefix
    <2>2. /\ Len(Received) <= Len(coll)
          /\ \A i \in 1..Len(Received) : Received[i] = coll[i]
      BY <1>4, <1>5, <1>6, <2>1
    <2>3. (phase' = "done" /\ Candid) => \/ limit # NoLimit /\ Len(Received) = limit
                                         \/ Len(Received) = Len(coll)
      BY <1>3, <1>5, <1>6, <2>2
    <2> QED
      BY <1>2, <2>2, <2>3 DEF Prefix, Candid
  <1> QED
    BY <1>7, <1>8, <1>9, <1>11, <1>12, <1>13 DEF IInv

\* A failed request preserves it: nothing is returned.
LEMMA FetchFailsIInv == IInv /\ FetchFails => IInv'
  <1> SUFFICES ASSUME IInv, FetchFails PROVE IInv'
    OBVIOUS
  <1>1. TypeOK'
    BY DEF IInv, TypeOK, FetchFails, serverVars, fixed
  <1>2. PagesAdvance'
    BY DEF IInv, PagesAdvance, FetchFails, serverVars, fixed
  <1>3. Ordered' /\ Covered'
    BY DEF IInv, Ordered, Covered, NothingRepeatedByDeletion, FetchFails, serverVars, fixed
  <1>4. NothingLostByInsertion' /\ Prefix'
    BY DEF IInv, NothingLostByInsertion, Prefix, Stable, FetchFails, serverVars, fixed
  <1> QED
    BY <1>1, <1>2, <1>3, <1>4 DEF IInv

\* An insertion preserves it: what was still to come stays past the offset.
LEMMA InsertIInv == IInv /\ Insert => IInv'
  <1> SUFFICES ASSUME IInv, Insert PROVE IInv'
    OBVIOUS
  <1>1. TypeOK /\ PagesAdvance /\ Covered
    BY DEF IInv
  <1>2. /\ phase = "fetch"
        /\ fresh' = fresh + 1 /\ inserted' = inserted + 1
        /\ coll' \in Seq(1..fresh') /\ Len(coll') = Len(coll) + 1
        /\ UNCHANGED <<deleted, reports, cap, limit, atStart, items, offset, phase>>
    BY <1>1, InsertFacts DEF fixed, clientVars
  <1>3. PICK k \in 0..Len(coll) : \A j \in 1..Len(coll) :
           coll'[IF j <= k THEN j ELSE j + 1] = coll[j]
    BY <1>1, InsertFacts
  <1>4. /\ fresh \in Nat /\ inserted \in Nat /\ items \in Seq(1..fresh)
        /\ Len(coll) \in Nat /\ offset \in Nat
    BY <1>1 DEF TypeOK
  <1>5. TypeOK'
    <2>1. Seq(1..fresh) \subseteq Seq(1..fresh')
      <3>1. 1..fresh \subseteq 1..fresh'
        BY <1>2, <1>4
      <3> QED
        BY <3>1, SeqMonotonic
    <2> QED
      BY <1>1, <1>2, <1>4, <2>1 DEF TypeOK
  <1>6. PagesAdvance'
    BY <1>1, <1>2 DEF PagesAdvance, RequestedSize
  <1>7. inserted' # 0 /\ phase' = "fetch"
    BY <1>2, <1>4
  <1>8. Covered'
    <2> SUFFICES ASSUME deleted = 0, NEW r \in 1..atStart, r \notin Records(items)
                 PROVE  \E j \in 1..Len(coll') : j > offset /\ coll'[j] = r
      BY <1>2 DEF Covered, Records
    <2>1. PICK j \in 1..Len(coll) : j > offset /\ coll[j] = r
      BY <1>1, <1>2 DEF Covered
    <2>2. CASE j <= k
      <3>1. j \in 1..Len(coll')
        BY <1>2, <1>4
      <3>2. coll'[j] = r
        BY <1>3, <2>1, <2>2
      <3> QED
        BY <2>1, <3>1, <3>2
    <2>3. CASE ~(j <= k)
      <3>1. j + 1 \in 1..Len(coll') /\ j + 1 > offset
        BY <1>2, <1>4, <2>1
      <3>2. coll'[j + 1] = r
        BY <1>3, <2>1, <2>3
      <3> QED
        BY <3>1, <3>2
    <2> QED
      BY <2>2, <2>3
  <1>9. Ordered' /\ NothingLostByInsertion' /\ Prefix'
    BY <1>7 DEF Ordered, NothingLostByInsertion, Prefix, Stable
  <1> QED
    BY <1>5, <1>6, <1>8, <1>9 DEF IInv

\* A deletion preserves it: the order stays, and what was received still comes
\* before what is to come.
LEMMA DeleteIInv == IInv /\ Delete => IInv'
  <1> SUFFICES ASSUME IInv, Delete PROVE IInv'
    OBVIOUS
  <1>1. TypeOK /\ PagesAdvance /\ Ordered
    BY DEF IInv
  <1>2. /\ phase = "fetch"
        /\ deleted' = deleted + 1
        /\ coll' \in Seq(1..fresh) /\ Len(coll') = Len(coll) - 1
        /\ UNCHANGED <<fresh, inserted, reports, cap, limit, atStart, items, offset,
                       phase>>
    BY <1>1, DeleteFacts DEF fixed, clientVars
  <1>3. PICK k \in 1..Len(coll) : \A j \in 1..Len(coll) - 1 :
           coll'[j] = coll[IF j < k THEN j ELSE j + 1]
    BY <1>1, DeleteFacts
  <1>4. /\ deleted \in Nat /\ Len(coll) \in Nat /\ offset \in Nat
        /\ coll \in Seq(1..fresh) /\ fresh \in Nat /\ items \in Seq(1..fresh)
    BY <1>1 DEF TypeOK
  <1>5. TypeOK'
    BY <1>1, <1>2, <1>4 DEF TypeOK
  <1>6. PagesAdvance'
    BY <1>1, <1>2 DEF PagesAdvance, RequestedSize
  <1>7. deleted' # 0 /\ phase' = "fetch"
    BY <1>2, <1>4
  <1> DEFINE old(j) == IF j < k THEN j ELSE j + 1
  <1>8. ASSUME NEW j \in 1..Len(coll')
        PROVE  old(j) \in 1..Len(coll) /\ coll'[j] = coll[old(j)] /\ old(j) >= j
    BY <1>2, <1>3, <1>4
  <1>9. ASSUME NEW i \in 1..Len(coll'), NEW j \in 1..Len(coll'), i < j
        PROVE  old(i) < old(j)
    BY <1>2, <1>4, <1>9
  <1> HIDE DEF old
  <1>10. Ordered'
    <2> SUFFICES ASSUME inserted = 0 PROVE Ordered'
      BY <1>2 DEF Ordered
    <2>1. /\ \A i, j \in 1..Len(coll) : i < j => coll[i] < coll[j]
          /\ NothingRepeatedByDeletion
          /\ \A i \in 1..Len(items), j \in 1..Len(coll) :
                j > offset => items[i] < coll[j]
      BY <1>1, <1>2 DEF Ordered
    <2>2. ASSUME NEW i \in 1..Len(coll'), NEW j \in 1..Len(coll'), i < j
          PROVE  coll'[i] < coll'[j]
      BY <1>8, <1>9, <2>1, <2>2
    <2>3. ASSUME NEW i \in 1..Len(items), NEW j \in 1..Len(coll'), j > offset
          PROVE  items[i] < coll'[j]
      <3>1. old(j) \in 1..Len(coll) /\ old(j) >= j /\ j \in Int
        BY <1>8
      <3>2. old(j) > offset
        BY <1>4, <2>3, <3>1
      <3> QED
        BY <1>8, <2>1, <3>1, <3>2
    <2>4. NothingRepeatedByDeletion'
      BY <1>2, <2>1 DEF NothingRepeatedByDeletion
    <2> QED
      BY <1>2, <2>2, <2>3, <2>4 DEF Ordered
  <1>11. Covered' /\ NothingLostByInsertion' /\ Prefix'
    BY <1>7 DEF Covered, NothingLostByInsertion, Prefix, Stable
  <1> QED
    BY <1>5, <1>6, <1>10, <1>11 DEF IInv

\* A step in which nothing happens keeps the invariant.
LEMMA StutterIInv == IInv /\ UNCHANGED vars => IInv'
  BY DEF IInv, TypeOK, PagesAdvance, RequestedSize, Ordered, NothingRepeatedByDeletion,
     Covered, Records, NothingLostByInsertion, Candid, Prefix, Stable,
     vars, serverVars, fixed, clientVars

\* The invariant holds for ever.
LEMMA AlwaysIInv == Spec => []IInv
  <1>1. IInv /\ [Next]_vars => IInv'
    BY FetchPageIInv, FetchFailsIInv, InsertIInv, DeleteIInv, StutterIInv DEF Next
  <1> QED
    BY InitIInv, <1>1, PTL DEF Spec

-------------------------------------------------------------------------------
(* The theorems.                                                           *)

\* Every variable keeps its type and the offset never passes what was received.
THEOREM TypeCorrect == Spec => []TypeOK
  <1>1. IInv => TypeOK
    BY DEF IInv
  <1> QED
    BY AlwaysIInv, <1>1, PTL

\* Every request asks for at least one record from where the last page ended, and
\* the limit is never passed, for every page size and history_run_limit.
THEOREM PagesDoAdvance == Spec => []PagesAdvance
  <1>1. IInv => PagesAdvance
    BY DEF IInv
  <1> QED
    BY AlwaysIInv, <1>1, PTL

\* Insertions alone never make an unlimited fetch lose a record.
THEOREM InsertionLosesNothing == Spec => []NothingLostByInsertion
  <1>1. IInv => NothingLostByInsertion
    BY DEF IInv
  <1> QED
    BY AlwaysIInv, <1>1, PTL

\* Deletions alone never make a fetch repeat or reorder a record.
THEOREM DeletionRepeatsNothing == Spec => []NothingRepeatedByDeletion
  <1>1. IInv => NothingRepeatedByDeletion
    <2> SUFFICES ASSUME IInv, inserted = 0 PROVE NothingRepeatedByDeletion
      BY DEF NothingRepeatedByDeletion
    <2> QED
      BY DEF IInv, Ordered
  <1> QED
    BY AlwaysIInv, <1>1, PTL

\* A fetch of a collection that does not change returns exactly its first records.
THEOREM StableFetchIsExact == Spec => []ExactWhenStable
  <1>1. IInv => ExactWhenStable
    <2> SUFFICES ASSUME IInv, phase = "done", Stable, Candid
                 PROVE  items = SubSeq(coll, 1, IF limit = NoLimit THEN Len(coll)
                                                ELSE Smaller(limit, Len(coll)))
      BY DEF ExactWhenStable
    <2>1. /\ items \in Seq(1..fresh) /\ Len(items) \in Nat /\ limit \in Nat
          /\ coll \in Seq(1..fresh) /\ Len(coll) \in Nat
      BY LimitsAssumption DEF IInv, TypeOK, NoLimit
    <2>2. /\ Len(items) <= Len(coll)
          /\ \A i \in 1..Len(items) : items[i] = coll[i]
          /\ (limit # NoLimit /\ Len(items) = limit) \/ Len(items) = Len(coll)
      BY DEF IInv, Prefix
    <2>3. Len(items) = IF limit = NoLimit THEN Len(coll) ELSE Smaller(limit, Len(coll))
      BY <2>1, <2>2 DEF IInv, PagesAdvance, Smaller
    <2>4. items = SubSeq(coll, 1, Len(items))
      <3> DEFINE front == SubSeq(coll, 1, Len(items))
      <3>1. /\ front \in Seq(1..fresh)
            /\ Len(front) = IF 1 <= Len(items) THEN Len(items) - 1 + 1 ELSE 0
            /\ \A i \in 1..Len(items) - 1 + 1 : front[i] = coll[1 + i - 1]
        <4>1. ASSUME NEW i \in 1..Len(items) PROVE coll[i] \in 1..fresh
          <5>1. i \in 1..Len(coll)
            BY <2>1, <2>2
          <5> QED
            BY <2>1, <5>1, ElementOfSeq
        <4>2. 1 \in Int /\ Len(items) \in Int
          BY <2>1
        <4> QED
          BY <4>1, <4>2, SubSeqProperties
      <3> HIDE DEF front
      <3>2. /\ Len(front) = Len(items)
            /\ \A i \in 1..Len(items) : front[i] = items[i]
        BY <2>1, <2>2, <3>1
      <3>3. items = front
        BY <2>1, <3>1, <3>2, SeqEqual
      <3> QED
        BY <3>3 DEF front
    <2> QED
      BY <2>3, <2>4
  <1> QED
    BY AlwaysIInv, <1>1, PTL
================================================================================
