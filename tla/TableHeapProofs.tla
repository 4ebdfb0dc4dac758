--------------------------- MODULE TableHeapProofs ---------------------------
(***************************************************************************)
(* For every page size, pool size, number of heaps and of pages, and with  *)
(* failing writes and crashes.                                             *)
(*                                                                         *)
(* Pages: a call of the heap never writes to a page that has left the      *)
(* pool, and no page loses its layout, in memory or in the file.           *)
(*                                                                         *)
(* The file: while rows are only inserted, the bytes of a row are in it    *)
(* from the moment InsertTuple returns (the force policy).  With rows      *)
(* deleted and updated too, whatever a call of the heap fetches lies in    *)
(* the file, so that no heap refuses a row unless a write failed.          *)
(*                                                                         *)
(* Chains: with rows deleted and updated too, they are acyclic, apart and  *)
(* reach every page in use, and no row is lost with another.  While rows   *)
(* are only inserted, the heaps are the sequences of rows of RowHeap, a    *)
(* crash cuts off the last rows of a heap and no others, and a scan gives  *)
(* the rows of its heap, each once.                                        *)
(***************************************************************************)
EXTENDS TableHeap, LayoutProofs, FiniteSetTheorems, WellFoundedInduction

\* What InsertTuple takes for granted of a page it just allocated.
TuplesFit == \A t \in Tuples : t.size <= MaxTuple

-----------------------------------------------------------------------------
(* The pool.                                                               *)

\* Images of pages that were formatted and keep their layout, or never were.
Image == [data : TablePage \cup {ZeroedPage}, dirty : BOOLEAN]
Good == {f \in Image : f.data \in TablePage => WellFormed(f.data)}

Listed(p, s) == \E i \in DOMAIN s : s[i] = p

\* What the heap relies on: pages of good images, a list that has every page
\* of the pool, and an allocation frontier above them.
PoolInv ==
  /\ disk \in [PageId -> Good]
  /\ pages \in [PageId -> Good \cup {NoFrame}]
  /\ lru_list \in Seq(PageId)
  /\ \A p \in PageId : Cached(p) => Listed(p, lru_list)
  /\ file_pages \in Nat
  /\ next_page_id \in Nat /\ next_page_id >= FIRST_USABLE_PAGE_ID
  /\ mode \in {"closed", "crashed"} => \A p \in PageId : ~Cached(p)
  /\ \A p \in PageId : p >= next_page_id => ~Cached(p)

LEMMA PageIdFacts ==
  /\ PageId = 0 .. LastPage /\ PageId \subseteq Int /\ NoPage \notin PageId
  /\ Link = PageId \cup {NoPage}
  BY HeapAssumption DEF PageId, BPM!PageId, NoPage, Link

LEMMA ZeroedPageIsNoTable == ZeroedPage \notin TablePage /\ ZeroedPage.next_page_id # NoPage
<1>1. \A pg \in TablePage : pg.page_type = "TABLE_PAGE"
  BY DEF TablePage, PageOf
<1> QED BY <1>1 DEF ZeroedPage, NoPage

LEMMA ImageFacts ==
  /\ NoFrame \notin Good
  /\ \A f \in Good : f.data \in TablePage \/ f.data = ZeroedPage
  /\ \A f \in Good : f.data \in TablePage => WellFormed(f.data)
  /\ \A d \in TablePage, b \in BOOLEAN :
       WellFormed(d) => [data |-> d, dirty |-> b] \in Good
  /\ \A f \in Good : /\ [f EXCEPT !.dirty = FALSE] \in Good
                     /\ [f EXCEPT !.dirty = FALSE].data = f.data
  /\ [data |-> ZeroedPage, dirty |-> FALSE] \in Good
  /\ EmptyPage \in TablePage /\ WellFormed(EmptyPage)
  /\ [data |-> EmptyPage, dirty |-> FALSE] \in Good
<1>1. NoFrame \notin Good
  BY HeapAssumption DEF Good, Image
<1>2. \A f \in Good : f.data \in TablePage \/ f.data = ZeroedPage
  BY DEF Good, Image
<1>3. \A f \in Good : f.data \in TablePage => WellFormed(f.data)
  BY DEF Good
<1>4. \A d \in TablePage, b \in BOOLEAN :
        WellFormed(d) => [data |-> d, dirty |-> b] \in Good
  BY DEF Good, Image
<1>5. \A f \in Good : /\ [f EXCEPT !.dirty = FALSE] \in Good
                      /\ [f EXCEPT !.dirty = FALSE].data = f.data
  BY DEF Good, Image
<1>6. [data |-> ZeroedPage, dirty |-> FALSE] \in Good
  BY ZeroedPageIsNoTable DEF Good, Image
<1>7. EmptyPage \in TablePage /\ WellFormed(EmptyPage)
  BY EmptyPageIsWellFormed DEF TablePage, Link
<1> QED BY <1>1, <1>2, <1>3, <1>4, <1>5, <1>6, <1>7

LEMMA SlotFacts ==
  ASSUME NEW T, NEW s \in Seq(SlotOf(T))
  PROVE  Len(s) \in Nat /\ \A i \in DOMAIN s : i \in Nat /\ s[i].tuple \in T
<1>1. Len(s) \in Nat /\ \A i \in DOMAIN s : i \in Nat /\ s[i] \in SlotOf(T)
  OBVIOUS
<1> QED BY <1>1 DEF SlotOf

\* The links and the slots of an image.
LEMMA DataFacts ==
  ASSUME NEW f \in Good
  PROVE  /\ f.data.next_page_id \in Link
         /\ Len(f.data.slots) \in Nat
         /\ \A i \in DOMAIN f.data.slots : i \in Nat /\ f.data.slots[i].tuple \in Tuples
<1>1. CASE f.data = ZeroedPage
  BY <1>1, HeapAssumption DEF ZeroedPage, Link
<1>2. CASE f.data \in TablePage
  <2>1. f.data.slots \in Seq(SlotOf(Tuples)) /\ f.data.next_page_id \in Link
    BY <1>2 DEF TablePage, PageOf
  <2> QED BY <2>1, SlotFacts
<1> QED BY <1>1, <1>2, ImageFacts

\* Lists: what taking an element out, or putting one in front, leaves.
LEMMA FrontList ==
  ASSUME NEW S, NEW s \in Seq(S), NEW p \in S
  PROVE  /\ <<p>> \o s \in Seq(S)
         /\ Listed(p, <<p>> \o s)
         /\ \A q \in S : Listed(q, s) => Listed(q, <<p>> \o s)
<1> DEFINE t == <<p>> \o s
<1>1. t \in Seq(S) /\ Len(t) = Len(s) + 1 /\ t[1] = p /\ Len(s) \in Nat
  OBVIOUS
<1>2. \A i \in DOMAIN s : i + 1 \in DOMAIN t /\ t[i + 1] = s[i]
  OBVIOUS
<1>3. 1 \in DOMAIN t
  BY <1>1
<1> QED BY <1>1, <1>2, <1>3 DEF Listed

\* Two sequences one behind the other: j is a and then b.
Joined(a, b, j) ==
  /\ Len(j) = Len(a) + Len(b)
  /\ \A i \in 1 .. Len(a) : j[i] = a[i]
  /\ \A i \in 1 .. Len(b) : j[Len(a) + i] = b[i]

LEMMA ConcatJoins ==
  ASSUME NEW S, NEW a \in Seq(S), NEW b \in Seq(S)
  PROVE  a \o b \in Seq(S) /\ Joined(a, b, a \o b)
<1>1. a \o b \in Seq(S) /\ Len(a \o b) = Len(a) + Len(b)
  OBVIOUS
<1>2. \A i \in 1 .. Len(a) : (a \o b)[i] = a[i]
  OBVIOUS
<1>3. \A i \in 1 .. Len(b) : (a \o b)[Len(a) + i] = b[i]
  OBVIOUS
<1> QED BY <1>1, <1>2, <1>3 DEF Joined

LEMMA ListWithout ==
  ASSUME NEW S, NEW s \in Seq(S), NEW k \in DOMAIN s
  PROVE  LET t == SubSeq(s, 1, k - 1) \o SubSeq(s, k + 1, Len(s))
         IN  /\ t \in Seq(S)
             /\ \A q \in S : Listed(q, s) /\ q # s[k] => Listed(q, t)
<1> DEFINE a == SubSeq(s, 1, k - 1)
           b == SubSeq(s, k + 1, Len(s))
           t == a \o b
<1>1. /\ k \in 1 .. Len(s) /\ Len(s) \in Nat
      /\ a \in Seq(S) /\ Len(a) = k - 1 /\ \A i \in 1 .. k - 1 : a[i] = s[i]
  OBVIOUS
<1>2. b \in Seq(S) /\ Len(b) = Len(s) - k /\ \A i \in 1 .. Len(s) - k : b[i] = s[i + k]
  OBVIOUS
<1> HIDE DEF a, b
<1>3. /\ t \in Seq(S) /\ Len(t) = Len(s) - 1 /\ DOMAIN t = 1 .. Len(s) - 1
      /\ \A i \in 1 .. k - 1 : t[i] = s[i]
      /\ \A i \in 1 .. Len(s) - k : t[i + k - 1] = s[i + k]
  <2>1. PICK n, m, l : n = Len(s) /\ m = Len(a) /\ l = Len(b)
    OBVIOUS
  <2>2. n \in Nat /\ k \in 1 .. n /\ m = k - 1 /\ l = n - k
    BY <1>1, <1>2, <2>1
  <2>3. m \in Nat /\ l \in Nat /\ m + l = n - 1 /\ k = m + 1
    BY <2>2
  <2>joined. t \in Seq(S) /\ Joined(a, b, t)
    BY <1>1, <1>2, ConcatJoins
  <2> HIDE DEF t
  <2>4. t \in Seq(S) /\ Len(t) = m + l
    BY <2>1, <2>joined DEF Joined
  <2>5. DOMAIN t = 1 .. m + l
    BY <2>4
  <2>6. \A i \in 1 .. m : t[i] = a[i]
    BY <2>1, <2>joined DEF Joined
  <2>7. \A i \in 1 .. l : t[m + i] = b[i]
    BY <2>1, <2>joined DEF Joined
  <2>8. ASSUME NEW i \in 1 .. l PROVE t[i + k - 1] = s[i + k]
    <3>1. i + k - 1 = m + i
      BY <2>3
    <3> QED BY <1>2, <2>1, <2>2, <2>7, <3>1
  <2>9. \A i \in 1 .. k - 1 : t[i] = s[i]
    BY <1>1, <2>2, <2>6
  <2> QED BY <2>1, <2>2, <2>3, <2>4, <2>5, <2>8, <2>9
<1> HIDE DEF t
<1>4. ASSUME NEW q \in S, NEW j \in DOMAIN s, s[j] = q, q # s[k]
      PROVE  Listed(q, t)
  <2>1. CASE j < k
    BY <2>1, <1>1, <1>3, <1>4 DEF Listed
  <2>2. CASE j > k
    <3>0. j \in 1 .. Len(s)
      BY <1>4
    <3>1. j - k \in 1 .. Len(s) - k /\ (j - k) + k - 1 = j - 1 /\ (j - k) + k = j
      BY <2>2, <3>0, <1>1
    <3>2. t[j - 1] = q
      BY <3>1, <1>3, <1>4
    <3> QED BY <3>2, <2>2, <1>1, <1>3 DEF Listed
  <2> QED BY <1>1, <1>4, <2>1, <2>2
<1> QED BY <1>3, <1>4 DEF Listed, t, a, b

LEMMA ListWithoutLast ==
  ASSUME NEW S, NEW s \in Seq(S), Len(s) > 0
  PROVE  LET t == SubSeq(s, 1, Len(s) - 1)
         IN  /\ t \in Seq(S) /\ s[Len(s)] \in S
             /\ \A q \in S : Listed(q, s) /\ q # s[Len(s)] => Listed(q, t)
<1> DEFINE t == SubSeq(s, 1, Len(s) - 1)
<1>1. /\ t \in Seq(S) /\ DOMAIN t = 1 .. Len(s) - 1 /\ Len(s) \in Nat /\ s[Len(s)] \in S
      /\ \A i \in 1 .. Len(s) - 1 : t[i] = s[i]
  OBVIOUS
<1> HIDE DEF t
<1>2. ASSUME NEW q \in S, NEW j \in DOMAIN s, s[j] = q, q # s[Len(s)]
      PROVE  Listed(q, t)
  BY <1>1, <1>2 DEF Listed
<1> QED BY <1>1, <1>2 DEF Listed, t

LEMMA RemovedFacts ==
  ASSUME PoolInv, NEW p \in PageId, Cached(p)
  PROVE  /\ BPM!Removed(p) \in Seq(PageId)
         /\ \A q \in PageId : Cached(q) /\ q # p => Listed(q, BPM!Removed(p))
<1> DEFINE k == BPM!IndexOf(p)
<1>1. k \in DOMAIN lru_list /\ lru_list[k] = p
  BY DEF PoolInv, Listed, BPM!IndexOf
<1> HIDE DEF k
<1>2. BPM!Removed(p) = SubSeq(lru_list, 1, k - 1) \o SubSeq(lru_list, k + 1, Len(lru_list))
  BY DEF BPM!Removed, k
<1>3. lru_list \in Seq(PageId)
  BY DEF PoolInv
<1>4. /\ BPM!Removed(p) \in Seq(PageId)
      /\ \A q \in PageId : Listed(q, lru_list) /\ q # lru_list[k] => Listed(q, BPM!Removed(p))
  BY <1>1, <1>2, <1>3, ListWithout
<1> QED BY <1>1, <1>4 DEF PoolInv

LEMMA VictimFacts ==
  ASSUME PoolInv
  PROVE  /\ BPM!ListWithoutVictim \in Seq(PageId)
         /\ \A q \in PageId : Cached(q) /\ q # BPM!Victim => Listed(q, BPM!ListWithoutVictim)
         /\ BPM!DiskAfterEviction \in [PageId -> Good]
         /\ BPM!WrittenBack \in Int
<1>0. lru_list \in Seq(PageId) /\ PoolSize \in Nat \ {0}
  BY HeapAssumption DEF PoolInv
<1>1. CASE BPM!Full
  <2>1. Len(lru_list) > 0
    BY <1>0, <1>1 DEF BPM!Full
  <2>2. /\ BPM!Victim = lru_list[Len(lru_list)]
        /\ BPM!ListWithoutVictim = SubSeq(lru_list, 1, Len(lru_list) - 1)
    BY <1>1 DEF BPM!Victim, BPM!ListWithoutVictim
  <2>3. /\ BPM!ListWithoutVictim \in Seq(PageId) /\ BPM!Victim \in PageId
        /\ \A q \in PageId : Listed(q, lru_list) /\ q # BPM!Victim
                               => Listed(q, BPM!ListWithoutVictim)
    BY <1>0, <2>1, <2>2, ListWithoutLast
  <2>4. BPM!DiskAfterEviction \in [PageId -> Good]
    <3>1. CASE BPM!WrittenBack = BPM!INVALID_PAGE_ID
      BY <3>1 DEF BPM!DiskAfterEviction, PoolInv
    <3>2. CASE BPM!WrittenBack # BPM!INVALID_PAGE_ID
      <4>1. BPM!WrittenBack = BPM!Victim /\ pages[BPM!Victim] # NoFrame
        BY <3>2 DEF BPM!WrittenBack, BPM!Dirty, BPM!Cached
      <4>2. pages[BPM!WrittenBack] \in Good
        BY <4>1, <2>3 DEF PoolInv
      <4> QED BY <3>2, <4>2 DEF BPM!DiskAfterEviction, BPM!DiskAfter, PoolInv, PageId
    <3> QED BY <3>1, <3>2
  <2>5. BPM!WrittenBack \in Int
    BY <2>3, PageIdFacts DEF BPM!WrittenBack, BPM!INVALID_PAGE_ID
  <2> QED BY <2>3, <2>4, <2>5 DEF PoolInv
<1>2. CASE ~BPM!Full
  <2>1. BPM!ListWithoutVictim = lru_list /\ BPM!WrittenBack = BPM!INVALID_PAGE_ID
    BY <1>2 DEF BPM!ListWithoutVictim, BPM!WrittenBack
  <2> QED BY <1>0, <2>1 DEF PoolInv, BPM!DiskAfterEviction, BPM!INVALID_PAGE_ID
<1> QED BY <1>1, <1>2

\* What leaves the pool's pages and the frontier alone.
LEMMA QuietPool ==
  ASSUME PoolInv, UNCHANGED <<pages, lru_list>>, disk' \in [PageId -> Good],
         file_pages' \in Nat, next_page_id' \in Nat, next_page_id' >= next_page_id,
         mode' = mode \/ mode' \in {"open", "closing"}
  PROVE  PoolInv'
<1>1. \A p \in PageId : Cached(p)' <=> Cached(p)
  BY DEF Cached, BPM!Cached
<1>2. PageId \subseteq Int
  BY PageIdFacts
<1> QED BY <1>1, <1>2, HeapAssumption DEF PoolInv, Listed

LEMMA LargerIsNat ==
  ASSUME NEW a \in Nat, NEW b \in Int
  PROVE  BPM!Larger(a, b) \in Nat /\ BPM!Larger(a, b) >= a /\ BPM!Larger(a, b) >= b
  BY DEF BPM!Larger

LEMMA FilePagesFacts ==
  ASSUME PoolInv, NEW w \in Int
  PROVE  BPM!FilePagesAfter(w) \in Nat
<1>1. file_pages \in Nat /\ w + 1 \in Int
  BY DEF PoolInv
<1> QED BY <1>1, LargerIsNat DEF BPM!FilePagesAfter

\* FetchPage: a page that is there stays where it is, and nothing moves.
LEMMA FetchStep ==
  ASSUME PoolInv, NEW p \in PageId, Fetch(p)
  PROVE  /\ PoolInv'
         /\ Cached(p) => pages' = pages
         /\ Fetched(p) => pages'[p] \in Good
<1>1. CASE BPM!FetchHit(p)
  <2>1. /\ Cached(p) /\ lru_list' = <<p>> \o BPM!Removed(p)
        /\ UNCHANGED <<disk, file_pages, next_page_id, pages, mode>>
    BY <1>1 DEF BPM!FetchHit, Cached
  <2>2. \A q \in PageId : Cached(q)' <=> Cached(q)
    BY <2>1 DEF Cached, BPM!Cached
  <2>3. lru_list' \in Seq(PageId) /\ \A q \in PageId : Cached(q) => Listed(q, lru_list')
    BY <2>1, RemovedFacts, FrontList
  <2>4. PoolInv'
    BY <2>1, <2>2, <2>3 DEF PoolInv
  <2> QED BY <2>1, <2>4 DEF PoolInv, Fetched
<1>2. CASE BPM!FetchMiss(p)
  <2> DEFINE reads == BPM!Readable(p, BPM!WrittenBack)
  <2>1. /\ ~Cached(p) /\ mode = "open"
        /\ disk' = BPM!DiskAfterEviction
        /\ file_pages' = BPM!FilePagesAfter(BPM!WrittenBack)
        /\ lru_list' = IF reads THEN <<p>> \o BPM!ListWithoutVictim
                       ELSE BPM!ListWithoutVictim
        /\ UNCHANGED <<next_page_id, mode>>
    BY <1>2 DEF BPM!FetchMiss, Cached
  <2>2. pages' = [q \in PageId |->
                   IF q = p /\ reads THEN BPM!DiskAfterEviction[p]
                   ELSE IF q = BPM!Victim THEN NoFrame ELSE pages[q]]
    BY <1>2 DEF BPM!FetchMiss, PageId
  <2>3. reads => p < next_page_id
    BY HeapAssumption, PageIdFacts DEF BPM!Readable, BPM!InRange, PoolInv
  <2> HIDE DEF reads
  <2>4. pages' \in [PageId -> Good \cup {NoFrame}]
    BY <2>2, VictimFacts DEF PoolInv
  <2>5. \A q \in PageId : Cached(q)' => (q = p /\ reads) \/ (Cached(q) /\ q # BPM!Victim)
    BY <2>2 DEF Cached, BPM!Cached
  <2>6. /\ lru_list' \in Seq(PageId)
        /\ \A q \in PageId : Cached(q) /\ q # BPM!Victim => Listed(q, lru_list')
        /\ reads => Listed(p, lru_list')
    <3>1. CASE reads
      BY <3>1, <2>1, VictimFacts, FrontList
    <3>2. CASE ~reads
      BY <3>2, <2>1, VictimFacts
    <3> QED BY <3>1, <3>2
  <2>7. \A q \in PageId : q >= next_page_id => ~Cached(q)'
    BY <2>3, <2>5, PageIdFacts DEF PoolInv
  <2>8. file_pages' \in Nat
    BY <2>1, VictimFacts, FilePagesFacts
  <2>9. PoolInv'
    BY <2>1, <2>4, <2>5, <2>6, <2>7, <2>8, VictimFacts DEF PoolInv
  <2> QED BY <2>1, <2>4, <2>9 DEF Fetched
<1> QED BY <1>1, <1>2 DEF Fetch

\* A page is written through a pointer that is good.
LEMMA WriteStep ==
  ASSUME PoolInv, NEW p \in PageId, NEW d \in TablePage, WellFormed(d), BPM!Write(p, d)
  PROVE  /\ PoolInv'
         /\ pages' = [pages EXCEPT ![p] = [data |-> d, dirty |-> TRUE]]
         /\ \A q \in PageId : Cached(q)' <=> Cached(q)
         /\ mode = "open"
<1>1. /\ Cached(p) /\ mode = "open"
      /\ pages' = [pages EXCEPT ![p] = [data |-> d, dirty |-> TRUE]]
      /\ UNCHANGED <<disk, file_pages, next_page_id, lru_list, mode>>
  BY DEF BPM!Write, Cached
<1>2. [data |-> d, dirty |-> TRUE] \in Good /\ [data |-> d, dirty |-> TRUE] # NoFrame
  BY ImageFacts
<1>3. \A q \in PageId : Cached(q)' <=> Cached(q)
  BY <1>1, <1>2 DEF PoolInv, Cached, BPM!Cached
<1>4. pages' \in [PageId -> Good \cup {NoFrame}]
  BY <1>1, <1>2 DEF PoolInv
<1>5. PoolInv'
  BY <1>1, <1>3, <1>4 DEF PoolInv, Listed
<1> QED BY <1>1, <1>3, <1>5

\* A page is allocated beyond all that there are.
LEMMA NewPageStep ==
  ASSUME PoolInv, NEW p \in PageId, BPM!NewPage(p)
  PROVE  /\ PoolInv'
         /\ pages' = [pages EXCEPT ![p] = [data |-> EmptyPage, dirty |-> FALSE]]
         /\ ~Cached(p)
         /\ \A q \in PageId : Cached(q)' <=> (q = p \/ Cached(q))
         /\ mode = "open"
<1> DEFINE img == [data |-> EmptyPage, dirty |-> FALSE]
<1>1. /\ p = next_page_id /\ mode = "open"
      /\ next_page_id' = next_page_id + 1
      /\ disk' = BPM!DiskAfter(p, img)
      /\ file_pages' = BPM!FilePagesAfter(p)
      /\ pages' = [pages EXCEPT ![p] = img]
      /\ lru_list' = <<p>> \o lru_list
      /\ UNCHANGED mode
  BY DEF BPM!NewPage
<1>2. img \in Good /\ img # NoFrame
  BY ImageFacts
<1> HIDE DEF img
<1>3. ~Cached(p)
  BY <1>1 DEF PoolInv
<1>4. \A q \in PageId : Cached(q)' <=> (q = p \/ Cached(q))
  BY <1>1, <1>2 DEF PoolInv, Cached, BPM!Cached
<1>5. pages' \in [PageId -> Good \cup {NoFrame}]
  BY <1>1, <1>2 DEF PoolInv
<1>6. disk' \in [PageId -> Good]
  BY <1>1, <1>2 DEF PoolInv, BPM!DiskAfter, PageId
<1>7. file_pages' \in Nat
  BY <1>1, PageIdFacts, FilePagesFacts
<1>8. lru_list' \in Seq(PageId) /\ \A q \in PageId : Cached(q)' => Listed(q, lru_list')
  BY <1>1, <1>4, FrontList DEF PoolInv
<1>9. \A q \in PageId : q >= next_page_id' => ~Cached(q)'
  BY <1>1, <1>4, PageIdFacts DEF PoolInv
<1>10. next_page_id' \in Nat /\ next_page_id' >= FIRST_USABLE_PAGE_ID
  BY <1>1, HeapAssumption DEF PoolInv
<1>11. PoolInv'
  BY <1>1, <1>5, <1>6, <1>7, <1>8, <1>9, <1>10 DEF PoolInv
<1> QED BY <1>1, <1>3, <1>4, <1>11 DEF img

\* A page is written to the file: nothing leaves the pool and no page changes.
LEMMA FlushStep ==
  ASSUME PoolInv, NEW p \in PageId, BPM!FlushPage(p) \/ BPM!FlushOne(p)
  PROVE  /\ PoolInv'
         /\ \A q \in PageId : Cached(q)' <=> Cached(q)
<1>1. /\ Cached(p)
      /\ disk' = BPM!DiskAfter(p, pages[p])
      /\ file_pages' = BPM!FilePagesAfter(p)
      /\ pages' = [pages EXCEPT ![p].dirty = FALSE]
      /\ mode \in {"open", "closing"}
      /\ UNCHANGED <<next_page_id, lru_list, mode>>
  BY DEF BPM!FlushPage, BPM!FlushOne, BPM!WritePage, BPM!Dirty, Cached
<1>2. pages[p] \in Good
  BY <1>1 DEF PoolInv, Cached, BPM!Cached
<1>3. /\ pages' = [pages EXCEPT ![p] = [pages[p] EXCEPT !.dirty = FALSE]]
      /\ [pages[p] EXCEPT !.dirty = FALSE] \in Good
      /\ [pages[p] EXCEPT !.dirty = FALSE] # NoFrame
  BY <1>1, <1>2, ImageFacts
<1>4. \A q \in PageId : Cached(q)' <=> Cached(q)
  BY <1>1, <1>3 DEF PoolInv, Cached, BPM!Cached
<1>5. pages' \in [PageId -> Good \cup {NoFrame}]
  BY <1>3 DEF PoolInv
<1>6. disk' \in [PageId -> Good]
  BY <1>1, <1>2 DEF PoolInv, BPM!DiskAfter, PageId
<1>7. file_pages' \in Nat
  BY <1>1, PageIdFacts, FilePagesFacts
<1>8. PoolInv'
  BY <1>1, <1>4, <1>5, <1>6, <1>7 DEF PoolInv, Listed
<1> QED BY <1>4, <1>8

\* Writes that fail, and the start of a close.
LEMMA FailStep ==
  ASSUME PoolInv, \/ BPM!FlushFails \/ BPM!NewPageFails
                  \/ BPM!BeginClose \/ BPM!FlushAllFails
  PROVE  PoolInv' /\ pages' = pages
<1>1. /\ UNCHANGED <<disk, file_pages, pages, lru_list>>
      /\ next_page_id' \in {next_page_id, next_page_id + 1}
      /\ mode' = mode \/ mode' \in {"open", "closing"}
  BY DEF BPM!FlushFails, BPM!NewPageFails, BPM!BeginClose, BPM!FlushAllFails, BPM!WriteError
<1>2. next_page_id' \in Nat /\ next_page_id' >= next_page_id
  BY <1>1 DEF PoolInv
<1>3. disk' \in [PageId -> Good] /\ file_pages' \in Nat
  BY <1>1 DEF PoolInv
<1> QED BY <1>1, <1>2, <1>3, QuietPool

\* FlushPage leaves the pages of the pool as they are, but for the dirty mark.
LEMMA FlushKeepsPage ==
  ASSUME PoolInv, NEW p \in PageId, pages[p] # NoFrame, BPM!FlushPage(p) \/ BPM!FlushFails
  PROVE  pages'[p] # NoFrame /\ pages'[p].data = pages[p].data
<1>1. CASE BPM!FlushPage(p)
  <2>1. pages' = [pages EXCEPT ![p].dirty = FALSE]
    BY <1>1 DEF BPM!FlushPage, BPM!FlushOne, BPM!WritePage, BPM!Dirty
  <2>2. pages[p] \in Good /\ DOMAIN pages = PageId
    BY DEF PoolInv
  <2>3. /\ [pages[p] EXCEPT !.dirty = FALSE] # NoFrame
        /\ [pages[p] EXCEPT !.dirty = FALSE].data = pages[p].data
    BY <2>2, ImageFacts
  <2> QED BY <2>1, <2>2, <2>3
<1>2. CASE BPM!FlushFails
  BY <1>2, FailStep
<1> QED BY <1>1, <1>2

\* A victim that cannot be written back leaves all the same.
LEMMA EvictionFailsStep ==
  ASSUME PoolInv, BPM!EvictionFails
  PROVE  PoolInv'
<1>1. /\ pages' = [pages EXCEPT ![BPM!Victim] = NoFrame]
      /\ lru_list' = BPM!ListWithoutVictim
      /\ UNCHANGED <<disk, file_pages, next_page_id, mode>>
  BY DEF BPM!EvictionFails, BPM!WriteError
<1>2. \A q \in PageId : Cached(q)' => Cached(q) /\ q # BPM!Victim
  BY <1>1 DEF PoolInv, Cached, BPM!Cached
<1>3. pages' \in [PageId -> Good \cup {NoFrame}]
  BY <1>1 DEF PoolInv
<1> QED BY <1>1, <1>2, <1>3, VictimFacts DEF PoolInv

\* The end of a close, and a crash, leave an empty pool.
LEMMA DownStep ==
  ASSUME PoolInv, BPM!EndClose \/ BPM!Crash
  PROVE  PoolInv'
<1>1. /\ pages' = [p \in PageId |-> NoFrame] /\ lru_list' = <<>>
      /\ UNCHANGED <<disk, file_pages, next_page_id>>
  BY DEF BPM!EndClose, BPM!Crash, BPM!EmptyPool, PageId
<1>2. \A p \in PageId : ~Cached(p)'
  BY <1>1 DEF Cached, BPM!Cached
<1>3. lru_list' \in Seq(PageId) /\ pages' \in [PageId -> Good \cup {NoFrame}]
  BY <1>1
<1> QED BY <1>1, <1>2, <1>3 DEF PoolInv

LEMMA OpenStep ==
  ASSUME PoolInv, BPM!Open
  PROVE  PoolInv'
<1>1. /\ mode \in {"closed", "crashed"} /\ mode' = "open"
      /\ next_page_id' = BPM!Larger(file_pages, FIRST_USABLE_PAGE_ID)
      /\ UNCHANGED <<disk, file_pages, pages, lru_list>>
  BY DEF BPM!Open, BPM!OpenFile
<1>2. next_page_id' \in Nat /\ next_page_id' >= FIRST_USABLE_PAGE_ID
  BY <1>1, HeapAssumption, LargerIsNat DEF PoolInv
<1>3. \A p \in PageId : ~Cached(p) /\ ~Cached(p)'
  BY <1>1 DEF PoolInv, Cached, BPM!Cached
<1>4. disk' \in [PageId -> Good] /\ pages' \in [PageId -> Good \cup {NoFrame}]
      /\ lru_list' \in Seq(PageId) /\ file_pages' \in Nat
  BY <1>1 DEF PoolInv
<1> QED BY <1>1, <1>2, <1>3, <1>4 DEF PoolInv

LEMMA InitPool ==
  ASSUME BPM!Init
  PROVE  PoolInv
<1>1. /\ disk = [p \in PageId |-> [data |-> ZeroedPage, dirty |-> FALSE]]
      /\ file_pages = 0 /\ next_page_id = FIRST_USABLE_PAGE_ID
      /\ pages = [p \in PageId |-> NoFrame] /\ lru_list = <<>> /\ mode = "open"
  BY DEF BPM!Init, BPM!DiskInit, PageId
<1>2. \A p \in PageId : ~Cached(p)
  BY <1>1 DEF Cached, BPM!Cached
<1>3. disk \in [PageId -> Good]
  BY <1>1, ImageFacts
<1>4. lru_list \in Seq(PageId) /\ pages \in [PageId -> Good \cup {NoFrame}]
  BY <1>1
<1>5. /\ next_page_id \in Nat /\ next_page_id >= FIRST_USABLE_PAGE_ID
      /\ file_pages \in Nat
  BY <1>1, HeapAssumption
<1>6. mode \notin {"closed", "crashed"}
  BY <1>1
<1> QED BY <1>2, <1>3, <1>4, <1>5, <1>6 DEF PoolInv

-----------------------------------------------------------------------------
(* The call in progress.                                                   *)

RowType == [page : PageId, slot : Nat, tuple : Tuples]

InsertOp == [step : {"walk", "fetchPrev", "link", "put", "flush", "ack", "segv"},
             heap : Heap, tuple : Tuples, replaces : SUBSET RowType,
             page : Link, prev : Link]
VictimOp == [step : {"fetchVictim", "kill"}, heap : Heap, row : RowType]
UpdateOp == [step : {"fetchOld", "overwrite"}, heap : Heap, row : RowType, tuple : Tuples]
ScanSteps == {"begin", "advance", "nextPage", "scanned"}

\* What a scan has seen does not matter here.
IsScan(o) ==
  /\ o.step \in ScanSteps /\ o.page \in PageId
  /\ o = [step |-> o.step, heap |-> o.heap, page |-> o.page, slot |-> o.slot, seen |-> o.seen]

CallInv ==
  /\ first_page \in [Heap -> Link]
  /\ rows \in [Heap -> SUBSET RowType]
  /\ op = Idle \/ op \in InsertOp \cup VictimOp \cup UpdateOp \/ IsScan(op)

\* The page the locals of a call point at, and what the call found there.
Holds(p) == p \in PageId /\ pages[p] # NoFrame

EndOfChain ==
  op.step = "walk" /\ op.page = NoPage =>
    Holds(op.prev) /\ Page(op.prev) \in TablePage

NewPageHeld ==
  /\ op.step \in {"fetchPrev", "link"} =>
       /\ Holds(op.prev) /\ Page(op.prev) \in TablePage /\ op.prev # op.page
       /\ Holds(op.page) /\ Page(op.page) = EmptyPage

RoomIsThere ==
  /\ op.step = "put" =>
       Holds(op.page) /\ Page(op.page) \in TablePage /\ Takes(Page(op.page), op.tuple)
  /\ op.step \in {"flush", "ack"} => Holds(op.page)

RowIsThere ==
  /\ op.step = "kill" =>
       Holds(op.row.page) /\ op.row.slot \in DOMAIN Page(op.row.page).slots
  /\ op.step = "fetchOld" => first_page[op.heap] # NoPage
  /\ op.step = "overwrite" =>
       /\ Holds(op.row.page) /\ op.row.slot \in DOMAIN Page(op.row.page).slots
       /\ Page(op.row.page).slots[op.row.slot].tuple.size = op.tuple.size

Locals == EndOfChain /\ NewPageHeld /\ RoomIsThere /\ RowIsThere

Inv == PoolInv /\ CallInv /\ Locals

\* Which call it is, by the step it is at.
LEMMA OpFacts ==
  ASSUME CallInv
  PROVE  /\ op.step \in {"walk", "fetchPrev", "link", "put", "flush", "ack", "segv"} => op \in InsertOp
         /\ op.step \in {"fetchVictim", "kill"} => op \in VictimOp
         /\ op.step \in {"fetchOld", "overwrite"} => op \in UpdateOp
         /\ op.step \in ScanSteps => IsScan(op)
<1>1. Idle.step = "idle"
  BY DEF Idle
<1>2. \A o \in InsertOp : o.step \in {"walk", "fetchPrev", "link", "put", "flush", "ack", "segv"}
  BY DEF InsertOp
<1>3. \A o \in VictimOp : o.step \in {"fetchVictim", "kill"}
  BY DEF VictimOp
<1>4. \A o \in UpdateOp : o.step \in {"fetchOld", "overwrite"}
  BY DEF UpdateOp
<1>5. IsScan(op) => op.step \in ScanSteps
  BY DEF IsScan
<1> QED BY <1>1, <1>2, <1>3, <1>4, <1>5 DEF CallInv, ScanSteps

\* Steps at which a call holds nothing.
Free == {"idle", "segv", "fetchVictim", "begin", "advance", "nextPage", "scanned"}

LEMMA FreeStep ==
  ASSUME op.step \in Free
  PROVE  Locals
  BY DEF Free, Locals, EndOfChain, NewPageHeld, RoomIsThere, RowIsThere

LEMMA FreeStepPrime ==
  ASSUME op'.step \in Free
  PROVE  Locals'
  BY DEF Free, Locals, EndOfChain, NewPageHeld, RoomIsThere, RowIsThere

LEMMA SamePool ==
  ASSUME PoolInv, UNCHANGED poolVars
  PROVE  PoolInv'
<1>1. UNCHANGED <<disk, pages, lru_list, file_pages, next_page_id, mode>>
  BY DEF poolVars
<1>2. \A p \in PageId : Cached(p)' <=> Cached(p)
  BY <1>1 DEF Cached, BPM!Cached
<1> QED BY <1>1, <1>2 DEF PoolInv, Listed

\* A call that returns, or is between two steps that hold nothing, keeps what
\* is said of calls.
LEMMA CallEnds ==
  ASSUME CallInv, UNCHANGED <<first_page, rows>>, op' = Idle
  PROVE  CallInv' /\ Locals'
<1>1. op'.step \in Free
  BY DEF Idle, Free
<1>2. CallInv'
  BY DEF CallInv
<1> QED BY <1>1, <1>2, FreeStepPrime

LEMMA FetchedPage ==
  ASSUME PoolInv, NEW p \in PageId, Fetch(p), Fetched(p)
  PROVE  /\ PageRead(p) \in TablePage \/ PageRead(p) = ZeroedPage
         /\ PageRead(p) \in TablePage => WellFormed(PageRead(p))
         /\ PageRead(p).next_page_id \in Link
         /\ \A i \in DOMAIN PageRead(p).slots : i \in Nat
<1>1. pages'[p] \in Good
  BY FetchStep
<1>3. \A f \in Good : (f.data \in TablePage \/ f.data = ZeroedPage)
                       /\ (f.data \in TablePage => WellFormed(f.data))
  BY ImageFacts
<1>4. /\ PageRead(p).next_page_id \in Link
      /\ \A i \in DOMAIN PageRead(p).slots : i \in Nat
  BY <1>1, DataFacts DEF PageRead
<1> QED BY <1>1, <1>3, <1>4 DEF PageRead

\* A page of zeroes has no room, so what takes a tuple is a table page.
LEMMA ZeroedPageIsFull ==
  ASSUME TuplesFit, NEW t \in Tuples
  PROVE  ~HasRoom(ZeroedPage, t)
<1>1. t.size \in Nat \ {0} /\ t.size + SLOT_SIZE \in 0 .. Word - 1
      /\ t.size + SLOT_SIZE > 0
  BY HeapAssumption, LayoutAssumption DEF TuplesFit, MaxTuple
<1>2. RequiredSpace(t) = t.size + SLOT_SIZE
  BY <1>1, NoWrap DEF RequiredSpace
<1>3. 0 % Word = 0
  BY NoWrap, LayoutAssumption
<1>4. AvailSpace(ZeroedPage) = 0
  BY <1>3 DEF AvailSpace, ZeroedPage
<1> QED BY <1>1, <1>2, <1>4 DEF HasRoom

LEMMA InsertCallStep ==
  ASSUME CallInv, UNCHANGED <<first_page, rows>>, NEW h \in Heap, NEW t \in Tuples,
         NEW R \in SUBSET RowType, first_page[h] # NoPage, op' = InsertCall(h, t, R)
  PROVE  CallInv' /\ Locals'
<1>1. op' \in InsertOp
  BY DEF InsertOp, InsertCall, CallInv, Link
<1>2. op'.step = "walk" /\ op'.page = first_page[h]
  BY DEF InsertCall
<1>3. CallInv'
  BY <1>1 DEF CallInv
<1>4. Locals'
  BY <1>2 DEF Locals, EndOfChain, NewPageHeld, RoomIsThere, RowIsThere
<1> QED BY <1>3, <1>4

LEMMA WalkStep ==
  ASSUME TuplesFit, Inv, WalkPage
  PROVE  Inv'
<1>1. op \in InsertOp /\ op.step = "walk" /\ op.page # NoPage
  BY OpFacts DEF WalkPage, Inv
<1>2. op.page \in PageId /\ op.page \in Link /\ op.tuple \in Tuples
  BY <1>1, PageIdFacts DEF InsertOp
<1>3. PoolInv' /\ Fetch(op.page) /\ UNCHANGED <<first_page, rows>>
  BY <1>2, FetchStep DEF WalkPage, Inv
<1>4. CASE ~Fetched(op.page) /\ Return("refused")
  BY <1>3, <1>4, CallEnds DEF Return, Inv
<1>5. CASE Fetched(op.page)
  <2> DEFINE pg == PageRead(op.page)
  <2>1. /\ pages'[op.page] # NoFrame /\ pg = pages'[op.page].data
        /\ pg \in TablePage \/ pg = ZeroedPage
        /\ pg.next_page_id \in Link
    BY <1>2, <1>3, <1>5, FetchedPage DEF Inv, Fetched, PageRead
  <2> HIDE DEF pg
  <2>2. CASE HasRoom(pg, op.tuple) /\ Goto("put")
    <3>1. op' = [op EXCEPT !.step = "put"]
      BY <2>2 DEF Goto
    <3>2. op' \in InsertOp /\ op'.step = "put" /\ op'.page = op.page /\ op'.tuple = op.tuple
      BY <1>1, <3>1 DEF InsertOp
    <3>3. pg \in TablePage
      BY <1>2, <2>1, <2>2, ZeroedPageIsFull
    <3>4. Takes(pg, op.tuple)
      BY <1>2, <2>2, HeapAssumption DEF Takes, TuplesFit
    <3>5. CallInv'
      BY <1>3, <3>2 DEF CallInv, Inv
    <3>6. Locals'
      BY <1>2, <2>1, <3>2, <3>3, <3>4
         DEF Locals, EndOfChain, NewPageHeld, RoomIsThere, RowIsThere, Holds, Page
    <3> QED BY <1>3, <3>5, <3>6 DEF Inv
  <2>3. CASE op' = [op EXCEPT !.prev = op.page, !.page = pg.next_page_id]
    <3>1. /\ op' \in InsertOp /\ op'.step = "walk" /\ op'.prev = op.page
          /\ op'.page = pg.next_page_id
      BY <1>1, <1>2, <2>1, <2>3 DEF InsertOp
    <3>2. op'.page = NoPage => pg \in TablePage
      BY <2>1, <3>1, ZeroedPageIsNoTable
    <3>3. CallInv'
      BY <1>3, <3>1 DEF CallInv, Inv
    <3>4. Locals'
      BY <1>2, <2>1, <3>1, <3>2 DEF Locals, EndOfChain, NewPageHeld, RoomIsThere, RowIsThere, Holds, Page
    <3> QED BY <1>3, <3>3, <3>4 DEF Inv
  <2> QED BY <1>5, <2>2, <2>3 DEF WalkPage, pg
<1> QED BY <1>4, <1>5 DEF WalkPage

LEMMA ExtendStep ==
  ASSUME Inv, ExtendChain
  PROVE  Inv'
<1>1. op \in InsertOp /\ op.step = "walk" /\ op.page = NoPage
  BY OpFacts DEF ExtendChain, Inv
<1>2. Holds(op.prev) /\ Page(op.prev) \in TablePage
  BY <1>1 DEF Inv, Locals, EndOfChain
<1>3. PICK p \in PageId :
        /\ BPM!NewPage(p)
        /\ op' = [op EXCEPT !.step = "fetchPrev", !.page = p]
        /\ UNCHANGED <<first_page, rows>>
  BY DEF ExtendChain
<1>4. /\ PoolInv' /\ ~Cached(p)
      /\ pages' = [pages EXCEPT ![p] = [data |-> EmptyPage, dirty |-> FALSE]]
  BY <1>3, NewPageStep DEF Inv
<1>5. op.prev # p
  BY <1>2, <1>4 DEF Holds, Cached, BPM!Cached
<1>6. /\ pages'[p] = [data |-> EmptyPage, dirty |-> FALSE] /\ pages'[p] # NoFrame
      /\ pages'[op.prev] = pages[op.prev]
  BY <1>2, <1>4, <1>5, ImageFacts DEF Inv, PoolInv, Holds
<1>7. /\ op' \in InsertOp /\ op'.step = "fetchPrev" /\ op'.page = p /\ op'.prev = op.prev
  BY <1>1, <1>3, PageIdFacts DEF InsertOp
<1>8. CallInv'
  BY <1>3, <1>7 DEF CallInv, Inv
<1>9. Locals'
  BY <1>2, <1>5, <1>6, <1>7
     DEF Locals, EndOfChain, NewPageHeld, RoomIsThere, RowIsThere, Holds, Page
<1> QED BY <1>4, <1>8, <1>9 DEF Inv

\* The fetch of the predecessor is a hit.
LEMMA FetchPrevStep ==
  ASSUME Inv, FetchPrev
  PROVE  Inv'
<1>1. op \in InsertOp /\ op.step = "fetchPrev"
  BY OpFacts DEF FetchPrev, Inv
<1>2. /\ Holds(op.prev) /\ Page(op.prev) \in TablePage /\ op.prev # op.page
      /\ Holds(op.page) /\ Page(op.page) = EmptyPage
  BY <1>1 DEF Inv, Locals, NewPageHeld
<1>3. PoolInv' /\ pages' = pages
  BY <1>2, FetchStep DEF FetchPrev, Inv, Holds, Cached, BPM!Cached
<1>4. op' = [op EXCEPT !.step = "link"] /\ UNCHANGED <<first_page, rows>>
  BY <1>2, <1>3 DEF FetchPrev, Goto, Fetched, Holds
<1>5. op' \in InsertOp /\ op'.step = "link" /\ op'.page = op.page /\ op'.prev = op.prev
  BY <1>1, <1>4 DEF InsertOp
<1>6. CallInv'
  BY <1>4, <1>5 DEF CallInv, Inv
<1>7. Locals'
  BY <1>2, <1>3, <1>5
     DEF Locals, EndOfChain, NewPageHeld, RoomIsThere, RowIsThere, Holds, Page
<1> QED BY <1>3, <1>6, <1>7 DEF Inv

\* An empty page takes every tuple that fits one.
LEMMA EmptyPageTakes ==
  ASSUME TuplesFit, NEW t \in Tuples
  PROVE  Takes(EmptyPage, t)
  BY HeapAssumption DEF TuplesFit, Takes, EmptyPage

LEMMA LinkedPage ==
  ASSUME NEW pg \in TablePage, WellFormed(pg), NEW k \in Link
  PROVE  /\ [pg EXCEPT !.next_page_id = k] \in TablePage
         /\ WellFormed([pg EXCEPT !.next_page_id = k])
         /\ [pg EXCEPT !.prev_page_id = k] \in TablePage
         /\ WellFormed([pg EXCEPT !.prev_page_id = k])
         /\ \A t \in Tuples : Takes(pg, t) => Takes([pg EXCEPT !.prev_page_id = k], t)
<1>1. /\ [pg EXCEPT !.next_page_id = k] \in TablePage
      /\ [pg EXCEPT !.prev_page_id = k] \in TablePage
  BY DEF TablePage, PageOf
<1>2. ASSUME NEW q \in {[pg EXCEPT !.next_page_id = k], [pg EXCEPT !.prev_page_id = k]}
      PROVE  q.slots = pg.slots /\ q.free_space_ptr = pg.free_space_ptr
             /\ q.tuple_start_ptr = pg.tuple_start_ptr
  BY DEF TablePage, PageOf
<1> DEFINE a == [pg EXCEPT !.next_page_id = k]
           b == [pg EXCEPT !.prev_page_id = k]
<1>3. /\ a.slots = pg.slots /\ a.free_space_ptr = pg.free_space_ptr
      /\ a.tuple_start_ptr = pg.tuple_start_ptr
      /\ b.slots = pg.slots /\ b.free_space_ptr = pg.free_space_ptr
      /\ b.tuple_start_ptr = pg.tuple_start_ptr
  BY <1>2
<1>4. a \in TablePage /\ b \in TablePage
  BY <1>1
<1> HIDE DEF a, b
<1>5. WellFormed(a) /\ WellFormed(b)
  BY <1>3 DEF WellFormed
<1>6. \A t \in Tuples : Takes(pg, t) => Takes(b, t)
  BY <1>3 DEF Takes, HasRoom, AvailSpace
<1> QED BY <1>4, <1>5, <1>6 DEF a, b

LEMMA LinkStep ==
  ASSUME TuplesFit, Inv, LinkPrev
  PROVE  Inv'
<1> DEFINE d == [Page(op.prev) EXCEPT !.next_page_id = op.page]
<1>1. op \in InsertOp /\ op.step = "link" /\ op.tuple \in Tuples
  BY OpFacts DEF LinkPrev, Inv, InsertOp
<1>2. /\ Holds(op.prev) /\ Page(op.prev) \in TablePage /\ op.prev # op.page
      /\ Holds(op.page) /\ Page(op.page) = EmptyPage
  BY <1>1 DEF Inv, Locals, NewPageHeld
<1>3. WellFormed(Page(op.prev))
  BY <1>2, ImageFacts DEF Inv, PoolInv, Holds, Page
<1>4. d \in TablePage /\ WellFormed(d)
  BY <1>2, <1>3, LinkedPage, PageIdFacts DEF Holds
<1> HIDE DEF d
<1>5. BPM!Write(op.prev, d) /\ op.prev \in PageId
      /\ op' = [op EXCEPT !.step = "put"] /\ UNCHANGED <<first_page, rows>>
  BY <1>2 DEF LinkPrev, Goto, d, Holds
<1>6. PoolInv' /\ pages' = [pages EXCEPT ![op.prev] = [data |-> d, dirty |-> TRUE]]
  BY <1>4, <1>5, WriteStep DEF Inv
<1>7. pages'[op.page] = pages[op.page]
  BY <1>2, <1>6 DEF Inv, PoolInv, Holds
<1>8. op' \in InsertOp /\ op'.step = "put" /\ op'.page = op.page /\ op'.tuple = op.tuple
  BY <1>1, <1>5 DEF InsertOp
<1>9. CallInv'
  BY <1>5, <1>8 DEF CallInv, Inv
<1>10. Takes(EmptyPage, op.tuple) /\ EmptyPage \in TablePage
  BY <1>1, EmptyPageTakes, ImageFacts
<1>11. Locals'
  BY <1>2, <1>7, <1>8, <1>10
     DEF Locals, EndOfChain, NewPageHeld, RoomIsThere, RowIsThere, Holds, Page
<1> QED BY <1>6, <1>9, <1>11 DEF Inv

LEMMA PutStep ==
  ASSUME TuplesFit, Inv, Put
  PROVE  Inv'
<1> DEFINE pg == IF IsNewPage THEN [Page(op.page) EXCEPT !.prev_page_id = op.prev]
                 ELSE Page(op.page)
<1>1. op \in InsertOp /\ op.step = "put" /\ op.tuple \in Tuples /\ op.prev \in Link
  BY OpFacts DEF Put, Inv, InsertOp
<1>2. Holds(op.page) /\ Page(op.page) \in TablePage /\ Takes(Page(op.page), op.tuple)
  BY <1>1 DEF Inv, Locals, RoomIsThere
<1>3. WellFormed(Page(op.page))
  BY <1>2, ImageFacts DEF Inv, PoolInv, Holds, Page
<1>4. pg \in TablePage /\ WellFormed(pg) /\ Takes(pg, op.tuple)
  <2>1. CASE IsNewPage
    BY <1>1, <1>2, <1>3, <2>1, LinkedPage
  <2>2. CASE ~IsNewPage
    BY <1>2, <1>3, <2>2
  <2> QED BY <2>1, <2>2
<1>5. BPM!Write(op.page, PutTuple(pg, op.tuple)) /\ op.page \in PageId
      /\ op' = [op EXCEPT !.step = "flush"] /\ UNCHANGED <<first_page, rows>>
  BY <1>2 DEF Put, Goto, Holds
<1> HIDE DEF pg
<1>6. PutTuple(pg, op.tuple) \in TablePage /\ WellFormed(PutTuple(pg, op.tuple))
  BY <1>1, <1>4, PutKeepsLayout DEF TablePage
<1>7. /\ PoolInv'
      /\ pages' = [pages EXCEPT ![op.page] = [data |-> PutTuple(pg, op.tuple), dirty |-> TRUE]]
  BY <1>5, <1>6, WriteStep DEF Inv
<1>8. pages'[op.page] # NoFrame
  <2>1. PICK d : d = PutTuple(pg, op.tuple)
    OBVIOUS
  <2>2. [data |-> d, dirty |-> TRUE] # NoFrame
    BY <1>6, <2>1, ImageFacts
  <2>3. DOMAIN pages = PageId
    BY DEF Inv, PoolInv
  <2> QED BY <1>5, <1>7, <2>1, <2>2, <2>3
<1>9. op' \in InsertOp /\ op'.step = "flush" /\ op'.page = op.page
  BY <1>1, <1>5 DEF InsertOp
<1>10. CallInv'
  BY <1>5, <1>9 DEF CallInv, Inv
<1>11. Locals'
  BY <1>5, <1>8, <1>9
     DEF Locals, EndOfChain, NewPageHeld, RoomIsThere, RowIsThere, Holds
<1> QED BY <1>7, <1>10, <1>11 DEF Inv

LEMMA FlushRowStep ==
  ASSUME Inv, FlushRow
  PROVE  Inv'
<1>1. op \in InsertOp /\ op.step = "flush"
  BY OpFacts DEF FlushRow, Inv
<1>2. Holds(op.page)
  BY <1>1 DEF Inv, Locals, RoomIsThere
<1>3. PoolInv' /\ UNCHANGED <<first_page, rows>>
  BY <1>2, FlushStep, FailStep DEF FlushRow, Inv, Holds
<1>4. op' = [op EXCEPT !.step = "ack"]
  BY DEF FlushRow, Goto
<1>5. op' \in InsertOp /\ op'.step = "ack" /\ op'.page = op.page
  BY <1>1, <1>4 DEF InsertOp
<1>6. pages'[op.page] # NoFrame
  BY <1>2, FlushKeepsPage DEF FlushRow, Inv, Holds
<1>7. CallInv'
  BY <1>3, <1>5 DEF CallInv, Inv
<1>8. Locals'
  BY <1>2, <1>5, <1>6
     DEF Locals, EndOfChain, NewPageHeld, RoomIsThere, RowIsThere, Holds
<1> QED BY <1>3, <1>7, <1>8 DEF Inv

LEMMA NewRowType ==
  ASSUME Inv, op.step \in {"flush", "ack"}
  PROVE  NewRow \in RowType /\ NewRow.page = op.page
<1>1. op \in InsertOp /\ Holds(op.page)
  BY OpFacts DEF Inv, Locals, RoomIsThere
<1>2. Len(pages[op.page].data.slots) \in Nat
  BY <1>1, DataFacts DEF Inv, PoolInv, Holds
<1> QED BY <1>1, <1>2 DEF NewRow, Row, RowType, Page, InsertOp, Holds

\* The call returns, or goes on to delete the row it replaces.
LEMMA AckStep ==
  ASSUME Inv, Acknowledge
  PROVE  Inv'
<1>0. PICK r : r = NewRow
  OBVIOUS
<1>1. op \in InsertOp /\ op.step = "ack"
  BY OpFacts DEF Acknowledge, Inv
<1>2. PoolInv' /\ UNCHANGED first_page
  BY SamePool DEF Acknowledge, Inv
<1>3. r \in RowType
  BY <1>0, <1>1, NewRowType
<1>4. rows' = [rows EXCEPT ![op.heap] = @ \cup {r}]
  BY <1>0 DEF Acknowledge
<1>5. rows' \in [Heap -> SUBSET RowType]
  BY <1>1, <1>3, <1>4 DEF Inv, CallInv, InsertOp
<1>6. (op' = Idle \/ op' \in VictimOp) /\ op'.step \in Free
  <2>1. CASE Return("done")
    BY <2>1 DEF Return, Idle, Free
  <2>2. ASSUME NEW v \in op.replaces,
               op' = [step |-> "fetchVictim", heap |-> op.heap, row |-> v]
        PROVE  op' \in VictimOp /\ op'.step \in Free
    BY <1>1, <2>2 DEF InsertOp, VictimOp, Free
  <2> QED BY <2>1, <2>2 DEF Acknowledge, Return
<1>7. CallInv'
  BY <1>2, <1>5, <1>6 DEF CallInv, Inv
<1> QED BY <1>2, <1>6, <1>7, FreeStepPrime DEF Inv

LEMMA FetchVictimStep ==
  ASSUME Inv, FetchVictim
  PROVE  Inv'
<1>1. op \in VictimOp /\ op.step = "fetchVictim" /\ op.row.page \in PageId
  BY OpFacts DEF FetchVictim, Inv, VictimOp, RowType
<1>2. PoolInv' /\ UNCHANGED <<first_page, rows>>
  BY <1>1, FetchStep DEF FetchVictim, Inv
<1>3. CASE /\ Fetched(op.row.page) /\ IsLive(PageRead(op.row.page), op.row.slot)
           /\ Goto("kill")
  <2>1. op' \in VictimOp /\ op'.step = "kill" /\ op'.row = op.row
    BY <1>1, <1>3 DEF Goto, VictimOp
  <2>2. CallInv'
    BY <1>2, <2>1 DEF CallInv, Inv
  <2>3. Locals'
    BY <1>1, <1>3, <2>1 DEF Locals, EndOfChain, NewPageHeld, RoomIsThere, RowIsThere,
       Holds, Page, Fetched, PageRead, IsLive
  <2> QED BY <1>2, <2>2, <2>3 DEF Inv
<1>4. CASE Return("refused")
  BY <1>2, <1>4, CallEnds DEF Return, Inv
<1> QED BY <1>3, <1>4 DEF FetchVictim

LEMMA KillStep ==
  ASSUME Inv, Kill
  PROVE  Inv'
<1> DEFINE p == op.row.page
           d == MarkDead(Page(p), op.row.slot)
<1>1. op \in VictimOp /\ op.step = "kill" /\ p \in PageId /\ op.heap \in Heap
  BY OpFacts DEF Kill, Inv, VictimOp, RowType
<1>2. Holds(p) /\ op.row.slot \in DOMAIN Page(p).slots
  BY <1>1 DEF Inv, Locals, RowIsThere
<1>3. Page(p) \in TablePage /\ WellFormed(Page(p)) /\ pages[p] \in Good
  <2>1. pages[p] \in Good
    BY <1>2 DEF Inv, PoolInv, Holds
  <2>2. Page(p) # ZeroedPage
    BY <1>2 DEF ZeroedPage
  <2> QED BY <2>1, <2>2, ImageFacts DEF Page
<1>4. d \in TablePage /\ WellFormed(d)
  BY <1>2, <1>3, MarkDeadKeepsLayout DEF TablePage
<1>5. pages' = [pages EXCEPT ![p].data = d]
  BY DEF Kill, Page
<1>6. [pages[p] EXCEPT !.data = d] \in Good
  BY <1>3, <1>4 DEF Good, Image
<1> HIDE DEF p, d
<1>7. pages' \in [PageId -> Good \cup {NoFrame}]
  BY <1>1, <1>5, <1>6 DEF Inv, PoolInv
<1>8. \A q \in PageId : Cached(q)' => Cached(q)
  BY <1>1, <1>2, <1>5 DEF Inv, PoolInv, Cached, BPM!Cached, Holds
<1>9. PoolInv'
  BY <1>7, <1>8 DEF Kill, Inv, PoolInv, Listed
<1>10. rows' \in [Heap -> SUBSET RowType] /\ first_page' = first_page /\ op' = Idle
  BY <1>1 DEF Kill, Return, Inv, CallInv
<1>11. CallInv' /\ op'.step \in Free
  BY <1>10 DEF CallInv, Inv, Idle, Free
<1> QED BY <1>9, <1>11, FreeStepPrime DEF Inv

LEMMA FetchOldStep ==
  ASSUME Inv, FetchOld
  PROVE  Inv'
<1> DEFINE p == op.row.page
<1>1. /\ op \in UpdateOp /\ op.step = "fetchOld" /\ p \in PageId /\ op.row \in RowType
      /\ op.heap \in Heap /\ op.tuple \in Tuples
  BY OpFacts DEF FetchOld, Inv, UpdateOp, RowType
<1>2. PoolInv' /\ UNCHANGED <<first_page, rows>>
  BY <1>1, FetchStep DEF FetchOld, Inv
<1>3. CASE Return("refused")
  BY <1>2, <1>3, CallEnds DEF Return, Inv
<1>4. CASE /\ Fetched(p) /\ IsLive(PageRead(p), op.row.slot)
           /\ PageRead(p).slots[op.row.slot].tuple.size = op.tuple.size
           /\ Goto("overwrite")
  <2>1. op' \in UpdateOp /\ op'.step = "overwrite" /\ op'.row = op.row /\ op'.tuple = op.tuple
    BY <1>1, <1>4 DEF Goto, UpdateOp
  <2>2. CallInv'
    BY <1>2, <2>1 DEF CallInv, Inv
  <2>3. Locals'
    BY <1>1, <1>4, <2>1 DEF Locals, EndOfChain, NewPageHeld, RoomIsThere, RowIsThere,
       Holds, Page, Fetched, PageRead, IsLive
  <2> QED BY <1>2, <2>2, <2>3 DEF Inv
<1>5. CASE op' = InsertCall(op.heap, op.tuple, {op.row})
  <2>1. first_page[op.heap] # NoPage /\ {op.row} \in SUBSET RowType
    BY <1>1 DEF Inv, Locals, RowIsThere
  <2> QED BY <1>1, <1>2, <1>5, <2>1, InsertCallStep DEF Inv
<1> QED BY <1>3, <1>4, <1>5 DEF FetchOld

LEMMA OverwriteStep ==
  ASSUME Inv, OverwriteRow
  PROVE  Inv'
<1> DEFINE p == op.row.page
           d == Overwrite(Page(p), op.row.slot, op.tuple)
<1>1. /\ op \in UpdateOp /\ op.step = "overwrite" /\ p \in PageId /\ op.heap \in Heap
      /\ op.row.slot \in Nat /\ op.tuple \in Tuples
  BY OpFacts DEF OverwriteRow, Inv, UpdateOp, RowType
<1>2. /\ Holds(p) /\ op.row.slot \in DOMAIN Page(p).slots
      /\ Page(p).slots[op.row.slot].tuple.size = op.tuple.size
  BY <1>1 DEF Inv, Locals, RowIsThere
<1>3. Page(p) \in TablePage /\ WellFormed(Page(p))
  <2>1. pages[p] \in Good
    BY <1>2 DEF Inv, PoolInv, Holds
  <2>2. Page(p) # ZeroedPage
    BY <1>2 DEF ZeroedPage
  <2> QED BY <2>1, <2>2, ImageFacts DEF Page
<1>4. op.tuple.size <= Page(p).slots[op.row.slot].tuple_length
  BY <1>2, <1>3 DEF WellFormed
<1>5. d \in TablePage /\ WellFormed(d)
  BY <1>1, <1>2, <1>3, <1>4, OverwriteKeepsLayout DEF TablePage
<1>6. BPM!Write(p, d)
  BY DEF OverwriteRow
<1> HIDE DEF d
<1>7. PoolInv'
  BY <1>1, <1>5, <1>6, WriteStep DEF Inv
<1>8. Row(p, op.row.slot, op.tuple) \in RowType
  BY <1>1 DEF Row, RowType
<1>9. rows' \in [Heap -> SUBSET RowType] /\ first_page' = first_page /\ op' = Idle
  BY <1>1, <1>8 DEF OverwriteRow, Return, Inv, CallInv
<1>10. CallInv' /\ op'.step \in Free
  BY <1>9 DEF CallInv, Inv, Idle, Free
<1> QED BY <1>7, <1>10, FreeStepPrime DEF Inv

\* Any step of a scan that stays at a page of the pool's range.
LEMMA ScanGoesOn ==
  ASSUME CallInv, UNCHANGED <<first_page, rows>>, IsScan(op')
  PROVE  CallInv' /\ Locals'
<1>1. op'.step \in Free
  BY DEF IsScan, ScanSteps, Free
<1>2. CallInv'
  BY DEF CallInv
<1> QED BY <1>1, <1>2, FreeStepPrime

LEMMA ScanFields ==
  ASSUME IsScan(op), NEW step \in ScanSteps, NEW p \in PageId, NEW i, NEW seen
  PROVE  /\ IsScan([op EXCEPT !.step = step])
         /\ IsScan([op EXCEPT !.step = step, !.page = p, !.slot = i])
         /\ IsScan([op EXCEPT !.step = step, !.page = p, !.slot = i, !.seen = seen])
<1> DEFINE o == [step |-> op.step, heap |-> op.heap, page |-> op.page,
                 slot |-> op.slot, seen |-> op.seen]
<1>1. op = o /\ op.page \in PageId
  BY DEF IsScan
<1>2. /\ [o EXCEPT !.step = step] =
           [step |-> step, heap |-> op.heap, page |-> op.page, slot |-> op.slot, seen |-> op.seen]
      /\ [o EXCEPT !.step = step, !.page = p, !.slot = i] =
           [step |-> step, heap |-> op.heap, page |-> p, slot |-> i, seen |-> op.seen]
      /\ [o EXCEPT !.step = step, !.page = p, !.slot = i, !.seen = seen] =
           [step |-> step, heap |-> op.heap, page |-> p, slot |-> i, seen |-> seen]
  <2> DEFINE o1 == [step |-> step, heap |-> op.heap, page |-> op.page,
                    slot |-> op.slot, seen |-> op.seen]
             o2 == [step |-> step, heap |-> op.heap, page |-> p,
                    slot |-> op.slot, seen |-> op.seen]
             o3 == [step |-> step, heap |-> op.heap, page |-> p, slot |-> i, seen |-> op.seen]
  <2>1. /\ [o EXCEPT !.step = step, !.page = p, !.slot = i] =
             [[[o EXCEPT !.step = step] EXCEPT !.page = p] EXCEPT !.slot = i]
        /\ [o EXCEPT !.step = step, !.page = p, !.slot = i, !.seen = seen] =
             [[[[o EXCEPT !.step = step] EXCEPT !.page = p] EXCEPT !.slot = i]
                EXCEPT !.seen = seen]
    <3> HIDE DEF o
    <3> QED OBVIOUS
  <2>2. [o EXCEPT !.step = step] = o1
    OBVIOUS
  <2>3. [o1 EXCEPT !.page = p] = o2
    OBVIOUS
  <2>4. [o2 EXCEPT !.slot = i] = o3
    OBVIOUS
  <2>5. [o3 EXCEPT !.seen = seen] =
          [step |-> step, heap |-> op.heap, page |-> p, slot |-> i, seen |-> seen]
    OBVIOUS
  <2> HIDE DEF o
  <2> QED BY <2>1, <2>2, <2>3, <2>4, <2>5
<1>3. \A h, q, j, e : q \in PageId =>
        IsScan([step |-> step, heap |-> h, page |-> q, slot |-> j, seen |-> e])
  BY DEF IsScan
<1> HIDE DEF o
<1>4. /\ IsScan([o EXCEPT !.step = step])
      /\ IsScan([o EXCEPT !.step = step, !.page = p, !.slot = i])
      /\ IsScan([o EXCEPT !.step = step, !.page = p, !.slot = i, !.seen = seen])
  BY <1>1, <1>2, <1>3
<1> QED BY <1>1, <1>4

LEMMA ScanStays ==
  ASSUME Inv, ScanPage
  PROVE  PoolInv' /\ UNCHANGED <<first_page, rows>> /\ IsScan(op')
<1>1. IsScan(op) /\ op.page \in PageId
  BY OpFacts DEF ScanPage, Inv, ScanSteps, IsScan
<1>2. PoolInv' /\ Fetch(op.page) /\ UNCHANGED <<first_page, rows>>
  BY <1>1, FetchStep DEF ScanPage, Inv
<1>3. IsScan(op')
  <2>1. CASE Goto("scanned")
    BY <1>1, <2>1, ScanFields DEF Goto, ScanSteps
  <2>2. ASSUME NEW i, Emit(op.page, i) PROVE IsScan(op')
    BY <1>1, <2>2, ScanFields DEF Emit, ScanSteps
  <2>3. ASSUME Fetched(op.page), PageRead(op.page).next_page_id # NoPage,
               op' = [op EXCEPT !.step = "nextPage",
                                !.page = PageRead(op.page).next_page_id, !.slot = 0]
        PROVE  IsScan(op')
    <3>1. PageRead(op.page).next_page_id \in PageId
      BY <1>1, <1>2, <2>3, FetchedPage, PageIdFacts DEF Inv
    <3> QED BY <1>1, <2>3, <3>1, ScanFields DEF ScanSteps
  <2> QED BY <2>1, <2>2, <2>3 DEF ScanPage
<1> QED BY <1>2, <1>3

LEMMA ScanPageStep ==
  ASSUME Inv, ScanPage
  PROVE  Inv'
  BY ScanStays, ScanGoesOn DEF Inv

LEMMA ThrowsStep ==
  ASSUME Inv, Throws
  PROVE  Inv'
<1>1. PoolInv'
  BY FailStep, EvictionFailsStep DEF Throws, Inv
<1> QED BY <1>1, CallEnds DEF Throws, Return, Inv

-----------------------------------------------------------------------------
(* Calls begin; the pool is closed, lost and opened.                       *)

LEMMA CreateHeapStep ==
  ASSUME Inv, NEW h \in Heap, CreateHeap(h)
  PROVE  Inv'
<1>1. PICK p \in PageId : BPM!NewPage(p) /\ first_page' = [first_page EXCEPT ![h] = p]
  BY DEF CreateHeap
<1>2. PoolInv'
  BY <1>1, NewPageStep DEF Inv
<1>3. first_page' \in [Heap -> Link] /\ op' = Idle /\ rows' = rows
  BY <1>1, PageIdFacts DEF CreateHeap, Inv, CallInv
<1>4. CallInv' /\ op'.step \in Free
  BY <1>3 DEF CallInv, Inv, Idle, Free
<1> QED BY <1>2, <1>4, FreeStepPrime DEF Inv

LEMMA BeginStep ==
  ASSUME Inv, NEW h \in Heap,
         \/ Scan(h)
         \/ \E t \in Tuples : Insert(h, t)
         \/ \E r \in rows[h] : Delete(h, r)
         \/ \E r \in rows[h], t \in Tuples : Update(h, r, t)
  PROVE  Inv'
<1>1. PoolInv' /\ UNCHANGED <<first_page, rows>> /\ first_page[h] # NoPage
  BY SamePool DEF Scan, Insert, Delete, Update, Ready, Inv
<1>2. rows[h] \subseteq RowType /\ first_page[h] \in Link
  BY DEF Inv, CallInv
<1>3. CASE Scan(h)
  <2>1. IsScan(op')
    BY <1>1, <1>2, <1>3, PageIdFacts DEF Scan, IsScan, ScanSteps
  <2> QED BY <1>1, <2>1, ScanGoesOn DEF Inv
<1>4. ASSUME NEW t \in Tuples, Insert(h, t) PROVE Inv'
  BY <1>1, <1>4, InsertCallStep DEF Insert, Inv
<1>5. ASSUME NEW r \in rows[h], Delete(h, r) PROVE Inv'
  <2>1. op' \in VictimOp /\ op'.step \in Free
    BY <1>2, <1>5 DEF Delete, VictimOp, Free
  <2>2. CallInv'
    BY <1>1, <2>1 DEF CallInv, Inv
  <2> QED BY <1>1, <2>1, <2>2, FreeStepPrime DEF Inv
<1>6. ASSUME NEW r \in rows[h], NEW t \in Tuples, Update(h, r, t) PROVE Inv'
  <2>1. op' \in UpdateOp /\ op'.step = "fetchOld" /\ op'.heap = h
    BY <1>2, <1>6 DEF Update, UpdateOp
  <2>2. CallInv'
    BY <1>1, <2>1 DEF CallInv, Inv
  <2>3. Locals'
    BY <1>1, <2>1 DEF Locals, EndOfChain, NewPageHeld, RoomIsThere, RowIsThere
  <2> QED BY <1>1, <2>2, <2>3 DEF Inv
<1> QED BY <1>3, <1>4, <1>5, <1>6

LEMMA CloseStep ==
  ASSUME Inv, Close
  PROVE  Inv'
<1>1. PoolInv'
  BY FailStep, FlushStep, DownStep DEF Close, Inv
<1>2. op' = Idle /\ UNCHANGED <<first_page, rows>>
  BY DEF Close
<1> QED BY <1>1, <1>2, CallEnds DEF Inv

\* The rows a crash leaves are rows.
LEMMA DiskRowsAreRows ==
  ASSUME PoolInv, NEW h \in Heap
  PROVE  DiskRows(h) \in SUBSET RowType
<1> DEFINE at == BPM!StableView
<1>1. Chain(h, at) \subseteq PageId
  BY DEF Chain, From
<1>2. \A p \in PageId : at[p] = disk[p].data
  BY DEF BPM!StableView, PageId
<1>3. ASSUME NEW p \in PageId, NEW i \in LiveSlots(at[p])
      PROVE  Row(p, i, at[p].slots[i].tuple) \in RowType
  <2>1. i \in DOMAIN disk[p].data.slots
    BY <1>2, <1>3 DEF LiveSlots
  <2>2. i \in Nat /\ at[p].slots[i].tuple \in Tuples
    BY <1>2, <2>1, DataFacts DEF PoolInv
  <2> QED BY <2>2 DEF Row, RowType
<1> QED BY <1>1, <1>3 DEF DiskRows, RowsOf

LEMMA CrashStep ==
  ASSUME Inv, Crash
  PROVE  Inv'
<1>1. PoolInv'
  BY DownStep DEF Crash, Inv
<1>2. rows' \in [Heap -> SUBSET RowType]
  BY DiskRowsAreRows DEF Crash, Inv
<1>3. first_page' = first_page /\ op' = Idle
  BY DEF Crash
<1>4. CallInv' /\ op'.step \in Free
  BY <1>2, <1>3 DEF CallInv, Inv, Idle, Free
<1> QED BY <1>1, <1>4, FreeStepPrime DEF Inv

LEMMA ReopenStep ==
  ASSUME Inv, Reopen
  PROVE  Inv'
<1>1. /\ PoolInv' /\ UNCHANGED <<pages, first_page, op, rows>>
  BY OpenStep DEF Reopen, Inv, heapVars, BPM!Open
<1> QED BY <1>1 DEF Inv, CallInv, Locals, EndOfChain, NewPageHeld, RoomIsThere,
               RowIsThere, Holds, Page

-----------------------------------------------------------------------------
(* The inductive invariant and what follows from it.                       *)

LEMMA InitInv == Init => Inv
<1> SUFFICES ASSUME Init PROVE Inv
  OBVIOUS
<1>1. PoolInv
  BY InitPool DEF Init
<1>2. first_page \in [Heap -> Link] /\ rows \in [Heap -> SUBSET RowType] /\ op = Idle
  BY DEF Init, Link
<1>3. CallInv /\ op.step \in Free
  BY <1>2 DEF CallInv, Idle, Free
<1> QED BY <1>1, <1>3, FreeStep DEF Inv

LEMMA NextInv == TuplesFit /\ Inv /\ [Next]_vars => Inv'
<1> SUFFICES ASSUME TuplesFit, Inv, [Next]_vars PROVE Inv'
  OBVIOUS
<1>1. ASSUME NEW h \in Heap, CreateHeap(h) PROVE Inv'
  BY <1>1, CreateHeapStep
<1>2. ASSUME NEW h \in Heap,
             \/ Scan(h)
             \/ \E t \in Tuples : Insert(h, t)
             \/ \E r \in rows[h] : Delete(h, r)
             \/ \E r \in rows[h], t \in Tuples : Update(h, r, t)
      PROVE  Inv'
  BY <1>2, BeginStep
<1>3. CASE WalkPage \/ ExtendChain \/ FetchPrev \/ LinkPrev \/ Put \/ FlushRow
          \/ Acknowledge
  BY <1>3, WalkStep, ExtendStep, FetchPrevStep, LinkStep, PutStep, FlushRowStep, AckStep
<1>4. CASE FetchVictim \/ Kill \/ FetchOld \/ OverwriteRow
  BY <1>4, FetchVictimStep, KillStep, FetchOldStep, OverwriteStep
<1>5. CASE ScanPage
  BY <1>5, ScanPageStep
<1>6. CASE EndScan
  <2>1. PoolInv'
    BY <1>6, SamePool DEF EndScan, Inv
  <2> QED BY <1>6, <2>1, CallEnds DEF EndScan, Return, Inv
<1>7. CASE Throws
  BY <1>7, ThrowsStep
<1>8. CASE Close \/ Crash \/ Reopen
  BY <1>8, CloseStep, CrashStep, ReopenStep
<1>9. CASE UNCHANGED vars
  <2>1. UNCHANGED poolVars /\ UNCHANGED <<pages, first_page, op, rows>>
    BY <1>9 DEF vars, poolVars, heapVars
  <2>2. PoolInv'
    BY <2>1, SamePool DEF Inv
  <2> QED BY <2>1, <2>2 DEF Inv, CallInv, Locals, EndOfChain, NewPageHeld,
             RoomIsThere, RowIsThere, Holds, Page
<1> QED BY <1>1, <1>2, <1>3, <1>4, <1>5, <1>6, <1>7, <1>8, <1>9 DEF Next

LEMMA Induction == TuplesFit => (Spec => []Inv)
<1> SUFFICES ASSUME TuplesFit PROVE Spec => []Inv
  OBVIOUS
<1>1. Inv /\ [Next]_vars => Inv'
  BY NextInv
<1> QED BY <1>1, InitInv, PTL DEF Spec

\* How calls end.
Results == {"none", "done", "refused", "threw"}

LEMMA ResultIsKnown ==
  ASSUME result \in Results, [Next]_vars
  PROVE  result' \in Results
<1>1. CASE \E h \in Heap : \/ CreateHeap(h) \/ Scan(h)
                           \/ \E t \in Tuples : Insert(h, t)
                           \/ \E r \in rows[h] : Delete(h, r)
                           \/ \E r \in rows[h], t \in Tuples : Update(h, r, t)
  BY <1>1 DEF CreateHeap, Scan, Insert, Delete, Update, Results
<1>2. CASE WalkPage \/ ExtendChain \/ FetchPrev \/ LinkPrev \/ Put \/ FlushRow
          \/ Acknowledge
  BY <1>2 DEF WalkPage, ExtendChain, FetchPrev, LinkPrev, Put, FlushRow,
                Acknowledge, Goto, Return, Results
<1>3. CASE FetchVictim \/ Kill \/ FetchOld \/ OverwriteRow
  BY <1>3 DEF FetchVictim, Kill, FetchOld, OverwriteRow, Goto, Return, Results
<1>4. CASE ScanPage
  BY <1>4 DEF ScanPage, Goto
<1>5. CASE EndScan \/ Throws \/ Close \/ Crash \/ Reopen \/ UNCHANGED vars
  BY <1>5 DEF EndScan, Throws, Close, Crash, Reopen, Return, Results, vars, heapVars
<1> QED BY <1>1, <1>2, <1>3, <1>4, <1>5 DEF Next

\* If every tuple fits an empty page, the heaps' variables keep their types
\* and a call is at a step its operation has.
THEOREM TypeCorrect == TuplesFit => (Spec => []TypeOK)
<1> SUFFICES ASSUME TuplesFit PROVE Spec => []TypeOK
  OBVIOUS
<1>1. Init => result \in Results
  BY DEF Init, Results
<1>2. result \in Results /\ [Next]_vars => (result \in Results)'
  BY ResultIsKnown
<1>3. Inv /\ result \in Results => TypeOK
  <2> SUFFICES ASSUME Inv, result \in Results PROVE TypeOK
    OBVIOUS
  <2>1. op = Idle \/ op.step \in {"walk", "fetchPrev", "link", "put", "flush", "ack", "segv",
            "fetchVictim", "kill", "fetchOld", "overwrite"} \cup ScanSteps
    BY DEF Inv, CallInv, InsertOp, VictimOp, UpdateOp, IsScan
  <2>2. Idle.step = "idle"
    BY DEF Idle
  <2> QED BY <2>1, <2>2 DEF Inv, CallInv, TypeOK, Results, ScanSteps
<1> QED BY <1>1, <1>2, <1>3, Induction, PTL DEF Spec

\* If every tuple fits an empty page, no call of the heap writes to a page
\* that has left the pool, whatever the pool's size and whatever fails.
THEOREM WritesAreToResidentPages == TuplesFit => (Spec => []HeldPagesAreResident)
<1>1. Inv => HeldPagesAreResident
  BY DEF Inv, Locals, NewPageHeld, RoomIsThere, RowIsThere, HeldPagesAreResident,
     Holds, Cached, BPM!Cached
<1> QED BY <1>1, Induction, PTL

\* If every tuple fits an empty page, no page of any heap loses its layout, in
\* the pool or in the file, across evictions, failed writes and crashes.
THEOREM PagesKeepLayout == TuplesFit => (Spec => []PagesWellFormed)
<1>1. Inv => PagesWellFormed
  <2> SUFFICES ASSUME Inv, NEW p \in PageId, NEW pg \in {View[p], disk[p].data},
                      pg.page_type = "TABLE_PAGE"
               PROVE  WellFormed(pg)
    BY DEF PagesWellFormed
  <2>1. View[p] = IF Cached(p) THEN pages[p].data ELSE disk[p].data
    BY DEF View, BPM!StoreView, PageId, Cached
  <2>2. PICK f \in Good : pg = f.data
    BY <2>1 DEF Inv, PoolInv, Cached, BPM!Cached
  <2>3. pg # ZeroedPage
    BY DEF ZeroedPage
  <2> QED BY <2>2, <2>3, ImageFacts
<1> QED BY <1>1, Induction, PTL

-----------------------------------------------------------------------------
(* What is in the file.                                                    *)

\* An image has a row; a later image keeps the slots of an earlier one.
Has(d, r) == IsLive(d, r.slot) /\ d.slots[r.slot].tuple = r.tuple
Keeps(d, e) == \A i \in DOMAIN d.slots : i \in DOMAIN e.slots /\ e.slots[i] = d.slots[i]

\* A row is in the file, and in the pool too if its page is there.
Safe(r) ==
  /\ Has(disk[r.page].data, r)
  /\ pages[r.page] # NoFrame => Has(pages[r.page].data, r)
  /\ r.page < file_pages

Forced == ~faulted => \A h \in Heap : \A r \in rows[h] : Safe(r)

\* The file ends below the next page to be allocated, and holds what there is.
FileHoldsAll ==
  /\ mode \in {"open", "closing"} => file_pages <= next_page_id
  /\ \A p \in PageId : p >= file_pages => disk[p].data = ZeroedPage

\* The row about to be acknowledged is the last of its page; its page was
\* forced, unless the write failed.
RowIsPut ==
  /\ op.step \in {"flush", "ack"} => Has(Page(op.page), NewRow)
  /\ op.step = "ack" /\ ~faulted => Has(disk[op.page].data, NewRow)

ModifySteps == {"fetchVictim", "kill", "fetchOld", "overwrite"}
OnlyInserts ==
  /\ op.step \notin ModifySteps
  /\ op.step \in {"walk", "fetchPrev", "link", "put", "flush", "ack"} => op.replaces = {}

ForceInv == Inv /\ FileHoldsAll /\ Forced /\ RowIsPut /\ OnlyInserts

-----------------------------------------------------------------------------
(* What the pool does with the pages of the file.                          *)

\* A page may be written to the file, read from it, dropped, or gain slots.
Moves ==
  /\ file_pages' >= file_pages
  /\ \A q \in PageId : q < file_pages =>
       /\ disk'[q] = disk[q] \/ (pages[q] # NoFrame /\ disk'[q] = pages[q])
       /\ \/ pages'[q] = NoFrame
          \/ pages'[q] = disk'[q]
          \/ pages[q] # NoFrame /\ Keeps(pages[q].data, pages'[q].data)

LEMMA KeptRow ==
  ASSUME NEW d, NEW e, NEW r, Keeps(d, e), Has(d, r)
  PROVE  Has(e, r)
  BY DEF Keeps, Has, IsLive

LEMMA MovesKeepRows ==
  ASSUME PoolInv, PoolInv', Moves, NEW r \in RowType, Safe(r)
  PROVE  Safe(r)'
<1> DEFINE q == r.page
<1>1. q \in PageId /\ q < file_pages /\ file_pages \in Nat /\ file_pages' \in Nat
  BY DEF RowType, Safe, PoolInv
<1>2. Has(disk[q].data, r) /\ (pages[q] # NoFrame => Has(pages[q].data, r))
  BY DEF Safe
<1>3. /\ disk'[q] = disk[q] \/ (pages[q] # NoFrame /\ disk'[q] = pages[q])
      /\ \/ pages'[q] = NoFrame
         \/ pages'[q] = disk'[q]
         \/ pages[q] # NoFrame /\ Keeps(pages[q].data, pages'[q].data)
  BY <1>1 DEF Moves
<1>4. Has(disk'[q].data, r)
  BY <1>2, <1>3
<1>5. pages'[q] # NoFrame => Has(pages'[q].data, r)
  BY <1>2, <1>3, <1>4, KeptRow
<1>6. q < file_pages'
  BY <1>1, PageIdFacts DEF Moves
<1> QED BY <1>4, <1>5, <1>6 DEF Safe

LEMMA ForcedStays ==
  ASSUME Inv, Inv', Forced, Moves, UNCHANGED <<rows, faulted>>
  PROVE  Forced'
<1>1. \A h \in Heap : \A r \in rows[h] : r \in RowType
  BY DEF Inv, CallInv
<1>2. ASSUME ~faulted, NEW h \in Heap, NEW r \in rows[h] PROVE Safe(r)'
  BY <1>1, <1>2, MovesKeepRows DEF Inv, Forced
<1> QED BY <1>2 DEF Forced

LEMMA LargerFacts ==
  ASSUME NEW a \in Nat, NEW b \in Int
  PROVE  BPM!Larger(a, b) \in {a, b} /\ BPM!Larger(a, b) >= a /\ BPM!Larger(a, b) >= b
  BY DEF BPM!Larger

\* A write to the file, of a page of the pool or of none.
LEMMA FileGrows ==
  ASSUME PoolInv, NEW w \in Int, FileHoldsAll, mode \in {"open", "closing"},
         w < next_page_id, file_pages' = BPM!FilePagesAfter(w),
         disk' \in [PageId -> Good], \A q \in PageId : q # w => disk'[q] = disk[q],
         next_page_id' = next_page_id
  PROVE  FileHoldsAll' /\ file_pages' >= file_pages
<1>1. /\ file_pages \in Nat /\ next_page_id \in Nat /\ w + 1 \in Int
      /\ file_pages <= next_page_id
  BY DEF PoolInv, FileHoldsAll
<1>2. /\ file_pages' \in {file_pages, w + 1}
      /\ file_pages' >= file_pages /\ file_pages' >= w + 1
  BY <1>1, LargerFacts DEF BPM!FilePagesAfter
<1>3. file_pages' <= next_page_id'
  BY <1>1, <1>2
<1>4. ASSUME NEW p \in PageId, p >= file_pages' PROVE disk'[p].data = ZeroedPage
  <2>1. p # w /\ p >= file_pages
    BY <1>1, <1>2, <1>4, PageIdFacts
  <2> QED BY <2>1 DEF FileHoldsAll
<1> QED BY <1>2, <1>3, <1>4 DEF FileHoldsAll

LEMMA ResidentIsAllocated ==
  ASSUME PoolInv, NEW p \in PageId, pages[p] # NoFrame
  PROVE  p < next_page_id
  BY PageIdFacts DEF PoolInv, Cached, BPM!Cached

\* Keeping one's slots.
LEMMA KeepsItself == \A d : Keeps(d, d)
  BY DEF Keeps

LEMMA VictimInRange ==
  ASSUME PoolInv, BPM!WrittenBack # BPM!INVALID_PAGE_ID
  PROVE  BPM!WrittenBack \in PageId
<1>1. /\ BPM!WrittenBack = BPM!Victim /\ BPM!Full
  BY DEF BPM!WrittenBack
<1>2. lru_list \in Seq(PageId) /\ Len(lru_list) > 0
  BY <1>1, HeapAssumption DEF BPM!Full, PoolInv
<1>3. lru_list[Len(lru_list)] \in PageId
  BY <1>2
<1> QED BY <1>1, <1>3 DEF BPM!Victim

LEMMA FetchMoves ==
  ASSUME Inv, FileHoldsAll, NEW p \in PageId, Fetch(p)
  PROVE  Moves /\ FileHoldsAll'
<1>0. PoolInv /\ file_pages \in Nat
  BY DEF Inv, PoolInv
<1>1. CASE BPM!FetchHit(p)
  <2>1. UNCHANGED <<disk, file_pages, next_page_id, pages, mode>>
    BY <1>1 DEF BPM!FetchHit
  <2> QED BY <1>0, <2>1, KeepsItself DEF Moves, FileHoldsAll
<1>2. CASE BPM!FetchMiss(p)
  <2> DEFINE w == BPM!WrittenBack
             reads == BPM!Readable(p, BPM!WrittenBack)
  <2>1. /\ mode = "open" /\ UNCHANGED <<next_page_id, mode>>
        /\ disk' = BPM!DiskAfterEviction
        /\ file_pages' = BPM!FilePagesAfter(w)
        /\ pages' = [q \in PageId |->
                       IF q = p /\ reads THEN disk'[p]
                       ELSE IF q = BPM!Victim THEN NoFrame ELSE pages[q]]
    BY <1>2 DEF BPM!FetchMiss, PageId
  <2>2. w = BPM!INVALID_PAGE_ID \/ (w = BPM!Victim /\ pages[w] # NoFrame)
    BY DEF BPM!WrittenBack, BPM!Dirty, BPM!Cached
  <2>3. \A q \in PageId : disk'[q] = IF q = w THEN pages[q] ELSE disk[q]
    <3>1. BPM!INVALID_PAGE_ID \notin PageId
      BY PageIdFacts DEF BPM!INVALID_PAGE_ID, NoPage
    <3> QED BY <2>1, <2>2, <3>1 DEF BPM!DiskAfterEviction, BPM!DiskAfter, PageId
  <2>4. w \in Int /\ disk' \in [PageId -> Good]
    BY <1>0, <2>1, VictimFacts
  <2>5. w < next_page_id
    <3>1. CASE w = BPM!INVALID_PAGE_ID
      BY <1>0, <3>1 DEF PoolInv, BPM!INVALID_PAGE_ID
    <3>2. CASE w # BPM!INVALID_PAGE_ID
      <4>1. w \in PageId
        BY <1>0, <2>2, <3>2, VictimInRange
      <4> QED BY <1>0, <2>2, <3>2, <4>1, ResidentIsAllocated
    <3> QED BY <3>1, <3>2
  <2> HIDE DEF w, reads
  <2>6. FileHoldsAll' /\ file_pages' >= file_pages
    BY <1>0, <2>1, <2>3, <2>4, <2>5, FileGrows
  <2>7. ASSUME NEW q \in PageId
        PROVE  /\ disk'[q] = disk[q] \/ (pages[q] # NoFrame /\ disk'[q] = pages[q])
               /\ \/ pages'[q] = NoFrame
                  \/ pages'[q] = disk'[q]
                  \/ pages[q] # NoFrame /\ Keeps(pages[q].data, pages'[q].data)
    <3>1. q = w => pages[q] # NoFrame
      BY <2>2, PageIdFacts DEF BPM!INVALID_PAGE_ID, NoPage
    <3>2. pages'[q] \in {disk'[q], NoFrame, pages[q]}
      BY <2>1
    <3> QED BY <2>3, <3>1, <3>2, KeepsItself
  <2> QED BY <2>6, <2>7 DEF Moves
<1> QED BY <1>1, <1>2 DEF Fetch

LEMMA WriteMoves ==
  ASSUME Inv, FileHoldsAll, NEW p \in PageId, NEW d \in TablePage, WellFormed(d),
         BPM!Write(p, d), pages[p] # NoFrame, Keeps(Page(p), d)
  PROVE  Moves /\ FileHoldsAll'
<1>1. /\ pages' = [pages EXCEPT ![p] = [data |-> d, dirty |-> TRUE]]
      /\ UNCHANGED <<disk, file_pages, next_page_id, mode>>
  BY DEF BPM!Write
<1>2. ASSUME NEW q \in PageId
      PROVE  pages'[q] = NoFrame \/ (pages[q] # NoFrame /\ Keeps(pages[q].data, pages'[q].data))
  <2>1. CASE q = p
    <3>1. pages'[q].data = d
      BY <1>1, <2>1 DEF Inv, PoolInv
    <3> QED BY <2>1, <3>1 DEF Page
  <2>2. CASE q # p
    BY <1>1, <2>2, KeepsItself DEF Inv, PoolInv
  <2> QED BY <2>1, <2>2
<1>3. file_pages \in Nat
  BY DEF Inv, PoolInv
<1> QED BY <1>1, <1>2, <1>3 DEF Moves, FileHoldsAll

LEMMA FlushMoves ==
  ASSUME Inv, FileHoldsAll, NEW p \in PageId, BPM!FlushPage(p) \/ BPM!FlushOne(p)
  PROVE  /\ Moves /\ FileHoldsAll'
         /\ pages[p] # NoFrame /\ disk'[p] = pages[p] /\ pages'[p].data = pages[p].data
         /\ p < file_pages'
<1>1. /\ pages[p] # NoFrame
      /\ disk' = BPM!DiskAfter(p, pages[p])
      /\ file_pages' = BPM!FilePagesAfter(p)
      /\ pages' = [pages EXCEPT ![p].dirty = FALSE]
      /\ mode \in {"open", "closing"}
      /\ UNCHANGED <<next_page_id, lru_list, mode>>
  BY DEF BPM!FlushPage, BPM!FlushOne, BPM!WritePage, BPM!Dirty, BPM!Cached
<1>2. PoolInv /\ pages[p] \in Good /\ pages \in [PageId -> Good \cup {NoFrame}] /\ p \in Int
  BY <1>1, PageIdFacts DEF Inv, PoolInv
<1>3. /\ \A q \in PageId : disk'[q] = IF q = p THEN pages[p] ELSE disk[q]
      /\ disk' \in [PageId -> Good]
  BY <1>1, <1>2 DEF BPM!DiskAfter, PageId, PoolInv
<1>4. FileHoldsAll' /\ file_pages' >= file_pages
  BY <1>1, <1>2, <1>3, FileGrows, ResidentIsAllocated
<1>5. [pages[p] EXCEPT !.dirty = FALSE].data = pages[p].data
  BY <1>2, ImageFacts
<1>6. /\ pages'[p] = [pages[p] EXCEPT !.dirty = FALSE]
      /\ \A q \in PageId : q # p => pages'[q] = pages[q]
  BY <1>1, <1>2
<1>7. pages'[p].data = pages[p].data
  BY <1>5, <1>6
<1>8. ASSUME NEW q \in PageId
      PROVE  pages'[q] = NoFrame \/ (pages[q] # NoFrame /\ Keeps(pages[q].data, pages'[q].data))
  BY <1>1, <1>6, <1>7, KeepsItself
<1>9. Moves
  BY <1>1, <1>3, <1>4, <1>8 DEF Moves
<1>10. p < file_pages'
  <2>1. file_pages \in Nat /\ p + 1 \in Int
    BY <1>2 DEF PoolInv
  <2>2. file_pages' >= p + 1 /\ file_pages' \in {file_pages, p + 1}
    BY <1>1, <2>1, LargerFacts DEF BPM!FilePagesAfter
  <2> QED BY <1>2, <2>1, <2>2
<1> QED BY <1>1, <1>3, <1>4, <1>7, <1>9, <1>10

LEMMA NewPageMoves ==
  ASSUME Inv, FileHoldsAll, NEW p \in PageId, BPM!NewPage(p)
  PROVE  Moves /\ FileHoldsAll'
<1> DEFINE img == [data |-> EmptyPage, dirty |-> FALSE]
<1>1. /\ p = next_page_id /\ mode = "open" /\ mode' = mode
      /\ next_page_id' = next_page_id + 1
      /\ disk' = BPM!DiskAfter(p, img)
      /\ file_pages' = BPM!FilePagesAfter(p)
      /\ pages' = [pages EXCEPT ![p] = img]
  BY DEF BPM!NewPage
<1> HIDE DEF img
<1>2. /\ file_pages \in Nat /\ p \in Nat /\ p + 1 \in Int /\ file_pages <= p
      /\ pages \in [PageId -> Good \cup {NoFrame}] /\ next_page_id \in Nat
  BY <1>1, PageIdFacts, HeapAssumption DEF Inv, PoolInv, FileHoldsAll
<1>3. /\ file_pages' \in {file_pages, p + 1}
      /\ file_pages' >= file_pages /\ file_pages' >= p + 1
  BY <1>1, <1>2, LargerFacts DEF BPM!FilePagesAfter
<1>4. \A q \in PageId : q # p => disk'[q] = disk[q] /\ pages'[q] = pages[q]
  BY <1>1, <1>2 DEF BPM!DiskAfter, PageId
<1>5. FileHoldsAll'
  <2>1. file_pages' <= next_page_id'
    BY <1>1, <1>2, <1>3
  <2>2. ASSUME NEW q \in PageId, q >= file_pages' PROVE disk'[q].data = ZeroedPage
    <3>1. q # p /\ q >= file_pages
      BY <1>2, <1>3, <2>2, PageIdFacts
    <3> QED BY <1>4, <3>1 DEF FileHoldsAll
  <2> QED BY <2>1, <2>2 DEF FileHoldsAll
<1>6. ASSUME NEW q \in PageId, q < file_pages
      PROVE  /\ disk'[q] = disk[q]
             /\ pages'[q] = NoFrame \/ (pages[q] # NoFrame /\ Keeps(pages[q].data, pages'[q].data))
  <2>1. q # p
    BY <1>2, <1>6, PageIdFacts
  <2> QED BY <1>4, <2>1, KeepsItself
<1> QED BY <1>3, <1>5, <1>6 DEF Moves

\* Where nothing is written and no page changes, for a close that ends too.
LEMMA StillMoves ==
  ASSUME Inv, FileHoldsAll, UNCHANGED <<disk, file_pages>>,
         \A q \in PageId : pages'[q] \in {pages[q], NoFrame},
         next_page_id' \in Nat, mode' \in {"open", "closing"} => next_page_id' >= file_pages
  PROVE  Moves /\ FileHoldsAll'
<1>1. file_pages \in Nat
  BY DEF Inv, PoolInv
<1>2. ASSUME NEW q \in PageId
      PROVE  pages'[q] = NoFrame \/ (pages[q] # NoFrame /\ Keeps(pages[q].data, pages'[q].data))
  BY KeepsItself
<1> QED BY <1>1, <1>2 DEF Moves, FileHoldsAll

LEMMA SamePoolMoves ==
  ASSUME Inv, FileHoldsAll, UNCHANGED poolVars
  PROVE  Moves /\ FileHoldsAll'
<1>1. UNCHANGED <<disk, file_pages, next_page_id, pages, mode>>
  BY DEF poolVars
<1> QED BY <1>1, StillMoves DEF Inv, PoolInv, FileHoldsAll

\* Writes that fail.
LEMMA FailMoves ==
  ASSUME Inv, FileHoldsAll,
         \/ BPM!FlushFails \/ BPM!NewPageFails \/ BPM!EvictionFails
         \/ BPM!BeginClose \/ BPM!FlushAllFails \/ BPM!EndClose
  PROVE  Moves /\ FileHoldsAll'
<1>1. /\ UNCHANGED <<disk, file_pages>>
      /\ next_page_id' \in {next_page_id, next_page_id + 1}
      /\ mode \in {"open", "closing"}
  BY DEF BPM!FlushFails, BPM!NewPageFails, BPM!EvictionFails, BPM!BeginClose,
         BPM!FlushAllFails, BPM!EndClose, BPM!WriteError
<1>2. \A q \in PageId : pages'[q] \in {pages[q], NoFrame}
  <2>1. CASE BPM!EvictionFails
    BY <2>1 DEF BPM!EvictionFails, Inv, PoolInv
  <2>2. CASE BPM!EndClose
    BY <2>2 DEF BPM!EndClose, BPM!EmptyPool, PageId
  <2>3. CASE \/ BPM!FlushFails \/ BPM!NewPageFails \/ BPM!BeginClose \/ BPM!FlushAllFails
    BY <2>3 DEF BPM!FlushFails, BPM!NewPageFails, BPM!BeginClose, BPM!FlushAllFails
  <2> QED BY <2>1, <2>2, <2>3
<1>3. next_page_id' \in Nat /\ next_page_id' >= file_pages
  BY <1>1 DEF Inv, PoolInv, FileHoldsAll
<1> QED BY <1>1, <1>2, <1>3, StillMoves

-----------------------------------------------------------------------------
(* The steps of the heap's calls.                                          *)

LEMMA FreshCall ==
  ASSUME op'.step \notin {"flush", "ack"}, op'.step \notin ModifySteps,
         op'.step \in {"walk", "fetchPrev", "link", "put"} => op'.replaces = {}
  PROVE  RowIsPut' /\ OnlyInserts'
  BY DEF RowIsPut, OnlyInserts

LEMMA IdleCall ==
  ASSUME op' = Idle
  PROVE  RowIsPut' /\ OnlyInserts'
<1>1. op'.step = "idle"
  BY DEF Idle
<1> QED BY <1>1, FreshCall DEF ModifySteps

\* Steps that move pages and keep the rows.
LEMMA ForceStep ==
  ASSUME ForceInv, Inv', Moves, FileHoldsAll', rows' = rows, faulted' = faulted \/ faulted',
         RowIsPut', OnlyInserts'
  PROVE  ForceInv'
<1>1. Forced'
  <2>1. CASE faulted' = faulted
    BY <2>1, ForcedStays DEF ForceInv
  <2>2. CASE faulted'
    BY <2>2 DEF Forced
  <2> QED BY <2>1, <2>2
<1> QED BY <1>1 DEF ForceInv

\* A call of InsertTuple goes on to another step.
LEMMA InsertGoesOn ==
  ASSUME op \in InsertOp, op.replaces = {},
         NEW step \in {"walk", "fetchPrev", "link", "put", "segv"},
         NEW p,
         op' = [op EXCEPT !.step = step] \/ op' = [op EXCEPT !.step = step, !.page = p]
  PROVE  RowIsPut' /\ OnlyInserts'
<1>1. op'.step = step /\ op'.replaces = {}
  BY DEF InsertOp
<1>2. step \notin ModifySteps /\ step \notin {"flush", "ack"}
  BY DEF ModifySteps
<1> QED BY <1>1, <1>2, FreshCall

LEMMA WalkForced ==
  ASSUME ForceInv, Inv', WalkPage
  PROVE  ForceInv'
<1>1. op \in InsertOp /\ op.step = "walk" /\ op.page # NoPage /\ op.replaces = {}
  BY OpFacts DEF WalkPage, ForceInv, Inv, OnlyInserts
<1>2. op.page \in PageId
  BY <1>1, PageIdFacts DEF InsertOp
<1>3. Moves /\ FileHoldsAll' /\ rows' = rows /\ faulted' = faulted
  BY <1>2, FetchMoves DEF WalkPage, ForceInv
<1>4. RowIsPut' /\ OnlyInserts'
  <2> DEFINE k == PageRead(op.page).next_page_id
  <2>1. \/ op' = Idle
        \/ op' = [op EXCEPT !.step = "put"]
        \/ op' = [op EXCEPT !.prev = op.page, !.page = k]
    BY DEF WalkPage, Goto, Return
  <2> HIDE DEF k
  <2>2. CASE op' = Idle
    BY <2>2, IdleCall
  <2>3. CASE op' = [op EXCEPT !.step = "put"]
    BY <1>1, <2>3, InsertGoesOn
  <2>4. CASE op' = [op EXCEPT !.prev = op.page, !.page = k]
    <3>1. op'.step = "walk" /\ op'.replaces = {}
      BY <1>1, <2>4 DEF InsertOp
    <3> QED BY <3>1, FreshCall DEF ModifySteps
  <2> QED BY <2>1, <2>2, <2>3, <2>4
<1> QED BY <1>3, <1>4, ForceStep

LEMMA ExtendForced ==
  ASSUME ForceInv, Inv', ExtendChain
  PROVE  ForceInv'
<1>1. op \in InsertOp /\ op.step = "walk" /\ op.replaces = {}
  BY OpFacts DEF ExtendChain, ForceInv, Inv, OnlyInserts
<1>2. PICK p \in PageId :
        BPM!NewPage(p) /\ op' = [op EXCEPT !.step = "fetchPrev", !.page = p]
  BY DEF ExtendChain
<1>3. Moves /\ FileHoldsAll' /\ rows' = rows /\ faulted' = faulted
  BY <1>2, NewPageMoves DEF ExtendChain, ForceInv
<1>4. RowIsPut' /\ OnlyInserts'
  BY <1>1, <1>2, InsertGoesOn
<1> QED BY <1>3, <1>4, ForceStep

LEMMA FetchPrevForced ==
  ASSUME ForceInv, Inv', FetchPrev
  PROVE  ForceInv'
<1>1. op \in InsertOp /\ op.step = "fetchPrev" /\ op.replaces = {}
  BY OpFacts DEF FetchPrev, ForceInv, Inv, OnlyInserts
<1>2. op.prev \in PageId
  BY <1>1 DEF ForceInv, Inv, Locals, NewPageHeld, Holds
<1>3. Moves /\ FileHoldsAll' /\ rows' = rows /\ faulted' = faulted
  BY <1>2, FetchMoves DEF FetchPrev, ForceInv
<1>4. RowIsPut' /\ OnlyInserts'
  BY <1>1, InsertGoesOn DEF FetchPrev, Goto
<1> QED BY <1>3, <1>4, ForceStep

LEMMA LinkForced ==
  ASSUME ForceInv, Inv', LinkPrev
  PROVE  ForceInv'
<1> DEFINE d == [Page(op.prev) EXCEPT !.next_page_id = op.page]
<1>1. op \in InsertOp /\ op.step = "link" /\ op.replaces = {}
  BY OpFacts DEF LinkPrev, ForceInv, Inv, OnlyInserts
<1>2. /\ Holds(op.prev) /\ Page(op.prev) \in TablePage /\ Holds(op.page)
      /\ WellFormed(Page(op.prev))
  BY <1>1, ImageFacts DEF ForceInv, Inv, PoolInv, Locals, NewPageHeld, Holds, Page
<1>3. d \in TablePage /\ WellFormed(d)
  BY <1>2, LinkedPage, PageIdFacts DEF Holds
<1>4. d.slots = Page(op.prev).slots
  BY <1>2 DEF TablePage, PageOf
<1> HIDE DEF d
<1>5. Keeps(Page(op.prev), d)
  BY <1>4 DEF Keeps
<1>6. /\ BPM!Write(op.prev, d) /\ op' = [op EXCEPT !.step = "put"]
      /\ rows' = rows /\ faulted' = faulted
  BY DEF LinkPrev, Goto, d
<1>7. Moves /\ FileHoldsAll'
  BY <1>2, <1>3, <1>5, <1>6, WriteMoves DEF ForceInv, Holds
<1>8. RowIsPut' /\ OnlyInserts'
  BY <1>1, <1>6, InsertGoesOn
<1> QED BY <1>6, <1>7, <1>8, ForceStep

\* What InsertTuple puts in a page is its last row.
LEMMA PutIsLast ==
  ASSUME NEW pg \in TablePage, WellFormed(pg), NEW t \in Tuples, Takes(pg, t), NEW p
  PROVE  /\ Keeps(pg, PutTuple(pg, t))
         /\ Has(PutTuple(pg, t), Row(p, Len(PutTuple(pg, t).slots), t))
<1> DEFINE n == Len(pg.slots) + 1
           slot == [tuple_offset |-> (pg.tuple_start_ptr - t.size) % Word,
                    tuple_length |-> t.size, is_live |-> TRUE, tuple |-> t]
           e == PutTuple(pg, t)
<1>1. e.slots = Append(pg.slots, slot)
  BY DEF TablePage, PageOf, PutTuple
<1>2. pg.slots \in Seq(SlotOf(Tuples))
  BY DEF TablePage, PageOf
<1>3. slot.is_live /\ slot.tuple = t
  OBVIOUS
<1> HIDE DEF slot, e
<1>4. /\ Len(e.slots) = n /\ DOMAIN e.slots = 1 .. n /\ n \in Nat \ {0} /\ e.slots[n] = slot
      /\ \A i \in DOMAIN pg.slots : i \in 1 .. n /\ e.slots[i] = pg.slots[i]
  BY <1>1, <1>2
<1>5. Keeps(pg, e)
  BY <1>4 DEF Keeps
<1>6. Row(p, n, t).slot = n /\ Row(p, n, t).tuple = t
  BY DEF Row
<1>7. Has(e, Row(p, n, t))
  BY <1>3, <1>4, <1>6 DEF Has, IsLive
<1> QED BY <1>4, <1>5, <1>7 DEF e

LEMMA PutForced ==
  ASSUME TuplesFit, ForceInv, Inv', Put
  PROVE  ForceInv'
<1> DEFINE pg == IF IsNewPage THEN [Page(op.page) EXCEPT !.prev_page_id = op.prev]
                 ELSE Page(op.page)
           d == PutTuple(pg, op.tuple)
<1>1. /\ op \in InsertOp /\ op.step = "put" /\ op.tuple \in Tuples /\ op.prev \in Link
      /\ op.replaces = {}
  BY OpFacts DEF Put, ForceInv, Inv, InsertOp, OnlyInserts
<1>2. Holds(op.page) /\ Page(op.page) \in TablePage /\ Takes(Page(op.page), op.tuple)
  BY <1>1 DEF ForceInv, Inv, Locals, RoomIsThere
<1>3. WellFormed(Page(op.page))
  BY <1>2, ImageFacts DEF ForceInv, Inv, PoolInv, Holds, Page
<1>4. /\ pg \in TablePage /\ WellFormed(pg) /\ Takes(pg, op.tuple)
      /\ pg.slots = Page(op.page).slots
  <2>1. CASE IsNewPage
    BY <1>1, <1>2, <1>3, <2>1, LinkedPage DEF TablePage, PageOf
  <2>2. CASE ~IsNewPage
    BY <1>2, <1>3, <2>2
  <2> QED BY <2>1, <2>2
<1>5. /\ BPM!Write(op.page, d) /\ op' = [op EXCEPT !.step = "flush"]
      /\ rows' = rows /\ faulted' = faulted /\ op.page \in PageId
  BY <1>2 DEF Put, Goto, Holds
<1> HIDE DEF pg
<1>6. d \in TablePage /\ WellFormed(d)
  BY <1>1, <1>4, PutKeepsLayout DEF TablePage
<1>7. Keeps(pg, d) /\ Has(d, Row(op.page, Len(d.slots), op.tuple))
  BY <1>1, <1>4, PutIsLast
<1> HIDE DEF d
<1>8. Keeps(Page(op.page), d)
  BY <1>4, <1>7 DEF Keeps
<1>9. Moves /\ FileHoldsAll'
  BY <1>2, <1>5, <1>6, <1>8, WriteMoves DEF ForceInv, Holds
<1>10. pages'[op.page].data = d
  <2>1. pages' = [pages EXCEPT ![op.page] = [data |-> d, dirty |-> TRUE]]
    BY <1>5 DEF BPM!Write
  <2> QED BY <1>5, <2>1 DEF ForceInv, Inv, PoolInv
<1>11. /\ op'.step = "flush" /\ op'.page = op.page /\ op'.tuple = op.tuple
       /\ op'.replaces = {}
  BY <1>1, <1>5 DEF InsertOp
<1>12. RowIsPut' /\ OnlyInserts'
  BY <1>7, <1>10, <1>11 DEF RowIsPut, OnlyInserts, ModifySteps, NewRow, Page
<1> QED BY <1>5, <1>9, <1>12, ForceStep

\* The row is in the file before the call returns, unless the write failed.
LEMMA FlushForced ==
  ASSUME ForceInv, Inv', FlushRow
  PROVE  ForceInv'
<1>0. PICK r : r = NewRow
  OBVIOUS
<1>1. op \in InsertOp /\ op.step = "flush" /\ op.replaces = {}
  BY OpFacts DEF FlushRow, ForceInv, Inv, OnlyInserts
<1>2. /\ op' = [op EXCEPT !.step = "ack"] /\ rows' = rows
      /\ Has(Page(op.page), r) /\ op.page \in PageId /\ r.page = op.page
  BY <1>0, <1>1, NewRowType DEF FlushRow, Goto, ForceInv, RowIsPut, Inv, Locals,
     RoomIsThere, Holds
<1>3. /\ op'.step = "ack" /\ op'.page = op.page /\ op'.tuple = op.tuple
      /\ op'.replaces = {}
  BY <1>1, <1>2 DEF InsertOp
<1>4. OnlyInserts'
  BY <1>3 DEF OnlyInserts, ModifySteps
<1>5. Page(op.page)' = Page(op.page)
  <2>1. pages'[op.page].data = pages[op.page].data
    BY <1>1, FlushKeepsPage DEF FlushRow, ForceInv, Inv, Locals, RoomIsThere, Holds
  <2> QED BY <1>3, <2>1 DEF Page
<1>6. NewRow' = r
  BY <1>0, <1>3, <1>5 DEF NewRow, Page
<1>7. Has(Page(op.page)', r)
  BY <1>2, <1>5
<1>8. CASE BPM!FlushPage(op.page) /\ faulted' = faulted
  <2>1. /\ Moves /\ FileHoldsAll'
        /\ pages[op.page] # NoFrame /\ disk'[op.page] = pages[op.page]
        /\ pages'[op.page].data = pages[op.page].data
        /\ op.page < file_pages'
    BY <1>2, <1>8, FlushMoves DEF ForceInv
  <2>2. Has(disk'[op.page].data, r)
    BY <1>2, <2>1 DEF Page
  <2>3. RowIsPut'
    BY <1>3, <1>6, <1>7, <2>2 DEF RowIsPut, Page
  <2> QED BY <1>2, <1>4, <1>8, <2>1, <2>3, ForceStep
<1>9. CASE BPM!FlushFails /\ faulted' = TRUE
  <2>1. Moves /\ FileHoldsAll'
    BY <1>9, FailMoves DEF ForceInv
  <2>2. RowIsPut'
    BY <1>3, <1>6, <1>7, <1>9 DEF RowIsPut, Page
  <2> QED BY <1>2, <1>4, <1>9, <2>1, <2>2, ForceStep
<1> QED BY <1>8, <1>9 DEF FlushRow

LEMMA AckForced ==
  ASSUME ForceInv, Inv', Acknowledge
  PROVE  ForceInv'
<1>0. PICK r : r = NewRow
  OBVIOUS
<1>1. op \in InsertOp /\ op.step = "ack" /\ op.replaces = {} /\ op.heap \in Heap
  BY OpFacts DEF Acknowledge, ForceInv, Inv, OnlyInserts, InsertOp
<1>2. /\ op' = Idle /\ rows' = [rows EXCEPT ![op.heap] = @ \cup {r}]
      /\ rows \in [Heap -> SUBSET RowType] /\ faulted' = faulted /\ UNCHANGED poolVars
  BY <1>0, <1>1 DEF Acknowledge, Return, ForceInv, Inv, CallInv
<1>3. Moves /\ FileHoldsAll' /\ UNCHANGED <<disk, pages, file_pages>>
  BY <1>2, SamePoolMoves DEF ForceInv, poolVars
<1>4. ~faulted => Safe(r)
  <2> SUFFICES ASSUME ~faulted PROVE Safe(r)
    OBVIOUS
  <2>1. r.page = op.page /\ op.page \in PageId
    BY <1>0, <1>1, NewRowType DEF ForceInv, Inv, Locals, RoomIsThere, Holds
  <2>2. Has(pages[op.page].data, r) /\ Has(disk[op.page].data, r)
    BY <1>0, <1>1 DEF ForceInv, RowIsPut, Page
  <2>3. disk[op.page].data # ZeroedPage
    BY <2>2 DEF Has, IsLive, ZeroedPage
  <2>4. op.page < file_pages
    BY <2>1, <2>3, PageIdFacts DEF ForceInv, FileHoldsAll, Inv, PoolInv
  <2> QED BY <2>1, <2>2, <2>4 DEF Safe
<1>5. ASSUME ~faulted, NEW h \in Heap, NEW x \in rows'[h] PROVE Safe(x)
  BY <1>1, <1>2, <1>4, <1>5 DEF ForceInv, Forced
<1>6. Forced'
  BY <1>2, <1>3, <1>5 DEF Forced, Safe
<1> QED BY <1>2, <1>3, <1>6, IdleCall DEF ForceInv

LEMMA ScanForced ==
  ASSUME ForceInv, Inv', ScanPage
  PROVE  ForceInv'
<1>1. op.page \in PageId
  BY OpFacts DEF ScanPage, ForceInv, Inv, ScanSteps, IsScan
<1>2. Moves /\ FileHoldsAll' /\ rows' = rows /\ faulted' = faulted
  BY <1>1, FetchMoves DEF ScanPage, ForceInv
<1>3. op'.step \in ScanSteps
  BY ScanStays DEF ForceInv, IsScan
<1>4. RowIsPut' /\ OnlyInserts'
  BY <1>3, FreshCall DEF ScanSteps, ModifySteps
<1> QED BY <1>2, <1>4, ForceStep

LEMMA ThrowsForced ==
  ASSUME ForceInv, Inv', Throws
  PROVE  ForceInv'
<1>1. Moves /\ FileHoldsAll' /\ rows' = rows /\ faulted'
  BY FailMoves DEF Throws, ForceInv
<1>2. op' = Idle
  BY DEF Throws, Return
<1> QED BY <1>1, <1>2, IdleCall, ForceStep

-----------------------------------------------------------------------------
(* Calls begin; the pool is closed, lost and opened.                       *)

LEMMA CreateForced ==
  ASSUME ForceInv, Inv', NEW h \in Heap, CreateHeap(h)
  PROVE  ForceInv'
<1>1. Moves /\ FileHoldsAll' /\ rows' = rows /\ faulted' = faulted /\ op' = Idle
  BY NewPageMoves DEF CreateHeap, ForceInv
<1> QED BY <1>1, IdleCall, ForceStep

LEMMA BeginForced ==
  ASSUME ~MayModify, ForceInv, Inv', NEW h \in Heap,
         \/ Scan(h)
         \/ \E t \in Tuples : Insert(h, t)
         \/ \E r \in rows[h] : Delete(h, r)
         \/ \E r \in rows[h], t \in Tuples : Update(h, r, t)
  PROVE  ForceInv'
<1>1. UNCHANGED poolVars /\ rows' = rows /\ faulted' = faulted
      /\ (op'.step = "begin" \/ (op'.step = "walk" /\ op'.replaces = {}))
  BY DEF Scan, Insert, Delete, Update, InsertCall
<1>2. RowIsPut' /\ OnlyInserts'
  BY <1>1, FreshCall DEF ModifySteps
<1> QED BY <1>1, <1>2, SamePoolMoves, ForceStep DEF ForceInv

LEMMA CloseForced ==
  ASSUME ForceInv, Inv', Close
  PROVE  ForceInv'
<1>1. Moves /\ FileHoldsAll'
  BY FailMoves, FlushMoves DEF Close, ForceInv
<1>2. op' = Idle /\ rows' = rows /\ (faulted' = faulted \/ faulted')
  BY DEF Close
<1> QED BY <1>1, <1>2, IdleCall, ForceStep

\* The rows the file holds are on pages of the file.
LEMMA DiskRowsInFile ==
  ASSUME Inv, FileHoldsAll, NEW h \in Heap, NEW r \in DiskRows(h)
  PROVE  r.page \in PageId /\ Has(disk[r.page].data, r) /\ r.page < file_pages
<1>0. PICK p \in PageId : \E i \in DOMAIN disk[p].data.slots :
        /\ disk[p].data.slots[i].is_live
        /\ r = Row(p, i, disk[p].data.slots[i].tuple)
  <2>1. \A p \in PageId : BPM!StableView[p] = disk[p].data
    BY DEF BPM!StableView, PageId
  <2>2. Chain(h, BPM!StableView) \subseteq PageId
    BY DEF Chain, From
  <2> QED BY <2>1, <2>2 DEF DiskRows, RowsOf, LiveSlots
<1>1. PICK i \in DOMAIN disk[p].data.slots :
        /\ disk[p].data.slots[i].is_live
        /\ r = Row(p, i, disk[p].data.slots[i].tuple)
  BY <1>0
<1>2. r.page = p /\ r.slot = i /\ r.tuple = disk[p].data.slots[i].tuple
  BY <1>1 DEF Row
<1>3. Has(disk[p].data, r)
  BY <1>1, <1>2 DEF Has, IsLive
<1>4. disk[p].data # ZeroedPage
  BY <1>1 DEF ZeroedPage
<1>5. p < file_pages
  BY <1>4, PageIdFacts DEF FileHoldsAll, Inv, PoolInv
<1> QED BY <1>2, <1>3, <1>5

\* A crash leaves the rows the file holds.
LEMMA CrashForced ==
  ASSUME ForceInv, Inv', Crash
  PROVE  ForceInv'
<1>1. /\ UNCHANGED <<disk, file_pages, next_page_id>> /\ mode' = "crashed"
      /\ pages' = [p \in PageId |-> NoFrame]
      /\ op' = Idle /\ rows' = [h \in Heap |-> DiskRows(h)]
  BY DEF Crash, BPM!Crash, BPM!EmptyPool, PageId
<1>2. FileHoldsAll'
  BY <1>1 DEF ForceInv, FileHoldsAll
<1>3. \A h \in Heap : \A r \in DiskRows(h) :
        r.page \in PageId /\ Has(disk[r.page].data, r) /\ r.page < file_pages
  BY DiskRowsInFile DEF ForceInv
<1>4. Forced'
  BY <1>1, <1>3 DEF Forced, Safe
<1> QED BY <1>1, <1>2, <1>4, IdleCall DEF ForceInv

LEMMA ReopenForced ==
  ASSUME ForceInv, Inv', Reopen
  PROVE  ForceInv'
<1>1. /\ UNCHANGED <<disk, file_pages, pages, op, rows, faulted>> /\ mode' = "open"
      /\ next_page_id' = BPM!Larger(file_pages, FIRST_USABLE_PAGE_ID)
  BY DEF Reopen, heapVars, BPM!Open, BPM!OpenFile
<1>2. next_page_id' \in Nat /\ next_page_id' >= file_pages
  BY <1>1, HeapAssumption, LargerFacts DEF ForceInv, Inv, PoolInv
<1>3. Moves /\ FileHoldsAll'
  BY <1>1, <1>2, StillMoves DEF ForceInv
<1>4. RowIsPut' /\ OnlyInserts'
  BY <1>1 DEF ForceInv, RowIsPut, OnlyInserts, NewRow, Page
<1> QED BY <1>1, <1>3, <1>4, ForceStep

-----------------------------------------------------------------------------
(* The inductive invariant and what follows from it.                       *)

LEMMA InitForced == Init => ForceInv
<1> SUFFICES ASSUME Init PROVE ForceInv
  OBVIOUS
<1>1. /\ disk = [p \in PageId |-> [data |-> ZeroedPage, dirty |-> FALSE]]
      /\ file_pages = 0 /\ next_page_id = FIRST_USABLE_PAGE_ID
      /\ op = Idle /\ rows = [h \in Heap |-> {}]
  BY DEF Init, BPM!Init, BPM!DiskInit, PageId
<1>2. FileHoldsAll
  BY <1>1, HeapAssumption DEF FileHoldsAll
<1>3. Forced
  BY <1>1 DEF Forced
<1>4. RowIsPut /\ OnlyInserts
  BY <1>1 DEF RowIsPut, OnlyInserts, ModifySteps, Idle
<1> QED BY <1>2, <1>3, <1>4, InitInv DEF ForceInv

LEMMA NextForced == TuplesFit /\ ~MayModify /\ ForceInv /\ [Next]_vars => ForceInv'
<1> SUFFICES ASSUME TuplesFit, ~MayModify, ForceInv, [Next]_vars PROVE ForceInv'
  OBVIOUS
<1>0. Inv'
  BY NextInv DEF ForceInv
<1>1. ASSUME NEW h \in Heap, CreateHeap(h) PROVE ForceInv'
  BY <1>0, <1>1, CreateForced
<1>2. ASSUME NEW h \in Heap,
             \/ Scan(h)
             \/ \E t \in Tuples : Insert(h, t)
             \/ \E r \in rows[h] : Delete(h, r)
             \/ \E r \in rows[h], t \in Tuples : Update(h, r, t)
      PROVE  ForceInv'
  BY <1>0, <1>2, BeginForced
<1>3. CASE WalkPage \/ ExtendChain \/ FetchPrev \/ LinkPrev \/ Put \/ FlushRow
          \/ Acknowledge
  BY <1>0, <1>3, WalkForced, ExtendForced, FetchPrevForced, LinkForced, PutForced,
     FlushForced, AckForced
<1>4. ~(FetchVictim \/ Kill \/ FetchOld \/ OverwriteRow)
  BY DEF FetchVictim, Kill, FetchOld, OverwriteRow, ForceInv, OnlyInserts, ModifySteps
<1>5. CASE ScanPage \/ Throws
  BY <1>0, <1>5, ScanForced, ThrowsForced
<1>6. CASE EndScan
  <2>1. op' = Idle /\ UNCHANGED poolVars /\ rows' = rows /\ faulted' = faulted
    BY <1>6 DEF EndScan, Return
  <2> QED BY <1>0, <2>1, IdleCall, SamePoolMoves, ForceStep DEF ForceInv
<1>7. CASE Close \/ Crash \/ Reopen
  BY <1>0, <1>7, CloseForced, CrashForced, ReopenForced
<1>8. CASE UNCHANGED vars
  <2>1. UNCHANGED poolVars /\ UNCHANGED <<disk, file_pages, pages, op, rows, faulted>>
    BY <1>8 DEF vars, poolVars, heapVars
  <2>2. RowIsPut' /\ OnlyInserts'
    BY <2>1 DEF ForceInv, RowIsPut, OnlyInserts, NewRow, Page
  <2> QED BY <1>0, <2>1, <2>2, SamePoolMoves, ForceStep DEF ForceInv
<1> QED BY <1>1, <1>2, <1>3, <1>4, <1>5, <1>6, <1>7, <1>8 DEF Next

\* If every tuple fits an empty page and rows are only inserted, every row that
\* InsertTuple acknowledged is in the file, whatever is evicted, crashes or is
\* reopened, as long as no write failed since the file was last recovered.
THEOREM AckedRowsAreInTheFile ==
  TuplesFit /\ ~MayModify => (Spec => []AckedRowsAreForced)
<1> SUFFICES ASSUME TuplesFit, ~MayModify PROVE Spec => []AckedRowsAreForced
  OBVIOUS
<1>1. ForceInv /\ [Next]_vars => ForceInv'
  BY NextForced
<1>2. ForceInv => AckedRowsAreForced
  BY DEF ForceInv, Forced, Safe, Has, AckedRowsAreForced
<1> QED BY <1>1, <1>2, InitForced, PTL DEF Spec

-----------------------------------------------------------------------------
(* What a call fetches is in the file.                                     *)

\* A page of zeroes links to page 0, whoever reads it.
LinkBelow(d, n) ==
  d = ZeroedPage \/ d.next_page_id = NoPage \/ d.next_page_id < n

\* Resident pages, and the pages they and the file's pages link to, are in the
\* file; the stream is good until a write fails.
PoolReach ==
  /\ FileHoldsAll
  /\ \A p \in PageId : LinkBelow(disk[p].data, file_pages)
  /\ \A p \in PageId : pages[p] # NoFrame =>
       p < file_pages /\ LinkBelow(pages[p].data, file_pages)
  /\ mode \in {"open", "closing"} /\ ~faulted => ~failbit

HeapReach ==
  /\ \A h \in Heap : first_page[h] = NoPage \/ first_page[h] < file_pages
  /\ \A h \in Heap : \A r \in rows[h] : r.page < file_pages

InsertSteps == {"walk", "fetchPrev", "link", "put", "flush", "ack"}

\* So are the pages the locals of a call name.
CallReach ==
  /\ op.step = "walk" => op.page = NoPage \/ op.page < file_pages
  /\ op.step \in ScanSteps => op.page < file_pages
  /\ op.step \in ModifySteps => op.row.page < file_pages
  /\ op.step \in InsertSteps => \A r \in op.replaces : r.page < file_pages
  /\ op.step \in InsertSteps \cup ModifySteps => result = "none"

Reach == Inv /\ PoolReach /\ HeapReach /\ CallReach

-----------------------------------------------------------------------------
(* The pool.                                                               *)

LEMMA LinksAreNumbers ==
  ASSUME NEW f \in Good
  PROVE  f.data.next_page_id \in Int
  BY DataFacts, PageIdFacts DEF NoPage, Link

LEMMA LinkStaysBelow ==
  ASSUME NEW f \in Good, NEW m \in Nat, NEW n \in Nat, m <= n, LinkBelow(f.data, m)
  PROVE  LinkBelow(f.data, n)
  BY LinksAreNumbers DEF LinkBelow

LEMMA LargerIsEnough ==
  ASSUME NEW w \in Int, PoolInv, file_pages' = BPM!FilePagesAfter(w)
  PROVE  file_pages' \in Nat /\ file_pages' >= file_pages /\ file_pages' >= w + 1
<1>1. file_pages \in Nat /\ w + 1 \in Int
  BY DEF PoolInv
<1>2. file_pages' \in {file_pages, w + 1} /\ file_pages' >= file_pages /\ file_pages' >= w + 1
  BY <1>1, LargerFacts DEF BPM!FilePagesAfter
<1> QED BY <1>1, <1>2

\* A page of the file is fetched, and what is read links into the file.
LEMMA FetchReach ==
  ASSUME Inv, PoolReach, NEW p \in PageId, p < file_pages, Fetch(p), faulted' = faulted
  PROVE  /\ PoolReach' /\ file_pages' >= file_pages
         /\ ~faulted => Fetched(p)
         /\ Fetched(p) => /\ PageRead(p).next_page_id = NoPage
                             \/ PageRead(p).next_page_id < file_pages'
<1>0. /\ PoolInv /\ PoolInv' /\ Moves /\ FileHoldsAll'
      /\ file_pages \in Nat /\ next_page_id \in Nat /\ file_pages' \in Nat
      /\ file_pages' >= file_pages
  <2>1. FileHoldsAll /\ PoolInv
    BY DEF PoolReach, Inv
  <2>2. PoolInv' /\ Moves /\ FileHoldsAll'
    BY <2>1, FetchMoves, FetchStep
  <2> QED BY <2>1, <2>2 DEF PoolInv, Moves
<1>1. /\ \A q \in PageId : LinkBelow(disk'[q].data, file_pages')
      /\ \A q \in PageId : pages'[q] # NoFrame =>
           q < file_pages' /\ LinkBelow(pages'[q].data, file_pages')
      /\ mode' \in {"open", "closing"} /\ ~faulted' => ~failbit'
      /\ ~faulted => Fetched(p)
  <2>1. CASE BPM!FetchHit(p)
    <3>1. UNCHANGED <<disk, file_pages, pages, mode, failbit>> /\ pages[p] # NoFrame
      BY <2>1 DEF BPM!FetchHit, BPM!Cached
    <3> QED BY <3>1 DEF PoolReach, Fetched
  <2>2. CASE BPM!FetchMiss(p)
    <3> DEFINE w == BPM!WrittenBack
               reads == BPM!Readable(p, w)
    <3>1. /\ mode = "open" /\ UNCHANGED <<next_page_id, mode>>
          /\ disk' = BPM!DiskAfterEviction
          /\ file_pages' = BPM!FilePagesAfter(w)
          /\ failbit' = BPM!FailbitAfterRead(p, w)
          /\ pages' = [q \in PageId |->
                         IF q = p /\ reads THEN disk'[p]
                         ELSE IF q = BPM!Victim THEN NoFrame ELSE pages[q]]
      BY <2>2 DEF BPM!FetchMiss, PageId
    <3>2. w \in Int /\ disk' \in [PageId -> Good]
      BY <1>0, <3>1, VictimFacts
    <3>3. p < file_pages' /\ p < next_page_id
      BY <1>0, <3>1, PageIdFacts DEF PoolReach, FileHoldsAll
    <3>4. ~faulted => reads /\ ~failbit'
      <4>1. ~faulted => ~failbit
        BY <3>1 DEF PoolReach
      <4> QED BY <4>1, <3>1, <3>3 DEF BPM!Readable, BPM!FailbitAfter, BPM!FailbitAfterRead, BPM!InRange
    <3>5. \A q \in PageId : disk'[q] \in {disk[q], pages[q]}
                            /\ (disk'[q] # disk[q] => pages[q] # NoFrame /\ disk'[q] = pages[q])
      <4>1. w = BPM!INVALID_PAGE_ID \/ pages[w] # NoFrame
        BY DEF BPM!WrittenBack, BPM!Dirty, BPM!Cached
      <4> QED BY <3>1, <4>1 DEF BPM!DiskAfterEviction, BPM!DiskAfter, PageId
    <3>6. ASSUME NEW q \in PageId PROVE LinkBelow(disk'[q].data, file_pages')
      <4>1. LinkBelow(disk'[q].data, file_pages)
        BY <3>5 DEF PoolReach
      <4> QED BY <1>0, <3>2, <4>1, LinkStaysBelow
    <3> HIDE DEF w, reads
    <3>7. \A q \in PageId : pages'[q] = NoFrame \/ pages'[q] = pages[q]
                            \/ (q = p /\ pages'[q] = disk'[q])
      BY <3>1
    <3>8. ASSUME NEW q \in PageId, pages'[q] # NoFrame
          PROVE  q < file_pages' /\ LinkBelow(pages'[q].data, file_pages')
      <4>1. CASE q = p /\ pages'[q] = disk'[q]
        BY <3>3, <3>6, <4>1
      <4>2. CASE pages'[q] = pages[q]
        <5>1. q < file_pages /\ LinkBelow(pages[q].data, file_pages) /\ pages[q] \in Good
          BY <1>0, <3>8, <4>2 DEF PoolReach, PoolInv
        <5> QED BY <1>0, <4>2, <5>1, LinkStaysBelow, PageIdFacts
      <4> QED BY <3>7, <3>8, <4>1, <4>2
    <3>9. ~faulted => Fetched(p)
      <4>1. disk'[p] # NoFrame
        BY <3>2, ImageFacts
      <4>2. reads => pages'[p] = disk'[p]
        BY <3>1
      <4> QED BY <3>4, <4>1, <4>2 DEF Fetched
    <3> QED BY <3>4, <3>6, <3>8, <3>9
  <2> QED BY <2>1, <2>2 DEF Fetch
<1>2. ASSUME Fetched(p)
      PROVE  PageRead(p).next_page_id = NoPage \/ PageRead(p).next_page_id < file_pages'
  <2>1. LinkBelow(PageRead(p), file_pages')
    BY <1>1, <1>2 DEF Fetched, PageRead
  <2>2. ZeroedPage.next_page_id = 0 /\ 0 < file_pages'
    BY <1>0, PageIdFacts DEF ZeroedPage
  <2> QED BY <2>1, <2>2 DEF LinkBelow
<1> QED BY <1>0, <1>1, <1>2 DEF PoolReach

\* A page is written with a link into the file.
LEMMA WriteReach ==
  ASSUME Inv, PoolReach, NEW p \in PageId, NEW d \in TablePage, WellFormed(d),
         BPM!Write(p, d), pages[p] # NoFrame, LinkBelow(d, file_pages), faulted' = faulted
  PROVE  PoolReach' /\ file_pages' = file_pages
<1>1. /\ pages' = [pages EXCEPT ![p] = [data |-> d, dirty |-> TRUE]]
      /\ UNCHANGED <<disk, file_pages, next_page_id, mode, failbit>>
  BY DEF BPM!Write
<1>2. pages \in [PageId -> Good \cup {NoFrame}]
  BY DEF Inv, PoolInv
<1>3. /\ pages'[p].data = d
      /\ \A q \in PageId : q # p => pages'[q] = pages[q]
  BY <1>1, <1>2
<1>4. \A q \in PageId : pages'[q] # NoFrame =>
        q < file_pages /\ LinkBelow(pages'[q].data, file_pages)
  BY <1>3 DEF PoolReach
<1> QED BY <1>1, <1>4 DEF PoolReach, FileHoldsAll

LEMMA FlushReach ==
  ASSUME Inv, PoolReach, NEW p \in PageId, BPM!FlushPage(p) \/ BPM!FlushOne(p),
         faulted' = faulted
  PROVE  PoolReach' /\ file_pages' >= file_pages
<1>1. /\ FileHoldsAll' /\ file_pages' >= file_pages
      /\ pages[p] # NoFrame /\ disk'[p] = pages[p] /\ pages'[p].data = pages[p].data
  BY FlushMoves DEF PoolReach, Moves
<1>2. /\ disk' = BPM!DiskAfter(p, pages[p]) /\ failbit' = FALSE
      /\ pages' = [pages EXCEPT ![p].dirty = FALSE]
      /\ file_pages' = BPM!FilePagesAfter(p)
  BY DEF BPM!FlushPage, BPM!FlushOne, BPM!WritePage
<1>3. /\ PoolInv /\ file_pages \in Nat /\ file_pages' \in Nat
      /\ disk \in [PageId -> Good] /\ pages \in [PageId -> Good \cup {NoFrame}]
  BY <1>2, PageIdFacts, LargerIsEnough DEF Inv, PoolInv
<1>4. \A q \in PageId : q # p => disk'[q] = disk[q] /\ pages'[q] = pages[q]
  BY <1>2, <1>3 DEF BPM!DiskAfter, PageId
<1>5. \A q \in PageId : /\ disk'[q].data \in {disk[q].data, pages[q].data}
                        /\ disk'[q].data # disk[q].data => pages[q] # NoFrame
                        /\ pages'[q] # NoFrame =>
                             pages[q] # NoFrame /\ pages'[q].data = pages[q].data
  BY <1>1, <1>4
<1>6. ASSUME NEW q \in PageId
      PROVE  /\ LinkBelow(disk[q].data, file_pages')
             /\ pages[q] # NoFrame =>
                  q < file_pages' /\ LinkBelow(pages[q].data, file_pages')
  <2>1. disk[q] \in Good /\ LinkBelow(disk[q].data, file_pages)
    BY <1>3 DEF PoolReach
  <2>2. LinkBelow(disk[q].data, file_pages')
    BY <1>1, <1>3, <2>1, LinkStaysBelow
  <2>3. ASSUME pages[q] # NoFrame
        PROVE  q < file_pages' /\ LinkBelow(pages[q].data, file_pages')
    <3>1. pages[q] \in Good /\ q < file_pages /\ LinkBelow(pages[q].data, file_pages)
      BY <1>3, <2>3 DEF PoolReach
    <3> QED BY <1>1, <1>3, <3>1, LinkStaysBelow, PageIdFacts
  <2> QED BY <2>2, <2>3
<1>7. \A q \in PageId : LinkBelow(disk'[q].data, file_pages')
  BY <1>5, <1>6
<1>8. \A q \in PageId : pages'[q] # NoFrame =>
        q < file_pages' /\ LinkBelow(pages'[q].data, file_pages')
  BY <1>5, <1>6
<1> QED BY <1>1, <1>2, <1>7, <1>8 DEF PoolReach

LEMMA NewPageReach ==
  ASSUME Inv, PoolReach, NEW p \in PageId, BPM!NewPage(p), faulted' = faulted
  PROVE  PoolReach' /\ file_pages' >= file_pages /\ p < file_pages'
<1> DEFINE img == [data |-> EmptyPage, dirty |-> FALSE]
<1>1. /\ disk' = BPM!DiskAfter(p, img) /\ file_pages' = BPM!FilePagesAfter(p)
      /\ pages' = [pages EXCEPT ![p] = img] /\ failbit' = FALSE
  BY DEF BPM!NewPage
<1>2. FileHoldsAll' /\ file_pages' >= file_pages
  BY NewPageMoves DEF PoolReach, Moves
<1>3. /\ PoolInv /\ file_pages \in Nat /\ p \in Int
      /\ disk \in [PageId -> Good] /\ pages \in [PageId -> Good \cup {NoFrame}]
  BY PageIdFacts DEF Inv, PoolInv
<1>4. file_pages' \in Nat /\ p < file_pages'
  BY <1>1, <1>3, LargerIsEnough
<1>5. img.data = EmptyPage /\ \A n : LinkBelow(EmptyPage, n)
  BY DEF LinkBelow, EmptyPage
<1> HIDE DEF img
<1>6. /\ \A q \in PageId : q # p => disk'[q] = disk[q] /\ pages'[q] = pages[q]
      /\ disk'[p] = img /\ pages'[p] = img
  BY <1>1, <1>3 DEF BPM!DiskAfter, PageId
<1>7. ASSUME NEW q \in PageId, q # p
      PROVE  /\ LinkBelow(disk'[q].data, file_pages')
             /\ pages'[q] # NoFrame =>
                  q < file_pages' /\ LinkBelow(pages'[q].data, file_pages')
  <2>1. disk[q] \in Good /\ LinkBelow(disk[q].data, file_pages)
    BY <1>3 DEF PoolReach
  <2>2. LinkBelow(disk'[q].data, file_pages')
    BY <1>2, <1>3, <1>4, <1>6, <1>7, <2>1, LinkStaysBelow
  <2>3. ASSUME pages[q] # NoFrame
        PROVE  q < file_pages' /\ LinkBelow(pages[q].data, file_pages')
    <3>1. pages[q] \in Good /\ q < file_pages /\ LinkBelow(pages[q].data, file_pages)
      BY <1>3, <2>3 DEF PoolReach
    <3> QED BY <1>2, <1>3, <1>4, <3>1, LinkStaysBelow, PageIdFacts
  <2> QED BY <1>6, <1>7, <2>2, <2>3
<1>8. /\ \A q \in PageId : LinkBelow(disk'[q].data, file_pages')
      /\ \A q \in PageId : pages'[q] # NoFrame =>
           q < file_pages' /\ LinkBelow(pages'[q].data, file_pages')
  BY <1>4, <1>5, <1>6, <1>7
<1> QED BY <1>1, <1>2, <1>4, <1>8 DEF PoolReach

\* Nothing is written: a write fails, a close begins or ends, a crash, a start.
LEMMA StillReach ==
  ASSUME PoolReach, FileHoldsAll', UNCHANGED <<disk, file_pages>>,
         \A q \in PageId : pages'[q] \in {pages[q], NoFrame},
         mode' \in {"open", "closing"} /\ ~faulted' => ~failbit'
  PROVE  PoolReach'
<1>1. \A q \in PageId : pages'[q] # NoFrame =>
        q < file_pages /\ LinkBelow(pages'[q].data, file_pages)
  BY DEF PoolReach
<1> QED BY <1>1 DEF PoolReach

LEMMA FailReach ==
  ASSUME Inv, PoolReach,
         \/ /\ BPM!FlushFails \/ BPM!NewPageFails \/ BPM!EvictionFails \/ BPM!FlushAllFails
            /\ faulted' = TRUE
         \/ (BPM!BeginClose \/ BPM!EndClose) /\ faulted' = faulted
  PROVE  PoolReach' /\ file_pages' = file_pages
<1>1. FileHoldsAll'
  BY FailMoves DEF PoolReach
<1>2. /\ UNCHANGED <<disk, file_pages>>
      /\ \/ faulted' = TRUE
         \/ faulted' = faulted /\ failbit' = failbit /\ mode \in {"open", "closing"}
  BY DEF BPM!FlushFails, BPM!NewPageFails, BPM!EvictionFails, BPM!BeginClose,
         BPM!FlushAllFails, BPM!EndClose, BPM!WriteError
<1>3. \A q \in PageId : pages'[q] \in {pages[q], NoFrame}
  <2>1. CASE BPM!EvictionFails
    BY <2>1 DEF BPM!EvictionFails, Inv, PoolInv
  <2>2. CASE BPM!EndClose
    BY <2>2 DEF BPM!EndClose, BPM!EmptyPool, PageId
  <2>3. CASE \/ BPM!FlushFails \/ BPM!NewPageFails \/ BPM!BeginClose \/ BPM!FlushAllFails
    BY <2>3 DEF BPM!FlushFails, BPM!NewPageFails, BPM!BeginClose, BPM!FlushAllFails
  <2> QED BY <2>1, <2>2, <2>3
<1>4. mode' \in {"open", "closing"} /\ ~faulted' => ~failbit'
  BY <1>2 DEF PoolReach
<1> QED BY <1>1, <1>2, <1>3, <1>4, StillReach

-----------------------------------------------------------------------------
(* The heaps and the calls.                                                *)

LEMMA FileIsNat ==
  ASSUME Inv, Inv'
  PROVE  file_pages \in Nat /\ file_pages' \in Nat
  BY DEF Inv, PoolInv

\* The file only grows, so what was in it is.
LEMMA HeapStays ==
  ASSUME Inv, Inv', HeapReach, file_pages' >= file_pages, UNCHANGED <<first_page, rows>>
  PROVE  HeapReach'
<1>1. ASSUME NEW h \in Heap PROVE first_page[h] = NoPage \/ first_page[h] < file_pages'
  <2>1. first_page[h] \in Link
    BY DEF Inv, CallInv
  <2> QED BY <2>1, FileIsNat, PageIdFacts DEF HeapReach
<1>2. ASSUME NEW h \in Heap, NEW r \in rows[h] PROVE r.page < file_pages'
  <2>1. r.page \in PageId
    BY DEF Inv, CallInv, RowType
  <2> QED BY <2>1, FileIsNat, PageIdFacts DEF HeapReach
<1> QED BY <1>1, <1>2 DEF HeapReach

LEMMA IdleReach ==
  ASSUME op' = Idle
  PROVE  CallReach'
<1>1. op'.step = "idle"
  BY DEF Idle
<1> QED BY <1>1 DEF CallReach, ScanSteps, ModifySteps, InsertSteps

\* An insertion at another step, of a page of the file if it is to be fetched.
LEMMA InsertReach ==
  ASSUME Inv, Inv', CallReach, op \in InsertOp, op.step \in InsertSteps,
         file_pages' >= file_pages, result' = result,
         op'.replaces = op.replaces, op'.step \in InsertSteps \cup {"segv"},
         op'.step = "walk" => op'.page = NoPage \/ op'.page < file_pages'
  PROVE  CallReach'
<1>1. ASSUME NEW r \in op.replaces PROVE r.page < file_pages'
  <2>1. r.page \in PageId /\ r.page < file_pages
    BY DEF InsertOp, RowType, CallReach
  <2> QED BY <2>1, FileIsNat, PageIdFacts
<1>2. op'.step \notin ScanSteps /\ op'.step \notin ModifySteps
  BY DEF InsertSteps, ScanSteps, ModifySteps
<1> QED BY <1>1, <1>2 DEF CallReach

LEMMA WalkReach ==
  ASSUME Reach, Inv', WalkPage
  PROVE  Reach' /\ (~faulted => result' = "none")
<1>1. /\ op \in InsertOp /\ op.step = "walk" /\ op.page # NoPage
      /\ op.page \in PageId /\ op.page < file_pages /\ result = "none"
  <2>1. op \in InsertOp /\ op.step = "walk" /\ op.page # NoPage
    BY OpFacts DEF WalkPage, Reach, Inv
  <2> QED BY <2>1, PageIdFacts DEF InsertOp, Reach, CallReach, InsertSteps
<1> DEFINE k == PageRead(op.page).next_page_id
<1>2. /\ PoolReach' /\ file_pages' >= file_pages
      /\ ~faulted => Fetched(op.page)
      /\ Fetched(op.page) => k = NoPage \/ k < file_pages'
      /\ UNCHANGED <<first_page, rows, faulted>>
  BY <1>1, FetchReach DEF WalkPage, Reach
<1>3. \/ op' = Idle /\ ~Fetched(op.page)
      \/ op' = [op EXCEPT !.step = "put"] /\ result' = result
      \/ /\ op' = [op EXCEPT !.prev = op.page, !.page = k] /\ result' = result
         /\ Fetched(op.page)
  BY DEF WalkPage, Goto, Return
<1> HIDE DEF k
<1>4. CallReach'
  <2>1. CASE op' = Idle
    BY <2>1, IdleReach
  <2>2. CASE op' = [op EXCEPT !.step = "put"] /\ result' = result
    <3>1. op'.step = "put" /\ op'.replaces = op.replaces
      BY <1>1, <2>2 DEF InsertOp
    <3> QED BY <1>1, <1>2, <2>2, <3>1, InsertReach DEF Reach, InsertSteps
  <2>3. CASE /\ op' = [op EXCEPT !.prev = op.page, !.page = k] /\ result' = result
             /\ Fetched(op.page)
    <3>1. op'.step = "walk" /\ op'.replaces = op.replaces /\ op'.page = k
      BY <1>1, <2>3 DEF InsertOp
    <3> QED BY <1>1, <1>2, <2>3, <3>1, InsertReach DEF Reach, InsertSteps
  <2> QED BY <1>3, <2>1, <2>2, <2>3
<1> QED BY <1>1, <1>2, <1>3, <1>4, HeapStays DEF Reach

LEMMA ExtendReach ==
  ASSUME Reach, Inv', ExtendChain
  PROVE  Reach'
<1>1. op \in InsertOp /\ op.step = "walk"
  BY OpFacts DEF ExtendChain, Reach, Inv
<1>2. PICK p \in PageId :
        BPM!NewPage(p) /\ op' = [op EXCEPT !.step = "fetchPrev", !.page = p]
  BY DEF ExtendChain
<1>3. /\ PoolReach' /\ file_pages' >= file_pages
      /\ UNCHANGED <<first_page, rows, faulted, result>>
  BY <1>2, NewPageReach DEF ExtendChain, Reach
<1>4. op'.step = "fetchPrev" /\ op'.replaces = op.replaces
  BY <1>1, <1>2 DEF InsertOp
<1>5. CallReach'
  BY <1>1, <1>3, <1>4, InsertReach DEF Reach, InsertSteps
<1> QED BY <1>3, <1>5, HeapStays DEF Reach

LEMMA FetchPrevReach ==
  ASSUME Reach, Inv', FetchPrev
  PROVE  Reach'
<1>1. op \in InsertOp /\ op.step = "fetchPrev"
  BY OpFacts DEF FetchPrev, Reach, Inv
<1>2. op.prev \in PageId /\ op.prev < file_pages
  BY <1>1 DEF Reach, Inv, Locals, NewPageHeld, Holds, PoolReach
<1>3. /\ PoolReach' /\ file_pages' >= file_pages
      /\ UNCHANGED <<first_page, rows, faulted, result>>
  BY <1>2, FetchReach DEF FetchPrev, Goto, Reach
<1>4. op'.step \in {"link", "segv"} /\ op'.replaces = op.replaces
  BY <1>1 DEF InsertOp, FetchPrev, Goto
<1>5. CallReach'
  BY <1>1, <1>3, <1>4, InsertReach DEF Reach, InsertSteps
<1> QED BY <1>3, <1>5, HeapStays DEF Reach

LEMMA LinkReach ==
  ASSUME Reach, Inv', LinkPrev
  PROVE  Reach'
<1> DEFINE d == [Page(op.prev) EXCEPT !.next_page_id = op.page]
<1>1. op \in InsertOp /\ op.step = "link"
  BY OpFacts DEF LinkPrev, Reach, Inv
<1>2. /\ Holds(op.prev) /\ Page(op.prev) \in TablePage /\ Holds(op.page)
      /\ WellFormed(Page(op.prev)) /\ op.page < file_pages
  BY <1>1, ImageFacts
     DEF Reach, Inv, PoolInv, Locals, NewPageHeld, Holds, Page, PoolReach
<1>3. d \in TablePage /\ WellFormed(d)
  BY <1>2, LinkedPage, PageIdFacts DEF Holds
<1>4. d.next_page_id = op.page
  BY <1>2 DEF TablePage, PageOf
<1> HIDE DEF d
<1>5. LinkBelow(d, file_pages)
  BY <1>2, <1>4 DEF LinkBelow
<1>6. /\ BPM!Write(op.prev, d) /\ op' = [op EXCEPT !.step = "put"]
      /\ UNCHANGED <<first_page, rows, faulted, result>>
  BY DEF LinkPrev, Goto, d
<1>7. PoolReach' /\ file_pages' = file_pages
  BY <1>2, <1>3, <1>5, <1>6, WriteReach DEF Reach, Holds
<1>8. op'.step = "put" /\ op'.replaces = op.replaces
  BY <1>1, <1>6 DEF InsertOp
<1>9. file_pages' >= file_pages
  BY <1>7, FileIsNat DEF Reach
<1>10. CallReach'
  BY <1>1, <1>6, <1>8, <1>9, InsertReach DEF Reach, InsertSteps
<1> QED BY <1>6, <1>7, <1>9, <1>10, HeapStays DEF Reach

LEMMA PutReach ==
  ASSUME TuplesFit, Reach, Inv', Put
  PROVE  Reach'
<1> DEFINE pg == IF IsNewPage THEN [Page(op.page) EXCEPT !.prev_page_id = op.prev]
                 ELSE Page(op.page)
           d == PutTuple(pg, op.tuple)
<1>1. op \in InsertOp /\ op.step = "put" /\ op.tuple \in Tuples /\ op.prev \in Link
  BY OpFacts DEF Put, Reach, Inv, InsertOp
<1>2. /\ Holds(op.page) /\ Page(op.page) \in TablePage /\ Takes(Page(op.page), op.tuple)
      /\ LinkBelow(Page(op.page), file_pages)
  BY <1>1 DEF Reach, Inv, Locals, RoomIsThere, PoolReach, Holds, Page
<1>3. WellFormed(Page(op.page))
  BY <1>2, ImageFacts DEF Reach, Inv, PoolInv, Holds, Page
<1>4. /\ pg \in TablePage /\ WellFormed(pg) /\ Takes(pg, op.tuple)
      /\ pg.next_page_id = Page(op.page).next_page_id
  <2>1. CASE IsNewPage
    BY <1>1, <1>2, <1>3, <2>1, LinkedPage DEF TablePage, PageOf
  <2>2. CASE ~IsNewPage
    BY <1>2, <1>3, <2>2
  <2> QED BY <2>1, <2>2
<1>5. /\ BPM!Write(op.page, d) /\ op' = [op EXCEPT !.step = "flush"]
      /\ UNCHANGED <<first_page, rows, faulted, result>>
  BY DEF Put, Goto
<1> HIDE DEF pg
<1>6. d \in TablePage /\ WellFormed(d) /\ d.next_page_id = pg.next_page_id
  <2>1. d \in TablePage /\ WellFormed(d)
    BY <1>1, <1>4, PutKeepsLayout DEF TablePage
  <2>2. d.next_page_id = pg.next_page_id
    BY <1>4 DEF TablePage, PageOf, PutTuple
  <2> QED BY <2>1, <2>2
<1> HIDE DEF d
<1>7. LinkBelow(d, file_pages)
  BY <1>2, <1>4, <1>6, ZeroedPageIsNoTable DEF LinkBelow
<1>8. PoolReach' /\ file_pages' = file_pages
  BY <1>2, <1>5, <1>6, <1>7, WriteReach DEF Reach, Holds
<1>9. op'.step = "flush" /\ op'.replaces = op.replaces
  BY <1>1, <1>5 DEF InsertOp
<1>10. file_pages' >= file_pages
  BY <1>8, FileIsNat DEF Reach
<1>11. CallReach'
  BY <1>1, <1>5, <1>9, <1>10, InsertReach DEF Reach, InsertSteps
<1> QED BY <1>5, <1>8, <1>10, <1>11, HeapStays DEF Reach

LEMMA SamePoolReach ==
  ASSUME Inv, PoolReach, UNCHANGED poolVars, faulted' = faulted
  PROVE  PoolReach' /\ file_pages' >= file_pages
<1>1. UNCHANGED <<disk, file_pages, next_page_id, failbit, pages, mode>>
  BY DEF poolVars
<1> QED BY <1>1 DEF PoolReach, FileHoldsAll, Inv, PoolInv

\* Rows that are kept, dropped or added on pages of the file.
LEMMA RowsReach ==
  ASSUME Inv, Inv', HeapReach, file_pages' >= file_pages, first_page' = first_page,
         NEW q \in PageId, q < file_pages,
         \A h \in Heap : \A r \in rows'[h] : r \in rows[h] \/ r.page = q
  PROVE  HeapReach'
<1>1. ASSUME NEW h \in Heap PROVE first_page[h] = NoPage \/ first_page[h] < file_pages'
  <2>1. first_page[h] \in Link
    BY DEF Inv, CallInv
  <2> QED BY <2>1, FileIsNat, PageIdFacts DEF HeapReach
<1>2. ASSUME NEW h \in Heap, NEW r \in rows'[h] PROVE r.page < file_pages'
  <2>1. CASE r.page = q
    BY <2>1, FileIsNat, PageIdFacts
  <2>2. CASE r \in rows[h]
    <3>1. r.page \in PageId
      BY <2>2 DEF Inv, CallInv, RowType
    <3> QED BY <2>2, <3>1, FileIsNat, PageIdFacts DEF HeapReach
  <2> QED BY <1>2, <2>1, <2>2
<1> QED BY <1>1, <1>2 DEF HeapReach

LEMMA FlushRowReach ==
  ASSUME Reach, Inv', FlushRow
  PROVE  Reach'
<1>1. op \in InsertOp /\ op.step = "flush"
  BY OpFacts DEF FlushRow, Reach, Inv
<1>2. op.page \in PageId
  BY <1>1 DEF Reach, Inv, Locals, RoomIsThere, Holds
<1>3. PoolReach' /\ file_pages' >= file_pages
  <2>1. CASE BPM!FlushPage(op.page) /\ UNCHANGED faulted
    BY <1>2, <2>1, FlushReach DEF Reach
  <2>2. CASE BPM!FlushFails /\ faulted' = TRUE
    BY <2>2, FailReach, FileIsNat DEF Reach
  <2> QED BY <2>1, <2>2 DEF FlushRow
<1>4. op' = [op EXCEPT !.step = "ack"] /\ UNCHANGED <<first_page, rows, result>>
  BY DEF FlushRow, Goto
<1>5. op'.step = "ack" /\ op'.replaces = op.replaces
  BY <1>1, <1>4 DEF InsertOp
<1>6. CallReach'
  BY <1>1, <1>3, <1>4, <1>5, InsertReach DEF Reach, InsertSteps
<1> QED BY <1>3, <1>4, <1>6, HeapStays DEF Reach

LEMMA AckReach ==
  ASSUME Reach, Inv', Acknowledge
  PROVE  Reach'
<1>1. op \in InsertOp /\ op.step = "ack" /\ op.heap \in Heap
  BY OpFacts DEF Acknowledge, Reach, Inv, InsertOp
<1>2. op.page \in PageId /\ op.page < file_pages /\ NewRow.page = op.page
  BY <1>1, NewRowType DEF Reach, Inv, Locals, RoomIsThere, Holds, PoolReach
<1>3. PoolReach' /\ file_pages' >= file_pages
  BY SamePoolReach DEF Acknowledge, Reach
<1>4. HeapReach'
  <2>1. \A h \in Heap : \A r \in rows'[h] : r \in rows[h] \/ r.page = op.page
    BY <1>1, <1>2 DEF Acknowledge, Reach, Inv, CallInv
  <2>2. first_page' = first_page
    BY DEF Acknowledge
  <2> QED BY <1>2, <1>3, <2>1, <2>2, RowsReach DEF Reach
<1>5. CallReach'
  <2>1. CASE op' = Idle
    BY <2>1, IdleReach
  <2>2. ASSUME NEW r \in op.replaces, result' = result,
               op' = [step |-> "fetchVictim", heap |-> op.heap, row |-> r]
        PROVE  CallReach'
    <3>1. r.page \in PageId /\ r.page < file_pages /\ result = "none"
      BY <1>1 DEF InsertOp, RowType, Reach, CallReach, InsertSteps
    <3>2. r.page < file_pages'
      BY <1>3, <3>1, FileIsNat, PageIdFacts DEF Reach
    <3> QED BY <2>2, <3>1, <3>2 DEF CallReach, ScanSteps, ModifySteps, InsertSteps
  <2> QED BY <2>1, <2>2 DEF Acknowledge, Return
<1> QED BY <1>3, <1>4, <1>5 DEF Reach

\* A deletion or an update at another step.
LEMMA ModifyReach ==
  ASSUME Reach, Inv', file_pages' >= file_pages, result' = result,
         op.step \in ModifySteps, op.row \in RowType, op'.row = op.row,
         op'.step \in ModifySteps
  PROVE  CallReach'
<1>1. op.row.page \in PageId /\ op.row.page < file_pages /\ result = "none"
  BY DEF RowType, Reach, CallReach
<1>2. op.row.page < file_pages'
  BY <1>1, FileIsNat, PageIdFacts DEF Reach
<1> QED BY <1>1, <1>2 DEF CallReach, ScanSteps, ModifySteps, InsertSteps

LEMMA FetchVictimReach ==
  ASSUME Reach, Inv', FetchVictim
  PROVE  Reach'
<1>1. op \in VictimOp /\ op.step = "fetchVictim" /\ op.row \in RowType /\ op.row.page \in PageId
  BY OpFacts DEF FetchVictim, Reach, Inv, VictimOp, RowType
<1>2. op.row.page < file_pages
  BY <1>1 DEF Reach, CallReach, ModifySteps
<1>3. /\ PoolReach' /\ file_pages' >= file_pages /\ UNCHANGED <<first_page, rows>>
  BY <1>1, <1>2, FetchReach DEF FetchVictim, Reach
<1>4. CallReach'
  <2>1. CASE op' = Idle
    BY <2>1, IdleReach
  <2>2. CASE op' = [op EXCEPT !.step = "kill"] /\ result' = result
    <3>1. op'.step = "kill" /\ op'.row = op.row
      BY <1>1, <2>2 DEF VictimOp
    <3> QED BY <1>1, <1>3, <2>2, <3>1, ModifyReach DEF ModifySteps
  <2> QED BY <2>1, <2>2 DEF FetchVictim, Goto, Return
<1> QED BY <1>3, <1>4, HeapStays DEF Reach

LEMMA KillReach ==
  ASSUME Reach, Inv', Kill
  PROVE  Reach'
<1> DEFINE p == op.row.page
           d == MarkDead(Page(p), op.row.slot)
<1>1. op \in VictimOp /\ op.step = "kill" /\ p \in PageId /\ op.heap \in Heap
  BY OpFacts DEF Kill, Reach, Inv, VictimOp, RowType
<1>2. /\ Holds(p) /\ op.row.slot \in DOMAIN Page(p).slots
      /\ p < file_pages /\ LinkBelow(Page(p), file_pages)
  BY <1>1 DEF Reach, Inv, Locals, RowIsThere, PoolReach, Holds, Page
<1>3. Page(p) \in TablePage /\ pages[p] \in Good
  <2>1. pages[p] \in Good
    BY <1>2 DEF Reach, Inv, PoolInv, Holds
  <2>2. Page(p) # ZeroedPage
    BY <1>2 DEF ZeroedPage
  <2> QED BY <2>1, <2>2, ImageFacts DEF Page
<1>4. LinkBelow(d, file_pages)
  <2>1. d.next_page_id = Page(p).next_page_id
    BY <1>3 DEF MarkDead, TablePage, PageOf
  <2> QED BY <1>2, <1>3, <2>1, ZeroedPageIsNoTable DEF LinkBelow
<1>5. /\ pages' = [pages EXCEPT ![p].data = d] /\ op' = Idle
      /\ UNCHANGED <<disk, file_pages, next_page_id, failbit, mode, first_page, faulted>>
      /\ rows' = [rows EXCEPT ![op.heap] = @ \ {op.row}]
  BY DEF Kill, Page, Return
<1>6. [pages[p] EXCEPT !.data = d].data = d
  BY <1>3 DEF Good, Image
<1> HIDE DEF d
<1>7. pages'[p].data = d /\ \A q \in PageId : q # p => pages'[q] = pages[q]
  BY <1>1, <1>5, <1>6 DEF Reach, Inv, PoolInv
<1> HIDE DEF p
<1>8. \A q \in PageId : pages'[q] # NoFrame =>
        q < file_pages /\ LinkBelow(pages'[q].data, file_pages)
  BY <1>2, <1>4, <1>7 DEF Reach, PoolReach
<1>9. PoolReach'
  BY <1>5, <1>8 DEF Reach, PoolReach, FileHoldsAll
<1>10. \A h \in Heap : \A r \in rows'[h] : r \in rows[h]
  BY <1>1, <1>5 DEF Reach, Inv, CallInv
<1>11. HeapReach'
  BY <1>5, <1>10 DEF Reach, HeapReach
<1> QED BY <1>5, <1>9, <1>11, IdleReach DEF Reach

LEMMA FetchOldReach ==
  ASSUME Reach, Inv', FetchOld
  PROVE  Reach'
<1>1. /\ op \in UpdateOp /\ op.step = "fetchOld" /\ op.row \in RowType
      /\ op.row.page \in PageId /\ op.heap \in Heap
  BY OpFacts DEF FetchOld, Reach, Inv, UpdateOp, RowType
<1>2. op.row.page < file_pages /\ result = "none"
  BY <1>1 DEF Reach, CallReach, ModifySteps
<1>3. /\ PoolReach' /\ file_pages' >= file_pages /\ UNCHANGED <<first_page, rows>>
  BY <1>1, <1>2, FetchReach DEF FetchOld, Reach
<1>4. HeapReach'
  BY <1>3, HeapStays DEF Reach
<1>5. CallReach'
  <2>1. CASE op' = Idle
    BY <2>1, IdleReach
  <2>2. CASE op' = [op EXCEPT !.step = "overwrite"] /\ result' = result
    <3>1. op'.step = "overwrite" /\ op'.row = op.row
      BY <1>1, <2>2 DEF UpdateOp
    <3> QED BY <1>1, <1>3, <2>2, <3>1, ModifyReach DEF ModifySteps
  <2>3. CASE op' = InsertCall(op.heap, op.tuple, {op.row}) /\ result' = result
    <3>1. /\ op'.step = "walk" /\ op'.page = first_page'[op.heap]
          /\ op'.replaces = {op.row}
      BY <1>3, <2>3 DEF InsertCall
    <3>2. op.row.page < file_pages'
      BY <1>1, <1>2, <1>3, FileIsNat, PageIdFacts DEF Reach
    <3>3. op'.page = NoPage \/ op'.page < file_pages'
      BY <1>1, <1>4, <3>1 DEF HeapReach
    <3> QED BY <1>2, <2>3, <3>1, <3>2, <3>3 DEF CallReach, ScanSteps, ModifySteps, InsertSteps
  <2> QED BY <2>1, <2>2, <2>3 DEF FetchOld, Goto, Return
<1> QED BY <1>3, <1>4, <1>5 DEF Reach

LEMMA OverwriteReach ==
  ASSUME Reach, Inv', OverwriteRow
  PROVE  Reach'
<1> DEFINE p == op.row.page
           d == Overwrite(Page(p), op.row.slot, op.tuple)
<1>1. op \in UpdateOp /\ op.step = "overwrite" /\ p \in PageId /\ op.heap \in Heap
      /\ op.tuple \in Tuples
  BY OpFacts DEF OverwriteRow, Reach, Inv, UpdateOp, RowType
<1>2. /\ Holds(p) /\ op.row.slot \in DOMAIN Page(p).slots
      /\ Page(p).slots[op.row.slot].tuple.size = op.tuple.size
      /\ p < file_pages /\ LinkBelow(Page(p), file_pages)
  BY <1>1 DEF Reach, Inv, Locals, RowIsThere, PoolReach, Holds, Page
<1>3. Page(p) \in TablePage /\ WellFormed(Page(p))
  <2>1. pages[p] \in Good
    BY <1>2 DEF Reach, Inv, PoolInv, Holds
  <2>2. Page(p) # ZeroedPage
    BY <1>2 DEF ZeroedPage
  <2> QED BY <2>1, <2>2, ImageFacts DEF Page
<1>4. op.tuple.size <= Page(p).slots[op.row.slot].tuple_length
  BY <1>2, <1>3 DEF WellFormed
<1>5. d \in TablePage /\ WellFormed(d)
  BY <1>1, <1>2, <1>3, <1>4, OverwriteKeepsLayout DEF TablePage
<1>6. LinkBelow(d, file_pages)
  <2>1. d.next_page_id = Page(p).next_page_id
    BY <1>3 DEF Overwrite, TablePage, PageOf
  <2> QED BY <1>2, <1>3, <2>1, ZeroedPageIsNoTable DEF LinkBelow
<1>7. /\ BPM!Write(p, d) /\ op' = Idle /\ UNCHANGED <<first_page, faulted>>
      /\ rows' = [rows EXCEPT ![op.heap] =
                    (@ \ {op.row}) \cup {Row(p, op.row.slot, op.tuple)}]
  BY DEF OverwriteRow, Return
<1> HIDE DEF d
<1>8. PoolReach' /\ file_pages' = file_pages
  BY <1>1, <1>2, <1>5, <1>6, <1>7, WriteReach DEF Reach, Holds
<1>9. Row(p, op.row.slot, op.tuple).page = p
  BY DEF Row
<1>10. \A h \in Heap : \A r \in rows'[h] : r \in rows[h] \/ r.page = p
  BY <1>1, <1>7, <1>9 DEF Reach, Inv, CallInv
<1>11. HeapReach'
  <2>1. file_pages' >= file_pages
    BY <1>8, FileIsNat DEF Reach
  <2> QED BY <1>1, <1>2, <1>7, <1>10, <2>1, RowsReach DEF Reach
<1> QED BY <1>7, <1>8, <1>11, IdleReach DEF Reach

LEMMA ScanFieldValues ==
  ASSUME IsScan(op), NEW step \in ScanSteps, NEW p \in PageId, NEW i, NEW seen,
         \/ op' = [op EXCEPT !.step = step]
         \/ op' = [op EXCEPT !.step = step, !.page = p, !.slot = i]
         \/ op' = [op EXCEPT !.step = step, !.page = p, !.slot = i, !.seen = seen]
  PROVE  op'.step = step /\ op'.page \in {p, op.page}
<1>1. "step" \in DOMAIN op /\ "page" \in DOMAIN op
  BY DEF IsScan
<1> QED BY <1>1

LEMMA ScanReach ==
  ASSUME Reach, Inv', ScanPage
  PROVE  Reach'
<1>1. IsScan(op) /\ op.page \in PageId /\ op.step \in ScanSteps
  BY OpFacts DEF ScanPage, Reach, Inv, ScanSteps, IsScan
<1>2. op.page < file_pages
  BY <1>1 DEF Reach, CallReach
<1> DEFINE k == PageRead(op.page).next_page_id
<1>3. /\ PoolReach' /\ file_pages' >= file_pages /\ UNCHANGED <<first_page, rows>>
      /\ Fetched(op.page) => k = NoPage \/ k < file_pages'
  BY <1>1, <1>2, FetchReach DEF ScanPage, Reach
<1>4. op.page < file_pages'
  BY <1>1, <1>2, <1>3, FileIsNat, PageIdFacts DEF Reach
<1>5. IsScan(op')
  BY ScanStays DEF Reach
<1>6. op'.page < file_pages'
  <2>1. CASE Goto("scanned")
    <3>1. op'.page \in {op.page}
      BY <1>1, <2>1, ScanFieldValues DEF Goto, ScanSteps
    <3> QED BY <1>4, <3>1
  <2>2. ASSUME NEW i, Emit(op.page, i) PROVE op'.page < file_pages'
    <3>1. op'.page \in {op.page}
      BY <1>1, <2>2, ScanFieldValues DEF Emit, ScanSteps
    <3> QED BY <1>4, <3>1
  <2>3. ASSUME Fetched(op.page), k # NoPage,
               op' = [op EXCEPT !.step = "nextPage", !.page = k, !.slot = 0]
        PROVE  op'.page < file_pages'
    <3>1. k \in PageId
      BY <1>1, <2>3, FetchedPage, PageIdFacts DEF Reach, Inv, ScanPage
    <3>2. op'.page \in {k, op.page}
      BY <1>1, <2>3, <3>1, ScanFieldValues DEF ScanSteps
    <3> QED BY <1>3, <1>4, <2>3, <3>2
  <2> QED BY <2>1, <2>2, <2>3 DEF ScanPage
<1>7. CallReach'
  BY <1>5, <1>6 DEF CallReach, IsScan, ScanSteps, ModifySteps, InsertSteps
<1> QED BY <1>3, <1>7, HeapStays DEF Reach

LEMMA ThrowsReach ==
  ASSUME Reach, Inv', Throws
  PROVE  Reach'
<1>1. /\ PoolReach' /\ file_pages' = file_pages
      /\ UNCHANGED <<first_page, rows>> /\ op' = Idle
  BY FailReach DEF Throws, Return, Reach
<1>2. file_pages' >= file_pages
  BY <1>1, FileIsNat DEF Reach
<1> QED BY <1>1, <1>2, HeapStays, IdleReach DEF Reach

-----------------------------------------------------------------------------
(* Calls begin; the pool is closed, lost and opened.                       *)

LEMMA CreateReach ==
  ASSUME Reach, Inv', NEW h \in Heap, CreateHeap(h)
  PROVE  Reach'
<1>1. PICK p \in PageId : BPM!NewPage(p) /\ first_page' = [first_page EXCEPT ![h] = p]
  BY DEF CreateHeap
<1>2. /\ PoolReach' /\ file_pages' >= file_pages /\ p < file_pages'
      /\ op' = Idle /\ rows' = rows
  BY <1>1, NewPageReach DEF CreateHeap, Reach
<1>3. ASSUME NEW g \in Heap PROVE first_page'[g] = NoPage \/ first_page'[g] < file_pages'
  <2>1. first_page[g] \in Link /\ first_page \in [Heap -> Link]
    BY DEF Reach, Inv, CallInv
  <2>2. first_page[g] = NoPage \/ first_page[g] < file_pages'
    BY <1>2, <2>1, FileIsNat, PageIdFacts DEF Reach, HeapReach
  <2> QED BY <1>1, <1>2, <2>1, <2>2
<1>4. ASSUME NEW g \in Heap, NEW r \in rows[g] PROVE r.page < file_pages'
  <2>1. r.page \in PageId
    BY DEF Reach, Inv, CallInv, RowType
  <2> QED BY <1>2, <2>1, FileIsNat, PageIdFacts DEF Reach, HeapReach
<1>5. HeapReach'
  BY <1>2, <1>3, <1>4 DEF HeapReach
<1> QED BY <1>2, <1>5, IdleReach DEF Reach

LEMMA BeginReach ==
  ASSUME Reach, Inv', NEW h \in Heap,
         \/ Scan(h)
         \/ \E t \in Tuples : Insert(h, t)
         \/ \E r \in rows[h] : Delete(h, r)
         \/ \E r \in rows[h], t \in Tuples : Update(h, r, t)
  PROVE  Reach'
<1>1. /\ UNCHANGED poolVars /\ UNCHANGED <<first_page, rows, faulted>>
      /\ result' = "none" /\ first_page[h] # NoPage
  BY DEF Scan, Insert, Delete, Update, Ready
<1>2. PoolReach' /\ HeapReach'
  BY <1>1, SamePoolReach, HeapStays DEF Reach
<1>3. first_page'[h] < file_pages' /\ \A r \in rows[h] : r.page < file_pages'
  BY <1>1, <1>2 DEF HeapReach
<1>4. CallReach'
  <2>1. CASE Scan(h)
    <3>1. op'.step = "begin" /\ op'.page = first_page'[h]
      BY <1>1, <2>1 DEF Scan
    <3> QED BY <1>3, <3>1 DEF CallReach, ScanSteps, ModifySteps, InsertSteps
  <2>2. ASSUME NEW t \in Tuples, Insert(h, t) PROVE CallReach'
    <3>1. op'.step = "walk" /\ op'.page = first_page'[h] /\ op'.replaces = {}
      BY <1>1, <2>2 DEF Insert, InsertCall
    <3> QED BY <1>1, <1>3, <3>1 DEF CallReach, ScanSteps, ModifySteps, InsertSteps
  <2>3. ASSUME NEW r \in rows[h], op'.row = r, op'.step \in {"fetchVictim", "fetchOld"}
        PROVE  CallReach'
    BY <1>1, <1>3, <2>3 DEF CallReach, ScanSteps, ModifySteps, InsertSteps
  <2> QED BY <2>1, <2>2, <2>3 DEF Delete, Update
<1> QED BY <1>2, <1>4 DEF Reach

LEMMA CloseReach ==
  ASSUME Reach, Inv', Close
  PROVE  Reach'
<1>1. PoolReach' /\ file_pages' >= file_pages
  <2>1. CASE \E p \in PageId : BPM!FlushOne(p) /\ UNCHANGED faulted
    BY <2>1, FlushReach DEF Reach
  <2>2. CASE \/ BPM!BeginClose /\ UNCHANGED faulted
             \/ BPM!FlushAllFails /\ faulted' = TRUE
             \/ BPM!EndClose /\ UNCHANGED faulted
    <3>1. \/ /\ BPM!FlushFails \/ BPM!NewPageFails \/ BPM!EvictionFails \/ BPM!FlushAllFails
             /\ faulted' = TRUE
          \/ (BPM!BeginClose \/ BPM!EndClose) /\ faulted' = faulted
      BY <2>2
    <3>2. Inv /\ PoolReach
      BY DEF Reach
    <3>3. PoolReach' /\ file_pages' = file_pages
      BY <3>1, <3>2, FailReach
    <3>4. file_pages \in Nat
      BY <3>2, FileIsNat
    <3> QED BY <3>3, <3>4
  <2> QED BY <2>1, <2>2 DEF Close
<1>2. op' = Idle /\ UNCHANGED <<first_page, rows>>
  BY DEF Close
<1> QED BY <1>1, <1>2, HeapStays, IdleReach DEF Reach

LEMMA CrashReach ==
  ASSUME Reach, Inv', Crash
  PROVE  Reach'
<1>1. /\ UNCHANGED <<disk, file_pages, next_page_id, first_page>> /\ mode' = "crashed"
      /\ pages' = [p \in PageId |-> NoFrame]
      /\ op' = Idle /\ rows' = [h \in Heap |-> DiskRows(h)]
  BY DEF Crash, BPM!Crash, BPM!EmptyPool, PageId
<1>2. PoolReach'
  BY <1>1 DEF Reach, PoolReach, FileHoldsAll
<1>3. \A h \in Heap : \A r \in DiskRows(h) : r.page < file_pages
  BY DiskRowsInFile DEF Reach, PoolReach
<1>4. HeapReach'
  BY <1>1, <1>3 DEF Reach, HeapReach
<1> QED BY <1>1, <1>2, <1>4, IdleReach DEF Reach

LEMMA ReopenReach ==
  ASSUME Reach, Inv', Reopen
  PROVE  Reach'
<1>1. /\ UNCHANGED <<disk, file_pages, pages, first_page, op, rows, result, faulted>>
      /\ mode' = "open" /\ failbit' = FALSE
      /\ next_page_id' = BPM!Larger(file_pages, FIRST_USABLE_PAGE_ID)
  BY DEF Reopen, heapVars, BPM!Open, BPM!OpenFile
<1>2. next_page_id' >= file_pages /\ file_pages' >= file_pages
  BY <1>1, HeapAssumption, LargerFacts DEF Reach, Inv, PoolInv
<1>3. PoolReach'
  BY <1>1, <1>2 DEF Reach, PoolReach, FileHoldsAll, Inv, PoolInv
<1>4. CallReach'
  BY <1>1 DEF Reach, CallReach
<1> QED BY <1>1, <1>2, <1>3, <1>4, HeapStays DEF Reach

-----------------------------------------------------------------------------
(* The inductive invariant and what follows from it.                       *)

LEMMA InitReach == Init => Reach
<1> SUFFICES ASSUME Init PROVE Reach
  OBVIOUS
<1>1. /\ disk = [p \in PageId |-> [data |-> ZeroedPage, dirty |-> FALSE]]
      /\ file_pages = 0 /\ next_page_id = FIRST_USABLE_PAGE_ID /\ failbit = FALSE
      /\ pages = [p \in PageId |-> NoFrame]
      /\ op = Idle /\ rows = [h \in Heap |-> {}] /\ first_page = [h \in Heap |-> NoPage]
  BY DEF Init, BPM!Init, BPM!DiskInit, PageId
<1>2. PoolReach
  BY <1>1, HeapAssumption DEF PoolReach, FileHoldsAll, LinkBelow
<1>3. HeapReach
  BY <1>1 DEF HeapReach
<1>4. CallReach
  BY <1>1 DEF CallReach, Idle, ScanSteps, ModifySteps, InsertSteps
<1> QED BY <1>2, <1>3, <1>4, InitInv DEF Reach

LEMMA NextReach == TuplesFit /\ Reach /\ [Next]_vars => Reach'
<1> SUFFICES ASSUME TuplesFit, Reach, [Next]_vars PROVE Reach'
  OBVIOUS
<1>0. Inv'
  BY NextInv DEF Reach
<1>1. ASSUME NEW h \in Heap, CreateHeap(h) PROVE Reach'
  BY <1>0, <1>1, CreateReach
<1>2. ASSUME NEW h \in Heap,
             \/ Scan(h)
             \/ \E t \in Tuples : Insert(h, t)
             \/ \E r \in rows[h] : Delete(h, r)
             \/ \E r \in rows[h], t \in Tuples : Update(h, r, t)
      PROVE  Reach'
  BY <1>0, <1>2, BeginReach
<1>3. CASE WalkPage \/ ExtendChain \/ FetchPrev \/ LinkPrev \/ Put \/ FlushRow
          \/ Acknowledge
  BY <1>0, <1>3, WalkReach, ExtendReach, FetchPrevReach, LinkReach, PutReach,
     FlushRowReach, AckReach
<1>4. CASE FetchVictim \/ Kill \/ FetchOld \/ OverwriteRow
  BY <1>0, <1>4, FetchVictimReach, KillReach, FetchOldReach, OverwriteReach
<1>5. CASE ScanPage \/ Throws
  BY <1>0, <1>5, ScanReach, ThrowsReach
<1>6. CASE EndScan
  <2>1. op' = Idle /\ UNCHANGED poolVars /\ UNCHANGED <<first_page, rows, faulted>>
    BY <1>6 DEF EndScan, Return
  <2> QED BY <1>0, <2>1, SamePoolReach, HeapStays, IdleReach DEF Reach
<1>7. CASE Close \/ Crash \/ Reopen
  BY <1>0, <1>7, CloseReach, CrashReach, ReopenReach
<1>8. CASE UNCHANGED vars
  <2>1. /\ UNCHANGED poolVars /\ UNCHANGED <<first_page, op, rows, result, faulted>>
        /\ file_pages' = file_pages
    BY <1>8 DEF vars, poolVars, heapVars
  <2>2. CallReach'
    BY <2>1 DEF Reach, CallReach
  <2> QED BY <1>0, <2>1, <2>2, SamePoolReach, HeapStays DEF Reach
<1> QED BY <1>1, <1>2, <1>3, <1>4, <1>5, <1>6, <1>7, <1>8 DEF Next

\* A call that is looking for room is not refused in its next step.
LEMMA WalkGoesOn ==
  ASSUME TuplesFit, Reach, [Next]_vars, op.step = "walk", ~faulted
  PROVE  result' # "refused"
<1>0. Inv' /\ result = "none" /\ op # Idle
  BY NextInv DEF Reach, CallReach, InsertSteps, Idle
<1>1. CASE WalkPage
  BY <1>0, <1>1, WalkReach
<1>2. CASE ExtendChain \/ Throws \/ Crash \/ Reopen \/ UNCHANGED vars
  BY <1>0, <1>2 DEF ExtendChain, Throws, Return, Crash, Reopen, heapVars, vars
<1>3. \A h \in Heap : /\ ~CreateHeap(h) /\ ~Scan(h)
                      /\ \A t \in Tuples : ~Insert(h, t)
                      /\ \A r \in rows[h] : ~Delete(h, r)
                      /\ \A r \in rows[h], t \in Tuples : ~Update(h, r, t)
  BY <1>0 DEF CreateHeap, Scan, Insert, Delete, Update, Ready
<1>4. ~(FetchPrev \/ LinkPrev \/ Put \/ FlushRow \/ Acknowledge \/ EndScan \/ Close)
  BY <1>0 DEF FetchPrev, LinkPrev, Put, FlushRow, Acknowledge, EndScan, Close
<1>5. ~(FetchVictim \/ Kill \/ FetchOld \/ OverwriteRow \/ ScanPage)
  BY DEF FetchVictim, Kill, FetchOld, OverwriteRow, ScanPage
<1> QED BY <1>1, <1>2, <1>3, <1>4, <1>5 DEF Next

\* If every tuple fits an empty page, no heap refuses a row unless a write
\* failed since the file was last recovered: whatever was deleted, updated,
\* evicted or lost in crashes before, every page an insertion comes to is in
\* the file and is read.
THEOREM NoInsertIsRefused == TuplesFit => (Spec => InsertsSucceed)
<1> SUFFICES ASSUME TuplesFit PROVE Spec => InsertsSucceed
  OBVIOUS
<1>1. Reach /\ [Next]_vars => Reach'
  BY NextReach
<1>2. Reach /\ [Next]_vars => [op.step = "walk" /\ ~faulted => result' # "refused"]_vars
  BY WalkGoesOn
<1> QED BY <1>1, <1>2, InitReach, PTL DEF Spec, InsertsSucceed

-----------------------------------------------------------------------------
(* What the pages reached from a page are.                                 *)

\* Contents of pages whose links are links.
Linking(at) == \A q \in PageId : at[q].next_page_id \in Link

\* No page of S names a page outside it.
Shut(S, at) == \A q \in S : at[q].next_page_id \in S \cup {NoPage}

\* The pages every shut set with S in it has.
Least(S, at) ==
  {x \in PageId : \A T \in SUBSET PageId : S \subseteq T /\ Shut(T, at) => x \in T}

LEMMA OnwardFacts ==
  ASSUME NEW at, Linking(at), NEW S \in SUBSET PageId
  PROVE  /\ Onward(S, at) \in SUBSET PageId
         /\ S \subseteq Onward(S, at)
         /\ Onward(S, at) = S <=> Shut(S, at)
<1>1. Onward(S, at) \in SUBSET PageId
  BY PageIdFacts DEF Onward, Linking
<1>2. S \subseteq Onward(S, at) /\ (Onward(S, at) = S <=> Shut(S, at))
  BY DEF Onward, Shut
<1> QED BY <1>1, <1>2

LEMMA LeastFacts ==
  ASSUME NEW at, Linking(at), NEW S \in SUBSET PageId
  PROVE  /\ Least(S, at) \in SUBSET PageId
         /\ Shut(S, at) => Least(S, at) = S
         /\ Least(S, at) = Least(Onward(S, at), at)
<1>1. Shut(S, at) => Least(S, at) = S
  BY DEF Least
<1>2. ASSUME NEW T \in SUBSET PageId, Shut(T, at)
      PROVE  S \subseteq T <=> Onward(S, at) \subseteq T
  BY <1>2, PageIdFacts DEF Onward, Shut
<1>3. Least(S, at) = Least(Onward(S, at), at)
  BY <1>2 DEF Least
<1> QED BY <1>1, <1>3 DEF Least

\* The recursion that walks on until nothing is added.
Walks(f, at) ==
  f = [S \in SUBSET PageId |->
         IF Onward(S, at) = S THEN S ELSE f[Onward(S, at)]]

LEMMA LeastWalks ==
  ASSUME NEW at, Linking(at)
  PROVE  Walks([S \in SUBSET PageId |-> Least(S, at)], at)
<1> DEFINE f == [S \in SUBSET PageId |-> Least(S, at)]
<1>1. ASSUME NEW S \in SUBSET PageId
      PROVE  Least(S, at) = IF Onward(S, at) = S THEN S ELSE f[Onward(S, at)]
  BY OnwardFacts, LeastFacts
<1> QED BY <1>1 DEF Walks

LEMMA PagesAreFinite ==
  ASSUME NEW S \in SUBSET PageId
  PROVE  IsFiniteSet(S) /\ Cardinality(S) \in Nat
<1>1. LastPage \in Int /\ 0 \in Int
  BY HeapAssumption
<1>2. IsFiniteSet(PageId)
  BY <1>1, FS_Interval, PageIdFacts
<1>3. IsFiniteSet(S)
  BY <1>2, FS_Subset
<1> QED BY <1>3, FS_CardinalityType

LEMMA LeastNatural ==
  ASSUME NEW N \in SUBSET Nat, N # {}
  PROVE  \E n \in N : \A m \in N : n <= m
<1>1. \E n \in N : \A m \in N : ~(<<m, n>> \in OpToRel(<, Nat))
  BY NatLessThanWellFounded, WFMin
<1>2. \A m, n \in Nat : m < n => <<m, n>> \in OpToRel(<, Nat)
  BY DEF OpToRel
<1>3. \A m, n \in Nat : ~(m < n) => n <= m
  OBVIOUS
<1> QED BY <1>1, <1>2, <1>3

\* What is left out shrinks with every step of the walk, so the walk ends.
LEMMA WalkIsLeast ==
  ASSUME NEW at, Linking(at), NEW f, Walks(f, at), NEW S \in SUBSET PageId
  PROVE  f[S] = Least(S, at)
<1> DEFINE Bad == {T \in SUBSET PageId : f[T] # Least(T, at)}
           Size(T) == Cardinality(PageId \ T)
           N == {Size(T) : T \in Bad}
<1>1. \A T \in SUBSET PageId :
        f[T] = IF Onward(T, at) = T THEN T ELSE f[Onward(T, at)]
  BY DEF Walks
<1>2. ASSUME Bad # {} PROVE FALSE
  <2>1. N \in SUBSET Nat /\ N # {}
    BY <1>2, PagesAreFinite
  <2>2. PICK T \in Bad : \A U \in Bad : Size(T) <= Size(U)
    <3>1. \E n \in N : \A m \in N : n <= m
      BY <2>1, LeastNatural
    <3> QED BY <3>1
  <2>3. Onward(T, at) # T
    BY <1>1, OnwardFacts, LeastFacts
  <2> DEFINE U == Onward(T, at)
  <2>4. U \in SUBSET PageId /\ T \subseteq U /\ U # T
    BY <2>3, OnwardFacts
  <2>5. f[U] # Least(U, at)
    BY <1>1, <2>3, LeastFacts
  <2> HIDE DEF U
  <2>6. Size(U) < Size(T)
    <3> DEFINE a == PageId \ T
               b == PageId \ U
    <3>1. a \in SUBSET PageId /\ b \in SUBSET a /\ a # b
      BY <2>4
    <3> HIDE DEF a, b
    <3>2. IsFiniteSet(a) /\ Cardinality(a) \in Nat /\ Cardinality(b) \in Nat
      BY <3>1, PagesAreFinite
    <3>3. Cardinality(b) <= Cardinality(a) /\ Cardinality(a) # Cardinality(b)
      BY <3>1, <3>2, FS_Subset
    <3>4. Cardinality(b) < Cardinality(a)
      BY <3>2, <3>3
    <3> QED BY <3>4 DEF a, b
  <2>7. Size(T) <= Size(U)
    BY <2>2, <2>4, <2>5
  <2>8. Size(T) \in Nat /\ Size(U) \in Nat
    BY <2>4, PagesAreFinite
  <2> QED BY <2>6, <2>7, <2>8
<1> QED BY <1>2

LEMMA FromIsLeast ==
  ASSUME NEW at, Linking(at), NEW p \in Link
  PROVE  From(p, at) = Least({p} \ {NoPage}, at)
<1> DEFINE reached == CHOOSE f : Walks(f, at)
           S == {p} \ {NoPage}
<1>1. Walks(reached, at)
  BY LeastWalks
<1>2. S \in SUBSET PageId
  BY PageIdFacts
<1>3. From(p, at) = PageId \cap reached[S]
  BY DEF From, Walks
<1> HIDE DEF reached, S
<1>4. reached[S] = Least(S, at)
  BY <1>1, <1>2, WalkIsLeast
<1>5. Least(S, at) \in SUBSET PageId
  BY <1>2, LeastFacts
<1>6. From(p, at) = Least(S, at)
  BY <1>3, <1>4, <1>5
<1> QED BY <1>6 DEF S

\* From is the least shut set with the page in it.
LEMMA FromFacts ==
  ASSUME NEW at, Linking(at), NEW p \in Link
  PROVE  /\ From(p, at) \in SUBSET PageId
         /\ p # NoPage => p \in From(p, at)
         /\ Shut(From(p, at), at)
         /\ \A S \in SUBSET PageId : p \in S \cup {NoPage} /\ Shut(S, at) => From(p, at) \subseteq S
<1> DEFINE R == {p} \ {NoPage}
<1>1. From(p, at) = Least(R, at) /\ R \in SUBSET PageId
  BY FromIsLeast, PageIdFacts
<1>2. Least(R, at) \in SUBSET PageId /\ p # NoPage => p \in Least(R, at)
  BY <1>1 DEF Least
<1>3. Shut(Least(R, at), at)
  BY PageIdFacts DEF Least, Shut, Linking
<1> QED BY <1>1, <1>2, <1>3 DEF Least

-----------------------------------------------------------------------------
(* Links.                                                                  *)

Tabled(q) == View[q] \in TablePage

\* The file lags behind the pool by links at most, and by none on a clean page.
FileFollows ==
  \A q \in PageId :
    LET d == disk[q].data
    IN  /\ d \in TablePage <=> Tabled(q)
        /\ d.next_page_id \in {NoPage, View[q].next_page_id}
        /\ pages[q] # NoFrame /\ ~pages[q].dirty =>
             d.next_page_id = View[q].next_page_id

\* No page of a table names p.
Unnamed(p) == \A q \in PageId : Tabled(q) => View[q].next_page_id # p

\* Links go up, to pages of tables, and no two to the same page.
LinksAscend ==
  \A q \in PageId : Tabled(q) /\ View[q].next_page_id # NoPage =>
    q < View[q].next_page_id /\ Tabled(View[q].next_page_id)
LinksApart ==
  \A p, q \in PageId :
    /\ Tabled(p) /\ Tabled(q)
    /\ View[p].next_page_id = View[q].next_page_id /\ View[p].next_page_id # NoPage
    => p = q

FirstPages ==
  /\ \A h \in Heap : first_page[h] # NoPage =>
       Tabled(first_page[h]) /\ Unnamed(first_page[h])
  /\ \A g, h \in Heap : first_page[g] = first_page[h] /\ first_page[g] # NoPage => g = h

\* The end of a chain, and the page it is about to get.
EndIsFree ==
  /\ op.step = "walk" /\ op.page = NoPage => View[op.prev].next_page_id = NoPage
  /\ op.step \in {"fetchPrev", "link"} =>
       /\ View[op.prev].next_page_id = NoPage
       /\ op.prev < op.page
       /\ Unnamed(op.page)
       /\ \A h \in Heap : first_page[h] # op.page

PagesLinked == FileFollows /\ LinksAscend /\ LinksApart
Linked == PagesLinked /\ FirstPages /\ EndIsFree

-----------------------------------------------------------------------------
(* Pages move between the pool and the file.                               *)

\* No page changes its contents, and a page that is clean is so for a reason.
Quietly ==
  \A q \in PageId :
    /\ disk'[q] = disk[q] \/ (pages[q] # NoFrame /\ disk'[q].data = pages[q].data)
    /\ pages'[q] # NoFrame =>
         IF pages[q] # NoFrame THEN pages'[q].data = pages[q].data
         ELSE pages'[q] = disk'[q] /\ disk'[q] = disk[q]
    /\ pages'[q] # NoFrame /\ ~pages'[q].dirty =>
         \/ disk'[q].data = pages'[q].data
         \/ pages[q] # NoFrame /\ ~pages[q].dirty /\ disk'[q] = disk[q]

\* What leaves the pool dirty is in the file.
NothingLost ==
  \A q \in PageId : pages[q] # NoFrame /\ pages'[q] = NoFrame /\ pages[q].dirty =>
    disk'[q].data = pages[q].data

LEMMA ViewFacts ==
  /\ \A q \in PageId : View[q] = IF pages[q] # NoFrame THEN pages[q].data ELSE disk[q].data
  /\ \A q \in PageId : View'[q] = IF pages'[q] # NoFrame THEN pages'[q].data ELSE disk'[q].data
  /\ \A q \in PageId : BPM!StableView[q] = disk[q].data
  /\ \A q \in PageId : BPM!StableView'[q] = disk'[q].data
  BY DEF View, BPM!StoreView, BPM!StableView, BPM!Cached, PageId

LEMMA ViewTypes ==
  ASSUME Inv, NEW q \in PageId
  PROVE  /\ View[q].next_page_id \in Link
         /\ View[q] \in TablePage \/ View[q] = ZeroedPage
         /\ Len(View[q].slots) \in Nat /\ \A i \in DOMAIN View[q].slots : i \in Nat
  BY ViewFacts, DataFacts, ImageFacts DEF Inv, PoolInv

LEMMA StillQuiet ==
  ASSUME UNCHANGED <<disk, pages>>
  PROVE  Quietly /\ NothingLost
  BY DEF Quietly, NothingLost

LEMMA FetchQuiet ==
  ASSUME Inv, NEW p \in PageId, Fetch(p)
  PROVE  Quietly /\ NothingLost
<1>0. PoolInv
  BY DEF Inv
<1>1. CASE BPM!FetchHit(p)
  BY <1>1, StillQuiet DEF BPM!FetchHit
<1>2. CASE BPM!FetchMiss(p)
  <2> DEFINE w == BPM!WrittenBack
             v == BPM!Victim
             reads == BPM!Readable(p, w)
  <2>1. /\ pages[p] = NoFrame
        /\ disk' = BPM!DiskAfterEviction
        /\ pages' = [q \in PageId |-> IF q = p /\ reads THEN disk'[p]
                                      ELSE IF q = v THEN NoFrame ELSE pages[q]]
    BY <1>2 DEF BPM!FetchMiss, PageId, BPM!Cached
  <2>2. \A q \in PageId : disk'[q] = IF q = w THEN pages[q] ELSE disk[q]
    <3>1. BPM!INVALID_PAGE_ID \notin PageId
      BY PageIdFacts DEF BPM!INVALID_PAGE_ID, NoPage
    <3> QED BY <2>1, <3>1 DEF BPM!DiskAfterEviction, BPM!DiskAfter, PageId
  <2>3. \A q \in PageId : q = w => q = v /\ pages[q] # NoFrame
    <3>1. BPM!INVALID_PAGE_ID \notin PageId
      BY PageIdFacts DEF BPM!INVALID_PAGE_ID, NoPage
    <3> QED BY <3>1 DEF BPM!WrittenBack, BPM!Dirty, BPM!Cached
  <2>4. \A q \in PageId : q = v /\ pages[q] # NoFrame /\ pages[q].dirty => q = w
    <3>1. BPM!INVALID_PAGE_ID \notin PageId
      BY PageIdFacts DEF BPM!INVALID_PAGE_ID, NoPage
    <3> QED BY <3>1 DEF BPM!WrittenBack, BPM!Dirty, BPM!Cached, BPM!Victim
  <2> HIDE DEF w, v, reads
  <2>5. \A q \in PageId : pages'[q] = IF q = p /\ reads THEN disk'[q]
                                      ELSE IF q = v THEN NoFrame ELSE pages[q]
    BY <2>1
  <2>6. disk'[p] = disk[p]
    BY <2>1, <2>2, <2>3
  <2>7. Quietly
    BY <2>1, <2>2, <2>3, <2>5, <2>6 DEF Quietly
  <2>8. NothingLost
    BY <2>1, <2>2, <2>4, <2>5 DEF NothingLost
  <2> QED BY <2>7, <2>8
<1> QED BY <1>1, <1>2 DEF Fetch

LEMMA FlushQuiet ==
  ASSUME Inv, NEW p \in PageId, BPM!FlushPage(p) \/ BPM!FlushOne(p)
  PROVE  Quietly /\ NothingLost
<1>1. /\ pages[p] # NoFrame
      /\ disk' = BPM!DiskAfter(p, pages[p])
      /\ pages' = [pages EXCEPT ![p].dirty = FALSE]
  BY DEF BPM!FlushPage, BPM!FlushOne, BPM!WritePage, BPM!Dirty, BPM!Cached
<1>2. /\ pages[p] \in Good /\ pages \in [PageId -> Good \cup {NoFrame}]
      /\ disk \in [PageId -> Good]
  BY <1>1 DEF Inv, PoolInv
<1>3. \A q \in PageId : disk'[q] = IF q = p THEN pages[p] ELSE disk[q]
  BY <1>1, <1>2 DEF BPM!DiskAfter, PageId
<1>4. [pages[p] EXCEPT !.dirty = FALSE].data = pages[p].data
      /\ [pages[p] EXCEPT !.dirty = FALSE] # NoFrame
  BY <1>2, ImageFacts
<1>5. /\ pages'[p] = [pages[p] EXCEPT !.dirty = FALSE]
      /\ \A q \in PageId : q # p => pages'[q] = pages[q]
  BY <1>1, <1>2
<1>6. pages'[p].data = pages[p].data /\ pages'[p] # NoFrame
  BY <1>4, <1>5
<1> QED BY <1>1, <1>3, <1>5, <1>6 DEF Quietly, NothingLost

LEMMA FailQuiet ==
  ASSUME Inv, \/ BPM!FlushFails \/ BPM!NewPageFails \/ BPM!EvictionFails
              \/ BPM!BeginClose \/ BPM!FlushAllFails \/ BPM!EndClose
              \/ BPM!Crash \/ BPM!Open
  PROVE  /\ Quietly
         /\ ~BPM!EvictionFails /\ ~BPM!Crash => NothingLost
         /\ disk' = disk
         /\ \A q \in PageId : pages'[q] \in {pages[q], NoFrame}
<1>1. CASE \/ BPM!FlushFails \/ BPM!NewPageFails \/ BPM!BeginClose \/ BPM!FlushAllFails
           \/ BPM!Open
  <2>1. UNCHANGED <<disk, pages>>
    BY <1>1 DEF BPM!FlushFails, BPM!NewPageFails, BPM!BeginClose, BPM!FlushAllFails,
                BPM!Open, BPM!OpenFile, BPM!WriteError
  <2> QED BY <2>1, StillQuiet
<1>2. CASE BPM!EvictionFails
  <2>1. /\ disk' = disk
        /\ \A q \in PageId : pages'[q] \in {pages[q], NoFrame}
    BY <1>2 DEF BPM!EvictionFails, BPM!WriteError, Inv, PoolInv
  <2> QED BY <1>2, <2>1 DEF Quietly
<1>3. CASE BPM!EndClose \/ BPM!Crash
  <2>1. /\ disk' = disk
        /\ \A q \in PageId : pages'[q] = NoFrame
        /\ BPM!EndClose => \A q \in PageId : ~BPM!Dirty(q)
    BY <1>3 DEF BPM!EndClose, BPM!Crash, BPM!EmptyPool, PageId
  <2>2. Quietly
    BY <2>1 DEF Quietly
  <2>3. BPM!EndClose => NothingLost
    BY <2>1 DEF NothingLost, BPM!Dirty, BPM!Cached
  <2> QED BY <1>3, <2>1, <2>2, <2>3
<1> QED BY <1>1, <1>2, <1>3

-----------------------------------------------------------------------------
(* Links under the steps of the pool.                                      *)

\* Pages keep their kind; a link may be lost, none is changed.
LinksShrink ==
  \A q \in PageId :
    /\ Tabled(q)' <=> Tabled(q)
    /\ View'[q].next_page_id \in {NoPage, View[q].next_page_id}

LinksStay ==
  \A q \in PageId :
    /\ Tabled(q)' <=> Tabled(q)
    /\ View'[q].next_page_id = View[q].next_page_id

LEMMA QuietLinks ==
  ASSUME FileFollows, Quietly
  PROVE  FileFollows' /\ LinksShrink /\ (NothingLost => LinksStay)
<1>1. ASSUME NEW q \in PageId
      PROVE  LET d == disk'[q].data
             IN  /\ d \in TablePage <=> Tabled(q)'
                 /\ d.next_page_id \in {NoPage, View'[q].next_page_id}
                 /\ pages'[q] # NoFrame /\ ~pages'[q].dirty =>
                      d.next_page_id = View'[q].next_page_id
                 /\ Tabled(q)' <=> Tabled(q)
                 /\ View'[q].next_page_id \in {NoPage, View[q].next_page_id}
                 /\ NothingLost => View'[q].next_page_id = View[q].next_page_id
  <2> DEFINE d == disk[q].data
             e == disk'[q].data
             v == View[q]
             u == View'[q]
  <2>1. /\ d \in TablePage <=> v \in TablePage
        /\ d.next_page_id \in {NoPage, v.next_page_id}
        /\ pages[q] # NoFrame /\ ~pages[q].dirty => d.next_page_id = v.next_page_id
    BY DEF FileFollows, Tabled
  <2>2. /\ v = IF pages[q] # NoFrame THEN pages[q].data ELSE d
        /\ u = IF pages'[q] # NoFrame THEN pages'[q].data ELSE e
    BY ViewFacts
  <2>3. /\ e = d \/ (pages[q] # NoFrame /\ e = pages[q].data)
        /\ pages'[q] # NoFrame =>
             IF pages[q] # NoFrame THEN pages'[q].data = pages[q].data
             ELSE pages'[q].data = e /\ e = d
        /\ pages'[q] # NoFrame /\ ~pages'[q].dirty =>
             \/ e = pages'[q].data
             \/ pages[q] # NoFrame /\ ~pages[q].dirty /\ e = d
    BY DEF Quietly
  <2>4. NothingLost => (pages[q] # NoFrame /\ pages'[q] = NoFrame /\ pages[q].dirty => e = pages[q].data)
    BY DEF NothingLost
  <2>5. Tabled(q)' <=> u \in TablePage
    BY DEF Tabled
  <2> HIDE DEF d, e, u, v
  <2>6. /\ e \in TablePage <=> u \in TablePage
        /\ e.next_page_id \in {NoPage, u.next_page_id}
        /\ u \in TablePage <=> v \in TablePage
        /\ u.next_page_id \in {NoPage, v.next_page_id}
    BY <2>1, <2>2, <2>3
  <2>7. pages'[q] # NoFrame /\ ~pages'[q].dirty => e.next_page_id = u.next_page_id
    BY <2>1, <2>2, <2>3
  <2>8. NothingLost => u.next_page_id = v.next_page_id
    BY <2>1, <2>2, <2>3, <2>4
  <2> QED BY <2>5, <2>6, <2>7, <2>8 DEF d, e, u, v, Tabled
<1> QED BY <1>1 DEF FileFollows, LinksShrink, LinksStay

\* What is said of links, and of who is not named, stays true of fewer links.
LEMMA FewerLinks ==
  ASSUME Inv, LinksAscend, LinksApart, LinksShrink
  PROVE  /\ LinksAscend' /\ LinksApart'
         /\ \A p \in PageId : Unnamed(p) => Unnamed(p)'
<1>1. \A q \in PageId : View[q].next_page_id \in Link
  BY ViewFacts, DataFacts DEF Inv, PoolInv
<1>2. LinksAscend'
  BY <1>1, PageIdFacts DEF LinksAscend, LinksShrink
<1>3. LinksApart'
  BY <1>1 DEF LinksApart, LinksShrink
<1>4. \A p \in PageId : Unnamed(p) => Unnamed(p)'
  BY PageIdFacts DEF Unnamed, LinksShrink
<1> QED BY <1>2, <1>3, <1>4

LEMMA FirstPagesStay ==
  ASSUME Inv, LinksAscend, LinksApart, LinksShrink, FirstPages, first_page' = first_page
  PROVE  FirstPages'
<1>1. \A h \in Heap : first_page[h] \in Link
  BY DEF Inv, CallInv
<1>2. ASSUME NEW h \in Heap, first_page[h] # NoPage
      PROVE  Tabled(first_page[h])' /\ Unnamed(first_page[h])'
  <2>1. first_page[h] \in PageId /\ Tabled(first_page[h]) /\ Unnamed(first_page[h])
    BY <1>1, <1>2, PageIdFacts DEF FirstPages
  <2>2. \A x \in PageId : (Tabled(x) => Tabled(x)') /\ (Unnamed(x) => Unnamed(x)')
    BY FewerLinks DEF LinksShrink
  <2>3. \E x \in PageId : x = first_page[h] /\ Tabled(x)' /\ Unnamed(x)'
    BY <2>1, <2>2
  <2> QED BY <2>3 DEF Tabled, Unnamed
<1> QED BY <1>2 DEF FirstPages

-----------------------------------------------------------------------------
(* What a new page, and a write to a page, do to the images.               *)

LEMMA NewPageEffect ==
  ASSUME Reach, NEW p \in PageId, BPM!NewPage(p)
  PROVE  /\ p = next_page_id /\ pages[p] = NoFrame /\ disk[p].data = ZeroedPage
         /\ disk'[p] = [data |-> EmptyPage, dirty |-> FALSE]
         /\ pages'[p] = disk'[p] /\ pages'[p] # NoFrame
         /\ \A q \in PageId \ {p} : disk'[q] = disk[q] /\ pages'[q] = pages[q]
         /\ View'[p] = EmptyPage /\ \A q \in PageId \ {p} : View'[q] = View[q]
<1> DEFINE img == [data |-> EmptyPage, dirty |-> FALSE]
<1>1. /\ p = next_page_id /\ mode = "open"
      /\ disk' = BPM!DiskAfter(p, img) /\ pages' = [pages EXCEPT ![p] = img]
  BY DEF BPM!NewPage
<1>2. /\ PoolInv /\ img # NoFrame /\ img.data = EmptyPage /\ FileHoldsAll
  BY ImageFacts DEF Reach, Inv, PoolReach
<1> HIDE DEF img
<1>3. /\ disk \in [PageId -> Good] /\ pages \in [PageId -> Good \cup {NoFrame}]
      /\ file_pages <= next_page_id /\ file_pages \in Nat /\ next_page_id \in Nat
  BY <1>1, <1>2 DEF PoolInv, FileHoldsAll
<1>4. pages[p] = NoFrame
  BY <1>1, <1>2, NewPageStep DEF Cached, BPM!Cached
<1>5. disk[p].data = ZeroedPage
  BY <1>1, <1>2, <1>3 DEF FileHoldsAll
<1>6. /\ disk'[p] = img /\ pages'[p] = img
      /\ \A q \in PageId \ {p} : disk'[q] = disk[q] /\ pages'[q] = pages[q]
  BY <1>1, <1>3 DEF BPM!DiskAfter, PageId
<1>7. View'[p] = EmptyPage /\ \A q \in PageId \ {p} : View'[q] = View[q]
  BY <1>2, <1>6, ViewFacts
<1> QED BY <1>1, <1>2, <1>4, <1>5, <1>6, <1>7 DEF img

\* A write gives a page of the pool other contents, and leaves it dirty if it was.
Rewrites(p, d) ==
  /\ disk' = disk
  /\ pages[p] # NoFrame /\ pages'[p] # NoFrame /\ pages'[p].data = d
  /\ pages[p].dirty => pages'[p].dirty
  /\ \A q \in PageId \ {p} : pages'[q] = pages[q]
  /\ View[p] = Page(p) /\ View'[p] = d /\ \A q \in PageId \ {p} : View'[q] = View[q]

LEMMA WriteEffect ==
  ASSUME Inv, NEW p \in PageId, NEW d \in TablePage, WellFormed(d), BPM!Write(p, d)
  PROVE  Rewrites(p, d) /\ pages'[p].dirty
<1>1. /\ disk' = disk /\ pages[p] # NoFrame
      /\ pages' = [pages EXCEPT ![p] = [data |-> d, dirty |-> TRUE]]
  BY DEF BPM!Write, BPM!Cached
<1>2. [data |-> d, dirty |-> TRUE] # NoFrame /\ pages \in [PageId -> Good \cup {NoFrame}]
  BY ImageFacts DEF Inv, PoolInv
<1>3. /\ pages'[p] = [data |-> d, dirty |-> TRUE]
      /\ \A q \in PageId \ {p} : pages'[q] = pages[q]
  BY <1>1, <1>2
<1>4. pages'[p].data = d /\ pages'[p].dirty /\ pages'[p] # NoFrame
  BY <1>2, <1>3
<1>5. View[p] = Page(p) /\ View'[p] = d /\ \A q \in PageId \ {p} : View'[q] = View[q]
  BY <1>1, <1>3, <1>4, ViewFacts DEF Page
<1> QED BY <1>1, <1>3, <1>4, <1>5 DEF Rewrites

LEMMA KillEffect ==
  ASSUME Inv, Kill
  PROVE  LET p == op.row.page
             d == MarkDead(Page(p), op.row.slot)
         IN  /\ p \in PageId /\ Rewrites(p, d) /\ Page(p) \in TablePage /\ d \in TablePage
             /\ d.next_page_id = Page(p).next_page_id
             /\ op.row.slot \in DOMAIN Page(p).slots
<1> DEFINE p == op.row.page
           d == MarkDead(Page(p), op.row.slot)
<1>1. op \in VictimOp /\ op.step = "kill" /\ p \in PageId
  BY OpFacts DEF Kill, Inv, VictimOp, RowType
<1>2. Holds(p) /\ op.row.slot \in DOMAIN Page(p).slots
  BY <1>1 DEF Inv, Locals, RowIsThere
<1>3. Page(p) \in TablePage /\ WellFormed(Page(p)) /\ pages[p] \in Good
  <2>1. pages[p] \in Good
    BY <1>2 DEF Inv, PoolInv, Holds
  <2>2. Page(p) # ZeroedPage
    BY <1>2 DEF ZeroedPage
  <2> QED BY <2>1, <2>2, ImageFacts DEF Page
<1>4. d \in TablePage /\ WellFormed(d)
  BY <1>2, <1>3, MarkDeadKeepsLayout DEF TablePage
<1>5. d.next_page_id = Page(p).next_page_id
  BY <1>3 DEF TablePage, PageOf, MarkDead
<1>6. pages' = [pages EXCEPT ![p].data = d] /\ disk' = disk
  BY DEF Kill, Page
<1> HIDE DEF p, d
<1>7. /\ pages'[p] = [pages[p] EXCEPT !.data = d]
      /\ \A q \in PageId \ {p} : pages'[q] = pages[q]
  BY <1>1, <1>6 DEF Inv, PoolInv
<1>8. [pages[p] EXCEPT !.data = d] \in Good
  BY <1>3, <1>4 DEF Good, Image
<1>9. /\ pages'[p] # NoFrame /\ pages'[p].data = d /\ pages'[p].dirty = pages[p].dirty
      /\ pages[p] # NoFrame
  BY <1>2, <1>3, <1>7, <1>8, ImageFacts DEF Good, Image, Holds
<1>10. View[p] = Page(p) /\ View'[p] = d /\ \A q \in PageId \ {p} : View'[q] = View[q]
  BY <1>1, <1>6, <1>7, <1>9, ViewFacts DEF Page
<1>11. Rewrites(p, d)
  BY <1>6, <1>7, <1>9, <1>10 DEF Rewrites
<1> QED BY <1>1, <1>2, <1>3, <1>4, <1>5, <1>11 DEF p, d

LEMMA OverwriteEffect ==
  ASSUME Inv, OverwriteRow
  PROVE  LET p == op.row.page
             d == Overwrite(Page(p), op.row.slot, op.tuple)
         IN  /\ p \in PageId /\ Rewrites(p, d) /\ Page(p) \in TablePage /\ d \in TablePage
             /\ pages'[p].dirty
             /\ d.next_page_id = Page(p).next_page_id
             /\ op.row.slot \in DOMAIN Page(p).slots
<1> DEFINE p == op.row.page
           d == Overwrite(Page(p), op.row.slot, op.tuple)
<1>1. /\ op \in UpdateOp /\ op.step = "overwrite" /\ p \in PageId
      /\ op.row.slot \in Nat /\ op.tuple \in Tuples
  BY OpFacts DEF OverwriteRow, Inv, UpdateOp, RowType
<1>2. /\ Holds(p) /\ op.row.slot \in DOMAIN Page(p).slots
      /\ Page(p).slots[op.row.slot].tuple.size = op.tuple.size
  BY <1>1 DEF Inv, Locals, RowIsThere
<1>3. Page(p) \in TablePage /\ WellFormed(Page(p))
  <2>1. pages[p] \in Good
    BY <1>2 DEF Inv, PoolInv, Holds
  <2>2. Page(p) # ZeroedPage
    BY <1>2 DEF ZeroedPage
  <2> QED BY <2>1, <2>2, ImageFacts DEF Page
<1>4. op.tuple.size <= Page(p).slots[op.row.slot].tuple_length
  BY <1>2, <1>3 DEF WellFormed
<1>5. d \in TablePage /\ WellFormed(d)
  BY <1>1, <1>2, <1>3, <1>4, OverwriteKeepsLayout DEF TablePage
<1>6. d.next_page_id = Page(p).next_page_id
  BY <1>3 DEF TablePage, PageOf, Overwrite
<1>7. BPM!Write(p, d)
  BY DEF OverwriteRow
<1> HIDE DEF d
<1>8. Rewrites(p, d) /\ pages'[p].dirty
  BY <1>1, <1>5, <1>7, WriteEffect
<1> QED BY <1>1, <1>2, <1>3, <1>5, <1>6, <1>8 DEF d

\* The page InsertTuple puts its tuple in, and what it makes of it.
LEMMA PutEffect ==
  ASSUME TuplesFit, Inv, Put
  PROVE  \E pg \in TablePage :
           /\ op.page \in PageId /\ Page(op.page) \in TablePage
           /\ pg.next_page_id = Page(op.page).next_page_id
           /\ pg.slots = Page(op.page).slots
           /\ PutTuple(pg, op.tuple) \in TablePage
           /\ PutTuple(pg, op.tuple).next_page_id = pg.next_page_id
           /\ Rewrites(op.page, PutTuple(pg, op.tuple)) /\ pages'[op.page].dirty
<1> DEFINE pg == IF IsNewPage THEN [Page(op.page) EXCEPT !.prev_page_id = op.prev]
                 ELSE Page(op.page)
           d == PutTuple(pg, op.tuple)
<1>1. op \in InsertOp /\ op.step = "put" /\ op.tuple \in Tuples /\ op.prev \in Link
  BY OpFacts DEF Put, Inv, InsertOp
<1>2. Holds(op.page) /\ Page(op.page) \in TablePage /\ Takes(Page(op.page), op.tuple)
  BY <1>1 DEF Inv, Locals, RoomIsThere
<1>3. WellFormed(Page(op.page))
  BY <1>2, ImageFacts DEF Inv, PoolInv, Holds, Page
<1>4. /\ pg \in TablePage /\ WellFormed(pg) /\ Takes(pg, op.tuple)
      /\ pg.next_page_id = Page(op.page).next_page_id
      /\ pg.slots = Page(op.page).slots
  <2>1. CASE IsNewPage
    BY <1>1, <1>2, <1>3, <2>1, LinkedPage DEF TablePage, PageOf
  <2>2. CASE ~IsNewPage
    BY <1>2, <1>3, <2>2
  <2> QED BY <2>1, <2>2
<1>5. BPM!Write(op.page, d)
  BY DEF Put
<1> HIDE DEF pg
<1>6. d \in TablePage /\ WellFormed(d)
  BY <1>1, <1>4, PutKeepsLayout DEF TablePage
<1>7. d.next_page_id = pg.next_page_id
  BY <1>4 DEF TablePage, PageOf, PutTuple
<1> HIDE DEF d
<1>8. Rewrites(op.page, d) /\ pages'[op.page].dirty
  BY <1>2, <1>5, <1>6, WriteEffect DEF Holds
<1> QED BY <1>2, <1>4, <1>6, <1>7, <1>8 DEF d, Holds

LEMMA LinkEffect ==
  ASSUME Inv, LinkPrev
  PROVE  LET d == [Page(op.prev) EXCEPT !.next_page_id = op.page]
         IN  /\ op \in InsertOp /\ op.page \in PageId /\ op.prev \in PageId
             /\ op.prev # op.page /\ View[op.page] = EmptyPage
             /\ Page(op.prev) \in TablePage /\ d \in TablePage
             /\ d.next_page_id = op.page /\ d.slots = Page(op.prev).slots
             /\ Rewrites(op.prev, d) /\ pages'[op.prev].dirty
<1> DEFINE d == [Page(op.prev) EXCEPT !.next_page_id = op.page]
<1>1. op \in InsertOp /\ op.step = "link"
  BY OpFacts DEF LinkPrev, Inv
<1>2. /\ Holds(op.prev) /\ Page(op.prev) \in TablePage /\ op.prev # op.page
      /\ Holds(op.page) /\ Page(op.page) = EmptyPage
  BY <1>1 DEF Inv, Locals, NewPageHeld
<1>3. WellFormed(Page(op.prev))
  BY <1>2, ImageFacts DEF Inv, PoolInv, Holds, Page
<1>4. d \in TablePage /\ WellFormed(d)
  BY <1>2, <1>3, LinkedPage, PageIdFacts DEF Holds
<1>5. d.next_page_id = op.page /\ d.slots = Page(op.prev).slots
  BY <1>2 DEF TablePage, PageOf
<1>6. BPM!Write(op.prev, d)
  BY DEF LinkPrev
<1> HIDE DEF d
<1>7. Rewrites(op.prev, d) /\ pages'[op.prev].dirty
  BY <1>2, <1>4, <1>6, WriteEffect DEF Holds
<1>8. View[op.page] = EmptyPage
  BY <1>2, ViewFacts DEF Holds, Page
<1> QED BY <1>1, <1>2, <1>4, <1>5, <1>7, <1>8 DEF d, Holds

-----------------------------------------------------------------------------
(* Links under new pages and writes.                                       *)

LEMMA NewPageLinks ==
  ASSUME Reach, Linked, NEW p \in PageId, BPM!NewPage(p)
  PROVE  /\ PagesLinked' /\ Unnamed(p) /\ Unnamed(p)' /\ ~Tabled(p) /\ Tabled(p)'
         /\ \A q \in PageId \ {p} : /\ View'[q] = View[q] /\ (Tabled(q)' <=> Tabled(q))
                                    /\ Unnamed(q) => Unnamed(q)'
         /\ \A h \in Heap : first_page[h] # p
<1>1. /\ View[p] = ZeroedPage /\ View'[p] = EmptyPage
      /\ disk'[p].data = EmptyPage /\ pages'[p] = disk'[p] /\ pages'[p] # NoFrame
      /\ \A q \in PageId \ {p} : /\ disk'[q] = disk[q] /\ pages'[q] = pages[q]
                                 /\ View'[q] = View[q]
  BY NewPageEffect, ViewFacts
<1>2. ~Tabled(p) /\ Tabled(p)'
  BY <1>1, ZeroedPageIsNoTable, ImageFacts DEF Tabled
<1>3. p # NoPage /\ EmptyPage.next_page_id = NoPage
  BY PageIdFacts DEF EmptyPage
<1>4. Unnamed(p)
  BY <1>2, <1>3 DEF Linked, PagesLinked, LinksAscend, Unnamed
<1>5. \A q \in PageId \ {p} : Tabled(q)' <=> Tabled(q)
  BY <1>1 DEF Tabled
<1>6. \A x \in PageId : Unnamed(x) => Unnamed(x)'
  BY <1>1, <1>3, <1>5, PageIdFacts DEF Unnamed
<1>7. FileFollows'
  <2> DEFINE Follows(d, v, f) ==
               /\ d \in TablePage <=> v \in TablePage
               /\ d.next_page_id \in {NoPage, v.next_page_id}
               /\ f # NoFrame /\ ~f.dirty => d.next_page_id = v.next_page_id
  <2>1. \A q \in PageId : Follows(disk[q].data, View[q], pages[q])
    BY DEF Linked, PagesLinked, FileFollows, Tabled
  <2>2. Follows(EmptyPage, EmptyPage, pages'[p])
    OBVIOUS
  <2>3. \A q \in PageId : Follows(disk'[q].data, View'[q], pages'[q])
    <3> HIDE DEF Follows
    <3> QED BY <1>1, <2>1, <2>2
  <2> QED BY <2>3 DEF FileFollows, Tabled
<1>8. LinksAscend'
  <2>1. ASSUME NEW q \in PageId, Tabled(q)', View'[q].next_page_id # NoPage
        PROVE  q < View'[q].next_page_id /\ View'[View'[q].next_page_id] \in TablePage
    <3> DEFINE n == View'[q].next_page_id
    <3>1. q # p
      BY <1>1, <1>3, <2>1
    <3>2. n = View[q].next_page_id /\ Tabled(q) /\ n \in PageId
      BY <1>1, <1>5, <2>1, <3>1, ViewTypes, PageIdFacts DEF Reach
    <3>3. q < n /\ Tabled(n)
      BY <2>1, <3>2 DEF Linked, PagesLinked, LinksAscend
    <3> HIDE DEF n
    <3>4. View'[n] \in TablePage
      BY <1>1, <1>2, <3>2, <3>3 DEF Tabled
    <3> QED BY <3>3, <3>4 DEF n
  <2> QED BY <2>1 DEF LinksAscend, Tabled
<1>9. LinksApart'
  BY <1>1, <1>3, <1>5 DEF Linked, PagesLinked, LinksApart
<1>10. \A h \in Heap : first_page[h] # p
  BY <1>2, <1>3 DEF Linked, FirstPages
<1> QED BY <1>1, <1>2, <1>4, <1>5, <1>6, <1>7, <1>8, <1>9, <1>10 DEF PagesLinked

\* A write that leaves the link of its page alone.
LEMMA RewriteLinks ==
  ASSUME FileFollows, NEW p \in PageId, NEW d \in TablePage, Page(p) \in TablePage,
         d.next_page_id = Page(p).next_page_id, Rewrites(p, d)
  PROVE  FileFollows' /\ LinksShrink /\ LinksStay
<1>1. /\ disk' = disk /\ pages[p] # NoFrame /\ pages'[p] # NoFrame
      /\ pages[p].dirty => pages'[p].dirty
      /\ View[p] = Page(p) /\ View'[p] = d
      /\ \A q \in PageId \ {p} : View'[q] = View[q] /\ pages'[q] = pages[q]
  BY DEF Rewrites
<1>2. LinksStay
  BY <1>1 DEF LinksStay, Tabled
<1>3. FileFollows'
  BY <1>1, <1>2 DEF FileFollows, LinksStay
<1> QED BY <1>2, <1>3 DEF LinksStay, LinksShrink

-----------------------------------------------------------------------------
(* Links under the steps of the heap.                                      *)

LEMMA LinkedStep ==
  ASSUME Reach, Linked, first_page' = first_page, FileFollows', LinksShrink, EndIsFree'
  PROVE  Linked'
<1>1. LinksAscend' /\ LinksApart'
  BY FewerLinks DEF Reach, Linked, PagesLinked
<1>2. FirstPages'
  BY FirstPagesStay DEF Reach, Linked, PagesLinked
<1> QED BY <1>1, <1>2 DEF Linked, PagesLinked

LEMMA QuietLinked ==
  ASSUME Reach, Linked, first_page' = first_page, Quietly, EndIsFree'
  PROVE  Linked'
  BY QuietLinks, LinkedStep DEF Linked, PagesLinked

LEMMA NoEnd ==
  ASSUME op'.step \notin {"fetchPrev", "link"}, op'.step = "walk" => op'.page # NoPage
  PROVE  EndIsFree'
  BY DEF EndIsFree

LEMMA IdleHasNoEnd ==
  ASSUME op' = Idle
  PROVE  EndIsFree'
  BY NoEnd DEF Idle

LEMMA WalkLinked ==
  ASSUME Reach, Linked, WalkPage
  PROVE  Linked'
<1>1. op \in InsertOp /\ op.step = "walk" /\ op.page \in PageId
  BY OpFacts, PageIdFacts DEF WalkPage, Reach, Inv, InsertOp
<1>2. Quietly /\ first_page' = first_page
  BY <1>1, FetchQuiet DEF WalkPage, Reach
<1>3. EndIsFree'
  <2> DEFINE k == PageRead(op.page).next_page_id
  <2>1. \/ op' = Idle
        \/ op' = [op EXCEPT !.step = "put"]
        \/ op' = [op EXCEPT !.prev = op.page, !.page = k] /\ Fetched(op.page)
    BY DEF WalkPage, Goto, Return
  <2>2. Fetched(op.page) => k = View'[op.page].next_page_id
    BY <1>1, ViewFacts DEF Fetched, PageRead
  <2> HIDE DEF k
  <2>3. CASE op' = [op EXCEPT !.step = "put"]
    <3>1. op'.step = "put"
      BY <1>1, <2>3 DEF InsertOp
    <3> QED BY <3>1, NoEnd
  <2>4. CASE op' = [op EXCEPT !.prev = op.page, !.page = k] /\ Fetched(op.page)
    <3>1. op'.step = "walk" /\ op'.page = k /\ op'.prev = op.page
      BY <1>1, <2>4 DEF InsertOp
    <3> QED BY <2>2, <2>4, <3>1 DEF EndIsFree
  <2> QED BY <2>1, <2>3, <2>4, IdleHasNoEnd
<1> QED BY <1>2, <1>3, QuietLinked

\* A new page is nobody's first page yet.
LEMMA OtherFirstPages ==
  ASSUME Inv, FirstPages, NEW p \in PageId, first_page' = first_page,
         \A q \in PageId \ {p} : /\ Tabled(q)' <=> Tabled(q)
                                 /\ Unnamed(q) => Unnamed(q)',
         \A h \in Heap : first_page[h] # p
  PROVE  FirstPages'
<1>1. ASSUME NEW h \in Heap, first_page[h] # NoPage
      PROVE  Tabled(first_page[h])' /\ Unnamed(first_page[h])'
  <2>1. first_page[h] \in PageId \ {p} /\ Tabled(first_page[h]) /\ Unnamed(first_page[h])
    BY <1>1, PageIdFacts DEF FirstPages, Inv, CallInv
  <2>2. \E x \in PageId : x = first_page[h] /\ Tabled(x)' /\ Unnamed(x)'
    BY <2>1
  <2> QED BY <2>2 DEF Tabled, Unnamed
<1> QED BY <1>1 DEF FirstPages

LEMMA ExtendLinked ==
  ASSUME Reach, Linked, ExtendChain
  PROVE  Linked'
<1>1. op \in InsertOp /\ op.step = "walk" /\ op.page = NoPage
  BY OpFacts DEF ExtendChain, Reach, Inv
<1>2. op.prev \in PageId /\ pages[op.prev] # NoFrame /\ View[op.prev].next_page_id = NoPage
  BY <1>1 DEF Reach, Inv, Locals, EndOfChain, Holds, Linked, EndIsFree
<1>3. PICK p \in PageId :
        BPM!NewPage(p) /\ op' = [op EXCEPT !.step = "fetchPrev", !.page = p]
  BY DEF ExtendChain
<1>4. op'.step = "fetchPrev" /\ op'.page = p /\ op'.prev = op.prev
  BY <1>1, <1>3 DEF InsertOp
<1>5. /\ PagesLinked' /\ Unnamed(p)'
      /\ \A q \in PageId \ {p} : /\ View'[q] = View[q] /\ (Tabled(q)' <=> Tabled(q))
                                 /\ Unnamed(q) => Unnamed(q)'
      /\ \A h \in Heap : first_page[h] # p
      /\ ~Tabled(p)
  BY <1>3, NewPageLinks
<1>6. p = next_page_id /\ pages[p] = NoFrame
  BY <1>3, NewPageEffect
<1>7. op.prev < p
  BY <1>2, <1>6, ResidentIsAllocated DEF Reach, Inv
<1>8. EndIsFree'
  <2>1. View'[op.prev].next_page_id = NoPage
    BY <1>2, <1>5, <1>6
  <2>2. first_page' = first_page
    BY DEF ExtendChain
  <2>3. Unnamed(op.page)'
    BY <1>4, <1>5 DEF Unnamed, Tabled
  <2> QED BY <1>4, <1>5, <1>7, <2>1, <2>2, <2>3 DEF EndIsFree
<1>9. FirstPages'
  BY <1>5, OtherFirstPages DEF ExtendChain, Reach, Linked
<1> QED BY <1>5, <1>8, <1>9 DEF Linked

LEMMA FetchPrevLinked ==
  ASSUME Reach, Linked, FetchPrev
  PROVE  Linked'
<1>1. op \in InsertOp /\ op.step = "fetchPrev"
  BY OpFacts DEF FetchPrev, Reach, Inv
<1>2. op.prev \in PageId /\ op.page \in PageId
  BY <1>1 DEF Reach, Inv, Locals, NewPageHeld, Holds
<1>3. Quietly /\ first_page' = first_page
  BY <1>2, FetchQuiet DEF FetchPrev, Reach
<1>4. /\ View[op.prev].next_page_id = NoPage /\ op.prev < op.page /\ Unnamed(op.page)
      /\ \A h \in Heap : first_page[h] # op.page
  BY <1>1 DEF Linked, EndIsFree
<1>5. LinksShrink
  BY <1>3, QuietLinks DEF Linked, PagesLinked
<1>6. View'[op.prev].next_page_id = NoPage
  BY <1>2, <1>4, <1>5 DEF LinksShrink
<1>7. op'.step \in {"link", "segv"} /\ op'.page = op.page /\ op'.prev = op.prev
  BY <1>1 DEF FetchPrev, Goto, InsertOp
<1>8. Unnamed(op.page)'
  <2>1. \A x \in PageId : Unnamed(x) => Unnamed(x)'
    BY <1>5, FewerLinks DEF Reach, Linked, PagesLinked
  <2>2. \E x \in PageId : x = op.page /\ Unnamed(x)'
    BY <1>2, <1>4, <2>1
  <2> QED BY <1>7, <2>2 DEF Unnamed, Tabled
<1>9. EndIsFree'
  BY <1>3, <1>4, <1>6, <1>7, <1>8 DEF EndIsFree
<1> QED BY <1>3, <1>9, QuietLinked

LEMMA LinkLinked ==
  ASSUME Reach, Linked, LinkPrev
  PROVE  Linked'
<1> DEFINE d == [Page(op.prev) EXCEPT !.next_page_id = op.page]
           a == op.prev
           b == op.page
<1>1. /\ op \in InsertOp /\ b \in PageId /\ a \in PageId /\ a # b /\ View[b] = EmptyPage
      /\ Page(a) \in TablePage /\ d \in TablePage /\ d.next_page_id = b
      /\ Rewrites(a, d) /\ pages'[a].dirty
  BY LinkEffect DEF Reach
<1>2. op.step = "link" /\ op' = [op EXCEPT !.step = "put"] /\ first_page' = first_page
  BY DEF LinkPrev, Goto
<1>3. /\ View[a].next_page_id = NoPage /\ a < b /\ Unnamed(b)
      /\ \A h \in Heap : first_page[h] # b
  BY <1>2 DEF Linked, EndIsFree
<1> HIDE DEF d
<1>4. /\ disk' = disk /\ View[a] = Page(a) /\ View'[a] = d
      /\ \A q \in PageId \ {a} : View'[q] = View[q] /\ pages'[q] = pages[q]
  BY <1>1 DEF Rewrites
<1>5. \A q \in PageId : Tabled(q)' <=> Tabled(q)
  BY <1>1, <1>4 DEF Tabled
<1>6. FileFollows'
  <2>1. \A q \in PageId \ {a} :
          LET e == disk'[q].data
          IN  /\ e \in TablePage <=> View'[q] \in TablePage
              /\ e.next_page_id \in {NoPage, View'[q].next_page_id}
              /\ pages'[q] # NoFrame /\ ~pages'[q].dirty =>
                   e.next_page_id = View'[q].next_page_id
    BY <1>4 DEF Linked, PagesLinked, FileFollows, Tabled
  <2>2. /\ disk[a].data \in TablePage /\ disk[a].data.next_page_id = NoPage
    BY <1>1, <1>3, <1>4 DEF Linked, PagesLinked, FileFollows, Tabled
  <2>3. /\ disk'[a].data \in TablePage <=> View'[a] \in TablePage
        /\ disk'[a].data.next_page_id = NoPage
        /\ pages'[a].dirty
    BY <1>1, <1>4, <2>2
  <2> QED BY <2>1, <2>3 DEF FileFollows, Tabled
<1>7. LinksAscend'
  <2>1. Tabled(b)
    BY <1>1, ImageFacts DEF Tabled
  <2>2. ASSUME NEW q \in PageId, Tabled(q)', View'[q].next_page_id # NoPage
        PROVE  q < View'[q].next_page_id /\ View'[View'[q].next_page_id] \in TablePage
    <3>1. CASE q = a
      BY <1>1, <1>3, <1>4, <2>1, <3>1 DEF Tabled
    <3>2. CASE q # a
      <4>1. View'[q] = View[q] /\ Tabled(q) /\ View[q].next_page_id \in PageId
        BY <1>4, <1>5, <2>2, <3>2, ViewTypes, PageIdFacts DEF Reach
      <4>2. q < View[q].next_page_id /\ Tabled(View[q].next_page_id)
        BY <2>2, <4>1 DEF Linked, PagesLinked, LinksAscend
      <4>3. \A x \in PageId : View[x] \in TablePage => View'[x] \in TablePage
        BY <1>5 DEF Tabled
      <4> QED BY <4>1, <4>2, <4>3 DEF Tabled
    <3> QED BY <3>1, <3>2
  <2> QED BY <2>2 DEF LinksAscend, Tabled
<1>8. LinksApart'
  <2>1. ASSUME NEW p \in PageId, NEW q \in PageId, Tabled(p)', Tabled(q)',
               View'[p].next_page_id = View'[q].next_page_id, View'[p].next_page_id # NoPage,
               p # q
        PROVE  FALSE
    <3>1. CASE p # a /\ q # a
      BY <1>4, <1>5, <2>1, <3>1 DEF Linked, PagesLinked, LinksApart
    <3>2. CASE p = a
      BY <1>1, <1>3, <1>4, <1>5, <2>1, <3>2 DEF Unnamed
    <3>3. CASE q = a
      BY <1>1, <1>3, <1>4, <1>5, <2>1, <3>3 DEF Unnamed
    <3> QED BY <3>1, <3>2, <3>3
  <2> QED BY <2>1 DEF LinksApart
<1>9. FirstPages'
  <2>1. ASSUME NEW h \in Heap, first_page[h] # NoPage
        PROVE  /\ View'[first_page[h]] \in TablePage
               /\ \A q \in PageId : View'[q] \in TablePage => View'[q].next_page_id # first_page[h]
    <3>1. first_page[h] \in PageId
      BY <2>1, PageIdFacts DEF Reach, Inv, CallInv
    <3>2. Tabled(first_page[h]) /\ Unnamed(first_page[h])
      BY <2>1 DEF Linked, FirstPages
    <3> QED BY <1>1, <1>3, <1>4, <1>5, <3>1, <3>2 DEF Unnamed, Tabled
  <2> QED BY <1>2, <2>1 DEF Linked, FirstPages, Tabled, Unnamed
<1>10. op'.step = "put"
  BY <1>1, <1>2 DEF InsertOp
<1> QED BY <1>6, <1>7, <1>8, <1>9, <1>10, NoEnd DEF Linked, PagesLinked

LEMMA PutLinked ==
  ASSUME TuplesFit, Reach, Linked, Put
  PROVE  Linked'
<1>1. PICK pg \in TablePage :
        /\ op.page \in PageId /\ Page(op.page) \in TablePage
        /\ pg.next_page_id = Page(op.page).next_page_id
        /\ PutTuple(pg, op.tuple) \in TablePage
        /\ PutTuple(pg, op.tuple).next_page_id = pg.next_page_id
        /\ Rewrites(op.page, PutTuple(pg, op.tuple))
  BY PutEffect DEF Reach
<1> DEFINE d == PutTuple(pg, op.tuple)
<1>2. d \in TablePage /\ d.next_page_id = Page(op.page).next_page_id /\ Rewrites(op.page, d)
  BY <1>1
<1> HIDE DEF d
<1>3. FileFollows' /\ LinksShrink
  BY <1>1, <1>2, RewriteLinks DEF Linked, PagesLinked
<1>4. op \in InsertOp /\ op' = [op EXCEPT !.step = "flush"] /\ first_page' = first_page
  BY OpFacts DEF Put, Goto, Reach, Inv
<1>5. op'.step = "flush"
  BY <1>4 DEF InsertOp
<1> QED BY <1>3, <1>4, <1>5, NoEnd, LinkedStep

LEMMA FlushRowLinked ==
  ASSUME Reach, Linked, FlushRow
  PROVE  Linked'
<1>1. op \in InsertOp /\ op.step = "flush"
  BY OpFacts DEF FlushRow, Reach, Inv
<1>2. op.page \in PageId
  BY <1>1 DEF Reach, Inv, Locals, RoomIsThere, Holds
<1>3. Quietly /\ first_page' = first_page
  BY <1>2, FlushQuiet, FailQuiet DEF FlushRow, Reach
<1>4. op'.step = "ack"
  BY <1>1 DEF FlushRow, Goto, InsertOp
<1> QED BY <1>3, <1>4, NoEnd, QuietLinked

LEMMA AckLinked ==
  ASSUME Reach, Linked, Acknowledge
  PROVE  Linked'
<1>1. UNCHANGED <<disk, pages>> /\ first_page' = first_page
  BY DEF Acknowledge, poolVars
<1>2. Quietly
  BY <1>1, StillQuiet
<1>3. op'.step \in {"idle", "fetchVictim"}
  BY DEF Acknowledge, Return, Idle
<1> QED BY <1>1, <1>2, <1>3, NoEnd, QuietLinked

LEMMA FetchVictimLinked ==
  ASSUME Reach, Linked, FetchVictim
  PROVE  Linked'
<1>1. op \in VictimOp /\ op.row.page \in PageId
  BY OpFacts DEF FetchVictim, Reach, Inv, VictimOp, RowType
<1>2. Quietly /\ first_page' = first_page
  BY <1>1, FetchQuiet DEF FetchVictim, Reach
<1>3. op'.step \in {"idle", "kill"}
  BY <1>1 DEF FetchVictim, Goto, Return, Idle, VictimOp
<1> QED BY <1>2, <1>3, NoEnd, QuietLinked

LEMMA KillLinked ==
  ASSUME Reach, Linked, Kill
  PROVE  Linked'
<1> DEFINE p == op.row.page
           d == MarkDead(Page(p), op.row.slot)
<1>1. /\ p \in PageId /\ Rewrites(p, d) /\ Page(p) \in TablePage /\ d \in TablePage
      /\ d.next_page_id = Page(p).next_page_id
  BY KillEffect DEF Reach
<1> HIDE DEF p, d
<1>2. FileFollows' /\ LinksShrink
  BY <1>1, RewriteLinks DEF Linked, PagesLinked
<1>3. op' = Idle /\ first_page' = first_page
  BY DEF Kill, Return
<1> QED BY <1>2, <1>3, IdleHasNoEnd, LinkedStep

LEMMA FetchOldLinked ==
  ASSUME Reach, Linked, FetchOld
  PROVE  Linked'
<1>1. op \in UpdateOp /\ op.step = "fetchOld" /\ op.row.page \in PageId
  BY OpFacts DEF FetchOld, Reach, Inv, UpdateOp, RowType
<1>2. Quietly /\ first_page' = first_page
  BY <1>1, FetchQuiet DEF FetchOld, Reach
<1>3. first_page[op.heap] # NoPage
  BY <1>1 DEF Reach, Inv, Locals, RowIsThere
<1>4. EndIsFree'
  <2>1. CASE op' = Idle \/ op' = [op EXCEPT !.step = "overwrite"]
    <3>1. op'.step \in {"idle", "overwrite"}
      BY <1>1, <2>1 DEF Idle, UpdateOp
    <3> QED BY <3>1, NoEnd
  <2>2. CASE op' = InsertCall(op.heap, op.tuple, {op.row})
    <3>1. op'.step = "walk" /\ op'.page = first_page[op.heap]
      BY <2>2 DEF InsertCall
    <3> QED BY <1>3, <3>1, NoEnd
  <2> QED BY <2>1, <2>2 DEF FetchOld, Return, Goto
<1> QED BY <1>2, <1>4, QuietLinked

LEMMA OverwriteLinked ==
  ASSUME Reach, Linked, OverwriteRow
  PROVE  Linked'
<1> DEFINE p == op.row.page
           d == Overwrite(Page(p), op.row.slot, op.tuple)
<1>1. /\ p \in PageId /\ Rewrites(p, d) /\ Page(p) \in TablePage /\ d \in TablePage
      /\ d.next_page_id = Page(p).next_page_id
  BY OverwriteEffect DEF Reach
<1> HIDE DEF p, d
<1>2. FileFollows' /\ LinksShrink
  BY <1>1, RewriteLinks DEF Linked, PagesLinked
<1>3. op' = Idle /\ first_page' = first_page
  BY DEF OverwriteRow, Return
<1> QED BY <1>2, <1>3, IdleHasNoEnd, LinkedStep

LEMMA ScanLinked ==
  ASSUME Reach, Linked, ScanPage
  PROVE  Linked'
<1>1. IsScan(op) /\ op.page \in PageId
  BY OpFacts DEF ScanPage, Reach, Inv, ScanSteps, IsScan
<1>2. Quietly /\ first_page' = first_page
  BY <1>1, FetchQuiet DEF ScanPage, Reach
<1>3. IsScan(op')
  BY ScanStays DEF Reach
<1>4. EndIsFree'
  BY <1>3, NoEnd DEF IsScan, ScanSteps
<1> QED BY <1>2, <1>4, QuietLinked

LEMMA ThrowsLinked ==
  ASSUME Reach, Linked, Throws
  PROVE  Linked'
<1>1. Quietly /\ first_page' = first_page /\ op' = Idle
  BY FailQuiet DEF Throws, Return, Reach
<1> QED BY <1>1, IdleHasNoEnd, QuietLinked

LEMMA CreateLinked ==
  ASSUME Reach, Linked, NEW h \in Heap, CreateHeap(h)
  PROVE  Linked'
<1>1. PICK p \in PageId : BPM!NewPage(p) /\ first_page' = [first_page EXCEPT ![h] = p]
  BY DEF CreateHeap
<1>2. /\ PagesLinked' /\ Unnamed(p)' /\ Tabled(p)' /\ ~Tabled(p)
      /\ \A q \in PageId \ {p} : /\ View'[q] = View[q] /\ (Tabled(q)' <=> Tabled(q))
                                 /\ Unnamed(q) => Unnamed(q)'
      /\ \A g \in Heap : first_page[g] # p
  BY <1>1, NewPageLinks
<1>3. op' = Idle /\ first_page[h] = NoPage
  BY DEF CreateHeap
<1>4. \A g \in Heap : first_page'[g] = IF g = h THEN p ELSE first_page[g]
  BY <1>1 DEF Reach, Inv, CallInv
<1>5. ASSUME NEW g \in Heap, first_page'[g] # NoPage
      PROVE  /\ View'[first_page'[g]] \in TablePage
             /\ \A q \in PageId : View'[q] \in TablePage => View'[q].next_page_id # first_page'[g]
  <2>1. CASE g = h
    BY <1>2, <1>4, <2>1 DEF Tabled, Unnamed
  <2>2. CASE g # h
    <3>1. first_page'[g] = first_page[g] /\ first_page[g] \in PageId \ {p}
      BY <1>2, <1>4, <1>5, <2>2, PageIdFacts DEF Reach, Inv, CallInv
    <3>2. Tabled(first_page[g]) /\ Unnamed(first_page[g])
      BY <1>5, <3>1 DEF Linked, FirstPages
    <3>3. EmptyPage.next_page_id = NoPage /\ View'[p] = EmptyPage
      BY <1>1, NewPageEffect DEF EmptyPage
    <3> QED BY <1>2, <1>5, <3>1, <3>2, <3>3 DEF Tabled, Unnamed
  <2> QED BY <2>1, <2>2
<1>6. FirstPages'
  BY <1>2, <1>4, <1>5 DEF Linked, FirstPages, Tabled, Unnamed
<1> QED BY <1>2, <1>3, <1>6, IdleHasNoEnd DEF Linked

LEMMA BeginLinked ==
  ASSUME Reach, Linked, NEW h \in Heap,
         \/ Scan(h)
         \/ \E t \in Tuples : Insert(h, t)
         \/ \E r \in rows[h] : Delete(h, r)
         \/ \E r \in rows[h], t \in Tuples : Update(h, r, t)
  PROVE  Linked'
<1>1. UNCHANGED <<disk, pages>> /\ first_page' = first_page /\ first_page[h] # NoPage
  BY DEF Scan, Insert, Delete, Update, Ready, poolVars
<1>2. /\ op'.step \in {"begin", "walk", "fetchVictim", "fetchOld"}
      /\ op'.step = "walk" => op'.page = first_page[h]
  BY DEF Scan, Insert, Delete, Update, InsertCall
<1> QED BY <1>1, <1>2, StillQuiet, NoEnd, QuietLinked

LEMMA CloseLinked ==
  ASSUME Reach, Linked, Close
  PROVE  Linked'
<1>1. Quietly /\ first_page' = first_page /\ op' = Idle
  BY FailQuiet, FlushQuiet DEF Close, Reach
<1> QED BY <1>1, IdleHasNoEnd, QuietLinked

LEMMA CrashLinked ==
  ASSUME Reach, Linked, Crash
  PROVE  Linked'
<1>1. Quietly /\ first_page' = first_page /\ op' = Idle
  BY FailQuiet DEF Crash, Reach
<1> QED BY <1>1, IdleHasNoEnd, QuietLinked

\* Where neither the pages nor the call change.
LEMMA SameLinked ==
  ASSUME Reach, Linked, UNCHANGED <<disk, pages, first_page>>,
         op' = op \/ op' = Idle
  PROVE  Linked'
<1>1. LinksShrink /\ FileFollows'
  BY StillQuiet, QuietLinks DEF Linked, PagesLinked
<1>2. View' = View
  BY DEF View, BPM!StoreView, BPM!Cached
<1>3. EndIsFree'
  <2>1. CASE op' = op
    BY <1>2, <2>1 DEF Linked, EndIsFree, Unnamed, Tabled
  <2>2. CASE op' = Idle
    BY <2>2, IdleHasNoEnd
  <2> QED BY <2>1, <2>2
<1> QED BY <1>1, <1>3, LinkedStep

LEMMA InitLinked == Init => Linked
<1> SUFFICES ASSUME Init PROVE Linked
  OBVIOUS
<1>1. /\ disk = [p \in PageId |-> [data |-> ZeroedPage, dirty |-> FALSE]]
      /\ pages = [p \in PageId |-> NoFrame]
      /\ op = Idle /\ first_page = [h \in Heap |-> NoPage]
  BY DEF Init, BPM!Init, BPM!DiskInit, PageId
<1>2. \A q \in PageId : View[q] = ZeroedPage /\ disk[q].data = ZeroedPage /\ ~Tabled(q)
  BY <1>1, ViewFacts, ZeroedPageIsNoTable DEF Tabled
<1>3. PagesLinked /\ FirstPages
  BY <1>1, <1>2, ZeroedPageIsNoTable
     DEF PagesLinked, FileFollows, LinksAscend, LinksApart, FirstPages
<1>4. EndIsFree
  BY <1>1 DEF EndIsFree, Idle
<1> QED BY <1>3, <1>4 DEF Linked

LEMMA NextLinked == TuplesFit /\ Reach /\ Linked /\ [Next]_vars => Linked'
<1> SUFFICES ASSUME TuplesFit, Reach, Linked, [Next]_vars PROVE Linked'
  OBVIOUS
<1>1. ASSUME NEW h \in Heap, CreateHeap(h) PROVE Linked'
  BY <1>1, CreateLinked
<1>2. ASSUME NEW h \in Heap,
             \/ Scan(h)
             \/ \E t \in Tuples : Insert(h, t)
             \/ \E r \in rows[h] : Delete(h, r)
             \/ \E r \in rows[h], t \in Tuples : Update(h, r, t)
      PROVE  Linked'
  BY <1>2, BeginLinked
<1>3. CASE WalkPage \/ ExtendChain \/ FetchPrev \/ LinkPrev \/ Put \/ FlushRow
          \/ Acknowledge
  BY <1>3, WalkLinked, ExtendLinked, FetchPrevLinked, LinkLinked, PutLinked,
     FlushRowLinked, AckLinked
<1>4. CASE FetchVictim \/ Kill \/ FetchOld \/ OverwriteRow
  BY <1>4, FetchVictimLinked, KillLinked, FetchOldLinked, OverwriteLinked
<1>5. CASE ScanPage \/ Throws \/ Close \/ Crash
  BY <1>5, ScanLinked, ThrowsLinked, CloseLinked, CrashLinked
<1>6. CASE EndScan \/ Reopen \/ UNCHANGED vars
  <2>1. UNCHANGED <<disk, pages, first_page>> /\ (op' = op \/ op' = Idle)
    BY <1>6 DEF EndScan, Return, Reopen, BPM!Open, BPM!OpenFile, vars, poolVars, heapVars
  <2> QED BY <2>1, SameLinked
<1> QED BY <1>1, <1>2, <1>3, <1>4, <1>5, <1>6 DEF Next

-----------------------------------------------------------------------------
(* Chains.                                                                 *)

\* Contents of pages that have the links of the running process, or fewer.
Lags(at) ==
  \A q \in PageId :
    /\ at[q] \in TablePage <=> Tabled(q)
    /\ at[q].next_page_id \in {NoPage, View[q].next_page_id}

LEMMA ViewsLag ==
  ASSUME Inv, Linked
  PROVE  /\ Lags(View) /\ Linking(View)
         /\ Lags(BPM!StableView) /\ Linking(BPM!StableView)
<1>1. Lags(View) /\ Lags(BPM!StableView)
  BY ViewFacts DEF Lags, Linked, PagesLinked, FileFollows, Tabled
<1>2. \A q \in PageId : View[q].next_page_id \in Link
  BY ViewTypes
<1>3. NoPage \in Link
  BY PageIdFacts
<1> QED BY <1>1, <1>2, <1>3 DEF Lags, Linking

\* The chain of a heap: tables' pages from its first page on, and no others.
LEMMA ChainFacts ==
  ASSUME Inv, Linked, NEW at, Lags(at), NEW h \in Heap
  PROVE  /\ Linking(at) /\ Chain(h, at) \in SUBSET PageId
         /\ first_page[h] # NoPage => first_page[h] \in Chain(h, at)
         /\ Shut(Chain(h, at), at)
         /\ \A S \in SUBSET PageId :
              first_page[h] \in S \cup {NoPage} /\ Shut(S, at) => Chain(h, at) \subseteq S
         /\ \A p \in Chain(h, at) : Tabled(p)
<1>1. Linking(at)
  <2>1. \A q \in PageId : View[q].next_page_id \in Link
    BY ViewTypes
  <2> QED BY <2>1, PageIdFacts DEF Lags, Linking
<1>2. first_page[h] \in Link
  BY DEF Inv, CallInv
<1>3. /\ Chain(h, at) \in SUBSET PageId
      /\ first_page[h] # NoPage => first_page[h] \in Chain(h, at)
      /\ Shut(Chain(h, at), at)
      /\ \A S \in SUBSET PageId :
           first_page[h] \in S \cup {NoPage} /\ Shut(S, at) => Chain(h, at) \subseteq S
  BY <1>1, <1>2, FromFacts DEF Chain
<1>4. \A p \in Chain(h, at) : Tabled(p)
  <2> DEFINE S == {q \in PageId : Tabled(q)}
  <2>1. Shut(S, at)
    <3>1. ASSUME NEW q \in PageId, Tabled(q), at[q].next_page_id # NoPage
          PROVE  at[q].next_page_id \in PageId /\ Tabled(at[q].next_page_id)
      <4>1. at[q].next_page_id = View[q].next_page_id
        BY <3>1 DEF Lags
      <4> QED BY <1>1, <3>1, <4>1, PageIdFacts DEF Linked, PagesLinked, LinksAscend, Linking
    <3> QED BY <3>1 DEF Shut
  <2>2. first_page[h] \in S \cup {NoPage}
    BY <1>2, PageIdFacts DEF Linked, FirstPages
  <2>3. S \in SUBSET PageId
    OBVIOUS
  <2> HIDE DEF S
  <2>4. Chain(h, at) \subseteq S
    BY <1>3, <2>1, <2>2, <2>3
  <2> QED BY <2>4 DEF S
<1> QED BY <1>1, <1>3, <1>4

\* Every page of a chain but the first is named by another of them.
LEMMA ChainNames ==
  ASSUME Inv, Linked, NEW at, Lags(at), NEW h \in Heap,
         NEW p \in Chain(h, at), p # first_page[h]
  PROVE  \E q \in Chain(h, at) : at[q].next_page_id = p
<1> DEFINE C == Chain(h, at)
<1>1. SUFFICES ASSUME \A q \in C : at[q].next_page_id # p PROVE FALSE
  OBVIOUS
<1>2. /\ C \in SUBSET PageId /\ Shut(C, at)
      /\ first_page[h] # NoPage => first_page[h] \in C
      /\ \A S \in SUBSET PageId :
           first_page[h] \in S \cup {NoPage} /\ Shut(S, at) => C \subseteq S
  BY ChainFacts
<1> HIDE DEF C
<1>3. Shut(C \ {p}, at)
  BY <1>1, <1>2 DEF Shut
<1>4. first_page[h] \in (C \ {p}) \cup {NoPage}
  BY <1>2
<1>5. C \subseteq C \ {p}
  BY <1>2, <1>3, <1>4
<1> QED BY <1>5 DEF C

\* Two chains never meet: the place where they did would have two names, or
\* be a first page with one.
LEMMA ChainsApart ==
  ASSUME Inv, Linked, NEW at, Lags(at), NEW g \in Heap, NEW h \in Heap, g # h
  PROVE  Chain(g, at) \cap Chain(h, at) = {}
<1> DEFINE A == Chain(g, at)
           B == Chain(h, at)
<1>1. /\ A \in SUBSET PageId /\ Shut(A, at) /\ Linking(at)
      /\ first_page[g] # NoPage => first_page[g] \in A
      /\ \A S \in SUBSET PageId :
           first_page[g] \in S \cup {NoPage} /\ Shut(S, at) => A \subseteq S
      /\ B \in SUBSET PageId
      /\ \A p \in A \cup B : Tabled(p)
  BY ChainFacts
<1>2. \A p \in B : p # first_page[h] => \E q \in B : at[q].next_page_id = p
  BY ChainNames
<1>3. \A q \in A \cup B : at[q].next_page_id \in {NoPage, View[q].next_page_id}
  BY <1>1 DEF Lags
<1> HIDE DEF A, B
<1>4. \A f \in Heap : first_page[f] # NoPage =>
        \A q \in A \cup B : at[q].next_page_id # first_page[f]
  BY <1>1, <1>3 DEF Linked, FirstPages, Unnamed
<1>5. first_page[g] \in (A \ B) \cup {NoPage}
  <2>1. first_page[g] # NoPage => first_page[g] # first_page[h]
    BY DEF Linked, FirstPages
  <2> QED BY <1>1, <1>2, <1>4, <2>1
<1>6. Shut(A \ B, at)
  <2>1. ASSUME NEW q \in A \ B, at[q].next_page_id # NoPage, at[q].next_page_id \in B
        PROVE  FALSE
    <3> DEFINE n == at[q].next_page_id
    <3>1. n # first_page[h]
      BY <1>4, <2>1
    <3>2. PICK r \in B : at[r].next_page_id = n
      BY <1>2, <2>1, <3>1
    <3>3. View[r].next_page_id = n /\ View[q].next_page_id = n
      BY <1>3, <2>1, <3>2
    <3>4. r = q
      BY <1>1, <2>1, <3>3 DEF Linked, PagesLinked, LinksApart
    <3> QED BY <3>4
  <2> QED BY <1>1, <2>1 DEF Shut
<1>7. A \subseteq A \ B
  BY <1>1, <1>5, <1>6
<1> QED BY <1>7 DEF A, B

LEMMA LinkedIsSound ==
  ASSUME Reach, Linked
  PROVE  ChainsAreSound
<1> DEFINE TP(pg) == pg.page_type = "TABLE_PAGE"
<1>0. Inv
  BY DEF Reach
<1>1. \A at \in {View, BPM!StableView} : Lags(at)
  BY <1>0, ViewsLag
<1>2. ASSUME NEW at \in {View, BPM!StableView}, NEW q \in PageId
      PROVE  /\ at[q].page_type = "TABLE_PAGE" <=> at[q] \in TablePage
             /\ at[q] \in TablePage => LinkBelow(at[q], file_pages) /\ at[q] # ZeroedPage
  <2>1. at[q] \in {disk[q].data} \/ (pages[q] # NoFrame /\ at[q] = pages[q].data)
    BY ViewFacts
  <2>2. LinkBelow(at[q], file_pages)
    BY <2>1 DEF Reach, PoolReach
  <2>3. at[q] \in TablePage \/ at[q] = ZeroedPage
    BY <1>0, <2>1, ImageFacts DEF Inv, PoolInv
  <2>4. \A pg \in TablePage : pg.page_type = "TABLE_PAGE"
    BY DEF TablePage, PageOf
  <2>5. ZeroedPage.page_type # "TABLE_PAGE"
    BY DEF ZeroedPage
  <2> QED BY <2>2, <2>3, <2>4, <2>5
<1>3. ASSUME NEW at \in {View, BPM!StableView}
      PROVE  /\ \A h \in Heap : \A p \in Chain(h, at) : at[p].page_type = "TABLE_PAGE"
             /\ \A p \in PageId : at[p].page_type = "TABLE_PAGE" =>
                  /\ at[p].next_page_id # NoPage => p < at[p].next_page_id
                  /\ at[p].next_page_id < file_pages
             /\ \A g, h \in Heap : g # h => Chain(g, at) \cap Chain(h, at) = {}
             /\ \A p, q \in PageId :
                  /\ at[p].page_type = "TABLE_PAGE" /\ at[q].page_type = "TABLE_PAGE"
                  /\ at[p].next_page_id = at[q].next_page_id /\ at[p].next_page_id # NoPage
                  => p = q
  <2>1. Lags(at)
    BY <1>1
  <2>2. ASSUME NEW h \in Heap, NEW p \in Chain(h, at) PROVE at[p].page_type = "TABLE_PAGE"
    <3>1. p \in PageId /\ Tabled(p)
      BY <1>0, <2>1, ChainFacts
    <3> QED BY <1>2, <2>1, <3>1 DEF Lags
  <2>3. ASSUME NEW p \in PageId, at[p].page_type = "TABLE_PAGE"
        PROVE  /\ at[p].next_page_id # NoPage => p < at[p].next_page_id
               /\ at[p].next_page_id < file_pages
    <3>1. at[p] \in TablePage /\ Tabled(p)
      BY <1>2, <2>1, <2>3 DEF Lags
    <3>2. at[p].next_page_id # NoPage => p < at[p].next_page_id
      BY <2>1, <3>1 DEF Lags, Linked, PagesLinked, LinksAscend
    <3>3. at[p].next_page_id = NoPage \/ at[p].next_page_id < file_pages
      BY <1>2, <3>1 DEF LinkBelow
    <3>4. NoPage < file_pages
      BY <1>0 DEF NoPage, Inv, PoolInv
    <3> QED BY <3>2, <3>3, <3>4
  <2>4. \A g, h \in Heap : g # h => Chain(g, at) \cap Chain(h, at) = {}
    BY <1>0, <2>1, ChainsApart
  <2>5. ASSUME NEW p \in PageId, NEW q \in PageId,
               at[p].page_type = "TABLE_PAGE", at[q].page_type = "TABLE_PAGE",
               at[p].next_page_id = at[q].next_page_id, at[p].next_page_id # NoPage
        PROVE  p = q
    <3>1. Tabled(p) /\ Tabled(q)
      BY <1>2, <2>1, <2>5 DEF Lags
    <3>2. View[p].next_page_id = at[p].next_page_id /\ View[q].next_page_id = at[q].next_page_id
      BY <2>1, <2>5 DEF Lags
    <3> QED BY <2>5, <3>1, <3>2 DEF Linked, PagesLinked, LinksApart
  <2> QED BY <2>2, <2>3, <2>4, <2>5
<1> QED BY <1>3 DEF ChainsAreSound

\* The chains of the heaps never meet, never run in circles and never leave the
\* pages that exist, in the running process and in the file alone: whatever
\* fails, is evicted or crashes, what is left can be walked.
THEOREM ChainsStaySound == TuplesFit => (Spec => []ChainsAreSound)
<1> SUFFICES ASSUME TuplesFit PROVE Spec => []ChainsAreSound
  OBVIOUS
<1>1. Init => Reach /\ Linked
  BY InitReach, InitLinked
<1>2. Reach /\ Linked /\ [Next]_vars => Reach' /\ Linked'
  BY NextReach, NextLinked
<1>3. Reach /\ Linked => ChainsAreSound
  BY LinkedIsSound
<1> QED BY <1>1, <1>2, <1>3, PTL DEF Spec

-----------------------------------------------------------------------------
(* Chains of two views.                                                    *)

\* Fewer links reach fewer pages.
LEMMA MoreLinks ==
  ASSUME NEW at, NEW bt, Linking(at), Linking(bt), NEW p \in Link,
         \A q \in PageId : at[q].next_page_id \in {NoPage, bt[q].next_page_id}
  PROVE  From(p, at) \subseteq From(p, bt)
<1> DEFINE S == From(p, bt)
<1>1. S \in SUBSET PageId /\ p \in S \cup {NoPage} /\ Shut(S, bt)
  BY FromFacts
<1> HIDE DEF S
<1>2. Shut(S, at)
  BY <1>1 DEF Shut
<1>3. From(p, at) \subseteq S
  BY <1>1, <1>2, FromFacts
<1> QED BY <1>3 DEF S

\* What is not reached does not matter.
LEMMA SameLinks ==
  ASSUME NEW at, NEW bt, Linking(at), Linking(bt), NEW p \in Link,
         \A q \in From(p, at) : bt[q].next_page_id = at[q].next_page_id
  PROVE  From(p, bt) = From(p, at)
<1> DEFINE A == From(p, at)
           B == From(p, bt)
<1>1. /\ A \in SUBSET PageId /\ p \in A \cup {NoPage} /\ Shut(A, at)
      /\ B \in SUBSET PageId /\ p \in B \cup {NoPage} /\ Shut(B, bt)
  BY FromFacts
<1>2. \A q \in A : bt[q].next_page_id = at[q].next_page_id
  OBVIOUS
<1>3. Shut(A, bt)
  BY <1>1, <1>2 DEF Shut
<1>4. B \subseteq A
  BY <1>1, <1>3, FromFacts
<1>5. Shut(B, at)
  BY <1>1, <1>2, <1>4 DEF Shut
<1>6. A \subseteq B
  BY <1>1, <1>5, FromFacts
<1> QED BY <1>4, <1>6

\* Nothing is reached from no page.
LEMMA FromNowhere ==
  ASSUME NEW at, Linking(at)
  PROVE  From(NoPage, at) = {}
<1>1. NoPage \in Link /\ {} \in SUBSET PageId /\ Shut({}, at)
  BY PageIdFacts DEF Shut
<1> QED BY <1>1, FromFacts

-----------------------------------------------------------------------------
(* Where the rows are.                                                     *)

\* A row is on its heap's chain, and in the file too if its frame is clean.
Placed(h, r) ==
  /\ r.page \in Chain(h, View)
  /\ Has(View[r.page], r)
  /\ pages[r.page] # NoFrame /\ ~pages[r.page].dirty => Has(disk[r.page].data, r)
RowsPlaced == ~faulted => \A h \in Heap : \A r \in rows[h] : Placed(h, r)

\* The page an insertion works on is of its heap.
OnChain ==
  /\ op.step = "walk" =>
       (IF op.page = NoPage THEN op.prev ELSE op.page) \in Chain(op.heap, View)
  /\ op.step \in {"fetchPrev", "link"} => op.prev \in Chain(op.heap, View)
  /\ op.step \in {"put", "flush", "ack"} => op.page \in Chain(op.heap, View)

\* The row a call deletes or overwrites is one of its heap.
CallsRows ==
  /\ op.step \in ModifySteps => op.row \in rows[op.heap]
  /\ op.step \in InsertSteps => op.replaces \subseteq rows[op.heap]

Rowed == RowsPlaced /\ OnChain /\ RowIsPut /\ CallsRows

-----------------------------------------------------------------------------
(* Chains and rows under the steps of the pool.                            *)

ChainsGrow == \A h \in Heap : Chain(h, View) \subseteq Chain(h, View)'

LEMMA HeapOfPages ==
  ASSUME Inv, Linked, NEW h \in Heap
  PROVE  /\ Linking(View) /\ first_page[h] \in Link
         /\ Chain(h, View) \in SUBSET PageId /\ Shut(Chain(h, View), View)
         /\ \A p \in Chain(h, View) : Tabled(p)
  BY ViewsLag, ChainFacts DEF Inv, CallInv

\* The view after a step that keeps or loses links.
LEMMA LinkingStays ==
  ASSUME Inv, Linked, LinksShrink \/ LinksStay
  PROVE  Linking(View')
<1>1. \A q \in PageId : View[q].next_page_id \in Link /\ NoPage \in Link
  BY ViewTypes, PageIdFacts
<1> QED BY <1>1 DEF Linking, LinksShrink, LinksStay

LEMMA ChainsStay ==
  ASSUME Inv, Linked, LinksStay, first_page' = first_page
  PROVE  ChainsGrow /\ \A h \in Heap : Chain(h, View)' = Chain(h, View)
<1>1. Linking(View) /\ Linking(View')
  BY ViewsLag, LinkingStays
<1>2. ASSUME NEW h \in Heap PROVE From(first_page[h], View') = From(first_page[h], View)
  <2>1. first_page[h] \in Link
    BY DEF Inv, CallInv
  <2>2. From(first_page[h], View) \in SUBSET PageId
    BY <1>1, <2>1, FromFacts
  <2>3. \A q \in From(first_page[h], View) : View'[q].next_page_id = View[q].next_page_id
    BY <2>2 DEF LinksStay
  <2> QED BY <1>1, <2>1, <2>3, SameLinks
<1>3. \A h \in Heap : Chain(h, View)' = Chain(h, View)
  BY <1>2 DEF Chain
<1> QED BY <1>3 DEF ChainsGrow

\* A row stays where it is when pages move and none is lost.
LEMMA QuietPlaced ==
  ASSUME Inv, Linked, ChainsGrow, Quietly, NothingLost,
         NEW h \in Heap, NEW r, r.page \in PageId, Placed(h, r)
  PROVE  Placed(h, r)'
<1> DEFINE q == r.page
<1>1. r.page \in Chain(h, View)'
  BY DEF Placed, ChainsGrow
<1>2. /\ Has(View[q], r)
      /\ pages[q] # NoFrame /\ ~pages[q].dirty => Has(disk[q].data, r)
      /\ View[q] = IF pages[q] # NoFrame THEN pages[q].data ELSE disk[q].data
      /\ View'[q] = IF pages'[q] # NoFrame THEN pages'[q].data ELSE disk'[q].data
  BY ViewFacts DEF Placed
<1>3. /\ disk'[q] = disk[q] \/ (pages[q] # NoFrame /\ disk'[q].data = pages[q].data)
      /\ pages'[q] # NoFrame =>
           IF pages[q] # NoFrame THEN pages'[q].data = pages[q].data
           ELSE pages'[q] = disk'[q] /\ disk'[q] = disk[q]
      /\ pages'[q] # NoFrame /\ ~pages'[q].dirty =>
           \/ disk'[q].data = pages'[q].data
           \/ pages[q] # NoFrame /\ ~pages[q].dirty /\ disk'[q] = disk[q]
      /\ pages[q] # NoFrame /\ pages'[q] = NoFrame /\ pages[q].dirty =>
           disk'[q].data = pages[q].data
  BY DEF Quietly, NothingLost
<1> HIDE DEF q
<1>4. Has(View'[q], r)
  BY <1>2, <1>3
<1>5. pages'[q] # NoFrame /\ ~pages'[q].dirty => Has(disk'[q].data, r)
  BY <1>2, <1>3
<1> QED BY <1>1, <1>4, <1>5 DEF Placed, q

LEMMA QuietRows ==
  ASSUME Inv, Linked, RowsPlaced, ChainsGrow, Quietly, NothingLost \/ faulted',
         rows' = rows, faulted' = faulted \/ faulted'
  PROVE  RowsPlaced'
<1>1. ASSUME ~faulted', NEW h \in Heap, NEW r \in rows[h] PROVE Placed(h, r)'
  <2>1. Placed(h, r) /\ r.page \in PageId /\ NothingLost
    BY <1>1 DEF RowsPlaced, Inv, CallInv, RowType
  <2> QED BY <2>1, QuietPlaced
<1> QED BY <1>1 DEF RowsPlaced

\* A write to a page keeps the rows of others, and those it has after it.
LEMMA RewritePlaced ==
  ASSUME Inv, Linked, ChainsGrow, NEW p \in PageId, NEW d, Rewrites(p, d),
         NEW h \in Heap, NEW r, r.page \in PageId, Placed(h, r),
         r.page = p => Has(d, r)
  PROVE  Placed(h, r)'
<1> DEFINE q == r.page
<1>1. r.page \in Chain(h, View)'
  BY DEF Placed, ChainsGrow
<1>2. /\ Has(View[q], r)
      /\ pages[q] # NoFrame /\ ~pages[q].dirty => Has(disk[q].data, r)
  BY DEF Placed
<1>3. Has(View'[q], r)
  BY <1>2 DEF Rewrites
<1>4. pages'[q] # NoFrame /\ ~pages'[q].dirty => Has(disk'[q].data, r)
  BY <1>2 DEF Rewrites
<1> QED BY <1>1, <1>3, <1>4 DEF Placed

-----------------------------------------------------------------------------
(* Rows under the steps of the heap.                                       *)

LEMMA RowFacts ==
  ASSUME Inv, NEW h \in Heap, NEW r \in rows[h]
  PROVE  r \in RowType /\ r.page \in PageId
  BY DEF Inv, CallInv, RowType

\* The page a page of a chain names is on the chain.
LEMMA ChainGoesOn ==
  ASSUME Inv, Linked, LinksStay, first_page' = first_page,
         NEW h \in Heap, NEW p \in Chain(h, View)
  PROVE  View'[p].next_page_id \in Chain(h, View)' \cup {NoPage}
<1>1. Shut(Chain(h, View), View) /\ p \in PageId
  BY HeapOfPages
<1>2. Chain(h, View)' = Chain(h, View)
  BY ChainsStay
<1> QED BY <1>1, <1>2 DEF Shut, LinksStay

\* A step that puts pages in the pool or in the file.
LEMMA PoolStepRows ==
  ASSUME Reach, Linked, RowsPlaced, first_page' = first_page, Quietly, NothingLost,
         rows' = rows, faulted' = faulted \/ faulted'
  PROVE  /\ RowsPlaced' /\ LinksStay
         /\ \A h \in Heap : Chain(h, View)' = Chain(h, View)
<1>1. LinksStay
  BY QuietLinks DEF Linked, PagesLinked
<1>2. ChainsGrow /\ \A h \in Heap : Chain(h, View)' = Chain(h, View)
  BY <1>1, ChainsStay DEF Reach
<1> QED BY <1>1, <1>2, QuietRows DEF Reach

LEMMA CallOver ==
  ASSUME op' = Idle
  PROVE  OnChain' /\ RowIsPut' /\ CallsRows'
<1>1. op'.step = "idle"
  BY DEF Idle
<1> QED BY <1>1 DEF OnChain, RowIsPut, CallsRows, ModifySteps, InsertSteps

LEMMA WalkRowed ==
  ASSUME Reach, Linked, Rowed, WalkPage
  PROVE  Rowed'
<1>1. /\ op \in InsertOp /\ op.step = "walk" /\ op.page \in PageId /\ op.page # NoPage
      /\ op.heap \in Heap
  BY OpFacts, PageIdFacts DEF WalkPage, Reach, Inv, InsertOp
<1>2. /\ Quietly /\ NothingLost
      /\ first_page' = first_page /\ rows' = rows /\ faulted' = faulted
  BY <1>1, FetchQuiet DEF WalkPage, Reach
<1>3. /\ RowsPlaced' /\ LinksStay
      /\ \A h \in Heap : Chain(h, View)' = Chain(h, View)
  BY <1>2, PoolStepRows DEF Rowed
<1>4. op.page \in Chain(op.heap, View) /\ op.replaces \subseteq rows[op.heap]
  BY <1>1 DEF Rowed, OnChain, CallsRows, InsertSteps
<1>5. View'[op.page].next_page_id \in Chain(op.heap, View) \cup {NoPage}
  BY <1>1, <1>2, <1>3, <1>4, ChainGoesOn DEF Reach
<1>6. OnChain' /\ RowIsPut' /\ CallsRows'
  <2> DEFINE k == PageRead(op.page).next_page_id
  <2>1. \/ op' = Idle
        \/ op' = [op EXCEPT !.step = "put"]
        \/ op' = [op EXCEPT !.prev = op.page, !.page = k] /\ Fetched(op.page)
    BY DEF WalkPage, Goto, Return
  <2>2. Fetched(op.page) => k \in Chain(op.heap, View) \cup {NoPage}
    BY <1>1, <1>5, ViewFacts DEF Fetched, PageRead
  <2> HIDE DEF k
  <2>3. CASE op' = [op EXCEPT !.step = "put"]
    <3>1. /\ op'.step = "put" /\ op'.page = op.page /\ op'.heap = op.heap
          /\ op'.replaces = op.replaces
      BY <1>1, <2>3 DEF InsertOp
    <3>2. OnChain'
      BY <1>1, <1>3, <1>4, <3>1 DEF OnChain
    <3> QED BY <1>2, <1>4, <3>1, <3>2 DEF RowIsPut, CallsRows, ModifySteps
  <2>4. CASE op' = [op EXCEPT !.prev = op.page, !.page = k] /\ Fetched(op.page)
    <3>1. /\ op'.step = "walk" /\ op'.page = k /\ op'.prev = op.page
          /\ op'.heap = op.heap /\ op'.replaces = op.replaces
      BY <1>1, <2>4 DEF InsertOp
    <3>2. OnChain'
      BY <1>1, <1>3, <1>4, <2>2, <2>4, <3>1 DEF OnChain
    <3> QED BY <1>2, <1>4, <3>1, <3>2 DEF RowIsPut, CallsRows, ModifySteps
  <2> QED BY <2>1, <2>3, <2>4, CallOver
<1> QED BY <1>3, <1>6 DEF Rowed

\* A new page is on no chain, and takes no row along.
LEMMA NewPageRows ==
  ASSUME Reach, Linked, RowsPlaced, NEW p \in PageId, BPM!NewPage(p),
         \A h \in Heap : first_page'[h] \in {first_page[h], p},
         \A h \in Heap : first_page[h] # NoPage => first_page'[h] = first_page[h],
         rows' = rows, faulted' = faulted
  PROVE  /\ RowsPlaced' /\ ChainsGrow /\ \A h \in Heap : p \notin Chain(h, View)
         /\ \A h \in Heap : first_page'[h] = first_page[h] =>
              Chain(h, View)' = Chain(h, View)
<1>1. /\ ~Tabled(p)
      /\ View'[p] = EmptyPage /\ \A q \in PageId \ {p} : View'[q] = View[q]
      /\ \A q \in PageId \ {p} : disk'[q] = disk[q] /\ pages'[q] = pages[q]
  BY NewPageLinks, NewPageEffect
<1>2. Linking(View) /\ Linking(View')
  <2>1. EmptyPage.next_page_id \in Link /\ Linking(View)
    BY ViewsLag, PageIdFacts DEF EmptyPage, Reach
  <2> QED BY <1>1, <2>1 DEF Linking
<1>3. ASSUME NEW h \in Heap
      PROVE  /\ p \notin Chain(h, View) /\ Chain(h, View) \in SUBSET PageId
             /\ first_page[h] \in Link
  BY <1>1, HeapOfPages DEF Reach
<1>4. ASSUME NEW h \in Heap, first_page'[h] = first_page[h]
      PROVE  Chain(h, View)' = Chain(h, View)
  <2>1. \A q \in From(first_page[h], View) : View'[q].next_page_id = View[q].next_page_id
    BY <1>1, <1>3 DEF Chain
  <2>2. From(first_page[h], View') = From(first_page[h], View)
    BY <1>2, <1>3, <2>1, SameLinks
  <2> QED BY <1>4, <2>2 DEF Chain
<1>5. ASSUME NEW h \in Heap, first_page'[h] # first_page[h]
      PROVE  Chain(h, View) = {}
  BY <1>2, <1>5, FromNowhere DEF Chain
<1>6. ChainsGrow
  BY <1>4, <1>5 DEF ChainsGrow
<1>7. ASSUME ~faulted, NEW h \in Heap, NEW r \in rows[h] PROVE Placed(h, r)'
  <2>1. Placed(h, r)
    BY <1>7 DEF RowsPlaced
  <2>2. r.page \in PageId \ {p} /\ r.page \in Chain(h, View)'
    BY <1>3, <1>6, <2>1 DEF Placed, ChainsGrow
  <2> QED BY <1>1, <2>1, <2>2 DEF Placed
<1> QED BY <1>3, <1>4, <1>6, <1>7 DEF RowsPlaced

LEMMA ExtendRowed ==
  ASSUME Reach, Linked, Rowed, ExtendChain
  PROVE  Rowed'
<1>1. op \in InsertOp /\ op.step = "walk" /\ op.page = NoPage /\ op.heap \in Heap
  BY OpFacts DEF ExtendChain, Reach, Inv, InsertOp
<1>2. op.prev \in Chain(op.heap, View) /\ op.replaces \subseteq rows[op.heap]
  BY <1>1 DEF Rowed, OnChain, CallsRows, InsertSteps
<1>3. PICK p \in PageId :
        BPM!NewPage(p) /\ op' = [op EXCEPT !.step = "fetchPrev", !.page = p]
  BY DEF ExtendChain
<1>4. first_page' = first_page /\ rows' = rows /\ faulted' = faulted
  BY DEF ExtendChain
<1>5. RowsPlaced' /\ ChainsGrow
  BY <1>3, <1>4, NewPageRows DEF Rowed
<1>6. /\ op'.step = "fetchPrev" /\ op'.prev = op.prev /\ op'.heap = op.heap
      /\ op'.replaces = op.replaces
  BY <1>1, <1>3 DEF InsertOp
<1>7. OnChain'
  BY <1>1, <1>2, <1>5, <1>6 DEF OnChain, ChainsGrow
<1> QED BY <1>2, <1>4, <1>5, <1>6, <1>7 DEF Rowed, RowIsPut, CallsRows, ModifySteps

LEMMA FetchPrevRowed ==
  ASSUME Reach, Linked, Rowed, FetchPrev
  PROVE  Rowed'
<1>1. op \in InsertOp /\ op.step = "fetchPrev" /\ op.heap \in Heap
  BY OpFacts DEF FetchPrev, Reach, Inv, InsertOp
<1>2. op.prev \in PageId
  BY <1>1 DEF Reach, Inv, Locals, NewPageHeld, Holds
<1>3. /\ Quietly /\ NothingLost
      /\ first_page' = first_page /\ rows' = rows /\ faulted' = faulted
  BY <1>2, FetchQuiet DEF FetchPrev, Reach
<1>4. RowsPlaced' /\ \A h \in Heap : Chain(h, View)' = Chain(h, View)
  BY <1>3, PoolStepRows DEF Rowed
<1>5. op.prev \in Chain(op.heap, View) /\ op.replaces \subseteq rows[op.heap]
  BY <1>1 DEF Rowed, OnChain, CallsRows, InsertSteps
<1>6. /\ op'.step \in {"link", "segv"} /\ op'.prev = op.prev /\ op'.heap = op.heap
      /\ op'.replaces = op.replaces
  BY <1>1 DEF FetchPrev, Goto, InsertOp
<1>7. OnChain'
  BY <1>1, <1>4, <1>5, <1>6 DEF OnChain
<1> QED BY <1>3, <1>4, <1>5, <1>6, <1>7 DEF Rowed, RowIsPut, CallsRows, ModifySteps

\* The page that is linked joins the chain of its heap, and no other.
LEMMA LinkChains ==
  ASSUME Reach, Linked, OnChain, LinkPrev
  PROVE  /\ ChainsGrow /\ op.heap \in Heap
         /\ \A h \in Heap : Chain(h, View)' =
              IF h = op.heap THEN Chain(h, View) \cup {op.page} ELSE Chain(h, View)
<1> DEFINE d == [Page(op.prev) EXCEPT !.next_page_id = op.page]
           a == op.prev
           b == op.page
<1>1. /\ op \in InsertOp /\ b \in PageId /\ a \in PageId /\ a # b /\ View[b] = EmptyPage
      /\ d.next_page_id = b /\ Rewrites(a, d)
  BY LinkEffect DEF Reach
<1>2. op.step = "link" /\ op.heap \in Heap /\ first_page' = first_page
  BY <1>1 DEF LinkPrev, InsertOp
<1>3. View[a].next_page_id = NoPage /\ a \in Chain(op.heap, View)
  BY <1>2 DEF Linked, EndIsFree, OnChain
<1> HIDE DEF d
<1>4. /\ View'[a] = d /\ \A q \in PageId \ {a} : View'[q] = View[q]
      /\ EmptyPage.next_page_id = NoPage
  BY <1>1 DEF Rewrites, EmptyPage
<1>5. Linking(View) /\ Linking(View')
  <2>1. Linking(View) /\ b \in Link
    BY <1>1, ViewsLag, PageIdFacts DEF Reach
  <2> QED BY <1>1, <1>4, <2>1 DEF Linking
<1>6. \A h \in Heap : /\ first_page[h] \in Link /\ Chain(h, View) \in SUBSET PageId
                      /\ Shut(Chain(h, View), View)
  BY HeapOfPages DEF Reach
<1>7. ASSUME NEW h \in Heap
      PROVE  Chain(h, View) \subseteq Chain(h, View)'
  <2>1. \A q \in PageId : View[q].next_page_id \in {NoPage, View'[q].next_page_id}
    BY <1>3, <1>4
  <2> QED BY <1>2, <1>5, <1>6, <2>1, MoreLinks DEF Chain
<1>8. ASSUME NEW h \in Heap \ {op.heap}
      PROVE  Chain(h, View)' = Chain(h, View)
  <2>1. Chain(h, View) \cap Chain(op.heap, View) = {}
    BY <1>2, ViewsLag, ChainsApart DEF Reach
  <2>2. \A q \in Chain(h, View) : View'[q].next_page_id = View[q].next_page_id
    BY <1>3, <1>4, <1>6, <2>1
  <2> QED BY <1>2, <1>5, <1>6, <2>2, SameLinks DEF Chain
<1>9. ASSUME NEW h \in Heap, h = op.heap
      PROVE  Chain(h, View)' = Chain(h, View) \cup {b}
  <2> DEFINE p == first_page[h]
             C == Chain(h, View)
             D == From(p, View')
  <2>1. /\ p \in Link /\ C \in SUBSET PageId /\ Shut(C, View) /\ p \in C \cup {NoPage}
        /\ D \in SUBSET PageId /\ Shut(D, View')
        /\ \A S \in SUBSET PageId : p \in S \cup {NoPage} /\ Shut(S, View') => D \subseteq S
    BY <1>2, <1>5, <1>6, FromFacts DEF Chain
  <2>2. Chain(h, View)' = D /\ C \subseteq D
    BY <1>2, <1>7 DEF Chain
  <2> HIDE DEF C, D, p
  <2>3. Shut(C \cup {b}, View')
    <3>1. ASSUME NEW q \in C \cup {b} PROVE View'[q].next_page_id \in C \cup {b, NoPage}
      BY <1>1, <1>4, <2>1 DEF Shut
    <3> QED BY <3>1 DEF Shut
  <2>4. D \subseteq C \cup {b}
    BY <1>1, <2>1, <2>3
  <2>5. b \in D
    <3>1. a \in D /\ View'[a].next_page_id = b
      BY <1>1, <1>3, <1>4, <1>9, <2>2 DEF C
    <3> QED BY <1>1, <2>1, <3>1, PageIdFacts DEF Shut
  <2>6. D = C \cup {b}
    BY <2>2, <2>4, <2>5
  <2> QED BY <2>2, <2>6 DEF C
<1> QED BY <1>2, <1>7, <1>8, <1>9 DEF ChainsGrow

LEMMA LinkRowed ==
  ASSUME Reach, Linked, Rowed, LinkPrev
  PROVE  Rowed'
<1> DEFINE d == [Page(op.prev) EXCEPT !.next_page_id = op.page]
<1>1. /\ op \in InsertOp /\ op.prev \in PageId /\ Page(op.prev) \in TablePage
      /\ d.slots = Page(op.prev).slots /\ Rewrites(op.prev, d)
  BY LinkEffect DEF Reach
<1>2. /\ op.step = "link" /\ op' = [op EXCEPT !.step = "put"]
      /\ rows' = rows /\ faulted' = faulted /\ first_page' = first_page
  BY DEF LinkPrev, Goto
<1> HIDE DEF d
<1>3. /\ ChainsGrow /\ op.heap \in Heap
      /\ \A h \in Heap : h = op.heap => op.page \in Chain(h, View)'
  BY LinkChains DEF Rowed
<1>4. op.replaces \subseteq rows[op.heap]
  BY <1>2 DEF Rowed, CallsRows, InsertSteps
<1>5. ASSUME ~faulted, NEW h \in Heap, NEW r \in rows[h] PROVE Placed(h, r)'
  <2>1. Placed(h, r) /\ r.page \in PageId
    BY <1>5, RowFacts DEF Rowed, RowsPlaced, Reach
  <2>2. r.page = op.prev => Has(d, r)
    BY <1>1, <2>1 DEF Placed, Has, IsLive, Rewrites
  <2> QED BY <1>1, <1>3, <2>1, <2>2, RewritePlaced DEF Reach
<1>6. RowsPlaced'
  BY <1>2, <1>5 DEF RowsPlaced
<1>7. /\ op'.step = "put" /\ op'.page = op.page /\ op'.heap = op.heap
      /\ op'.replaces = op.replaces
  BY <1>1, <1>2 DEF InsertOp
<1>8. OnChain'
  BY <1>3, <1>7 DEF OnChain
<1> QED BY <1>2, <1>4, <1>6, <1>7, <1>8 DEF Rowed, RowIsPut, CallsRows, ModifySteps

\* What a put leaves of its page: the slots it had, and one more.
LEMMA PutSlots ==
  ASSUME TuplesFit, Inv, Put
  PROVE  \E d \in TablePage :
           /\ op \in InsertOp /\ op.page \in PageId /\ op.tuple \in Tuples
           /\ Page(op.page) \in TablePage /\ d.next_page_id = Page(op.page).next_page_id
           /\ Rewrites(op.page, d) /\ pages'[op.page].dirty
           /\ Keeps(Page(op.page), d)
           /\ Has(d, Row(op.page, Len(d.slots), op.tuple))
           /\ Len(d.slots) = Len(Page(op.page).slots) + 1
           /\ DOMAIN d.slots = (DOMAIN Page(op.page).slots) \cup {Len(d.slots)}
           /\ Len(d.slots) \notin DOMAIN Page(op.page).slots
<1>1. PICK pg \in TablePage :
        /\ op.page \in PageId /\ Page(op.page) \in TablePage
        /\ pg.next_page_id = Page(op.page).next_page_id
        /\ pg.slots = Page(op.page).slots
        /\ PutTuple(pg, op.tuple) \in TablePage
        /\ PutTuple(pg, op.tuple).next_page_id = pg.next_page_id
        /\ Rewrites(op.page, PutTuple(pg, op.tuple)) /\ pages'[op.page].dirty
  BY PutEffect
<1>2. op \in InsertOp /\ op.tuple \in Tuples
  BY OpFacts DEF Put, Inv, InsertOp
<1> DEFINE d == PutTuple(pg, op.tuple)
           slot == [tuple_offset |-> (pg.tuple_start_ptr - op.tuple.size) % Word,
                    tuple_length |-> op.tuple.size, is_live |-> TRUE, tuple |-> op.tuple]
           s == Page(op.page).slots
           n == Len(s) + 1
<1>3. d.slots = Append(s, slot) /\ slot.is_live /\ slot.tuple = op.tuple
  BY <1>1 DEF TablePage, PageOf, PutTuple
<1>4. s \in Seq(SlotOf(Tuples))
  BY <1>1 DEF TablePage, PageOf
<1> HIDE DEF slot, s
<1>5. /\ Len(d.slots) = n /\ DOMAIN d.slots = 1 .. n /\ DOMAIN s = 1 .. n - 1
      /\ n \in Nat \ {0} /\ d.slots[n] = slot
      /\ \A i \in DOMAIN s : i \in 1 .. n /\ d.slots[i] = s[i]
  BY <1>3, <1>4
<1>6. Keeps(Page(op.page), d)
  BY <1>5 DEF Keeps, s
<1>7. Row(op.page, n, op.tuple).slot = n /\ Row(op.page, n, op.tuple).tuple = op.tuple
  BY DEF Row
<1>8. Has(d, Row(op.page, n, op.tuple))
  BY <1>3, <1>5, <1>7 DEF Has, IsLive
<1>9. 1 .. n = (1 .. n - 1) \cup {n} /\ n \notin 1 .. n - 1
  BY <1>5
<1>10. DOMAIN d.slots = (DOMAIN s) \cup {n} /\ n \notin DOMAIN s
  BY <1>5, <1>9
<1>11. d \in TablePage /\ d.next_page_id = Page(op.page).next_page_id /\ Rewrites(op.page, d)
  BY <1>1
<1> HIDE DEF d
<1> QED BY <1>1, <1>2, <1>5, <1>6, <1>8, <1>10, <1>11 DEF s

LEMMA PutRowed ==
  ASSUME TuplesFit, Reach, Linked, Rowed, Put
  PROVE  Rowed'
<1>1. PICK d \in TablePage :
        /\ op \in InsertOp /\ op.page \in PageId
        /\ Page(op.page) \in TablePage /\ d.next_page_id = Page(op.page).next_page_id
        /\ Rewrites(op.page, d) /\ pages'[op.page].dirty /\ Keeps(Page(op.page), d)
        /\ Has(d, Row(op.page, Len(d.slots), op.tuple))
  BY PutSlots DEF Reach
<1>2. /\ op.step = "put" /\ op' = [op EXCEPT !.step = "flush"]
      /\ rows' = rows /\ faulted' = faulted /\ first_page' = first_page
      /\ op.heap \in Heap
  BY <1>1 DEF Put, Goto, InsertOp
<1>3. LinksStay
  BY <1>1, RewriteLinks DEF Linked, PagesLinked
<1>4. ChainsGrow
  BY <1>2, <1>3, ChainsStay DEF Reach
<1>5. op.page \in Chain(op.heap, View) /\ op.replaces \subseteq rows[op.heap]
  BY <1>2 DEF Rowed, OnChain, CallsRows, InsertSteps
<1>6. ASSUME ~faulted, NEW h \in Heap, NEW r \in rows[h] PROVE Placed(h, r)'
  <2>1. Placed(h, r) /\ r.page \in PageId
    BY <1>6, RowFacts DEF Rowed, RowsPlaced, Reach
  <2>2. r.page = op.page => Has(d, r)
    <3>1. View[op.page] = Page(op.page)
      BY <1>1 DEF Rewrites
    <3> QED BY <1>1, <2>1, <3>1, KeptRow DEF Placed
  <2> QED BY <1>1, <1>4, <2>1, <2>2, RewritePlaced DEF Reach
<1>7. RowsPlaced'
  BY <1>2, <1>6 DEF RowsPlaced
<1>8. /\ op'.step = "flush" /\ op'.page = op.page /\ op'.heap = op.heap
      /\ op'.replaces = op.replaces /\ op'.tuple = op.tuple
  BY <1>1, <1>2 DEF InsertOp
<1>9. OnChain'
  BY <1>2, <1>4, <1>5, <1>8 DEF OnChain, ChainsGrow
<1>10. RowIsPut'
  <2>1. Page(op.page)' = d
    BY <1>1, <1>8 DEF Page, Rewrites
  <2>2. NewRow' = Row(op.page, Len(d.slots), op.tuple)
    BY <1>8, <2>1 DEF NewRow, Page
  <2> QED BY <1>1, <1>8, <2>1, <2>2 DEF RowIsPut, Page
<1> QED BY <1>2, <1>5, <1>7, <1>8, <1>9, <1>10 DEF Rowed, CallsRows, ModifySteps

\* The row is in the file when its page is flushed.
LEMMA FlushRowRowed ==
  ASSUME Reach, Linked, Rowed, FlushRow
  PROVE  Rowed'
<1>0. PICK x : x = NewRow
  OBVIOUS
<1>1. op \in InsertOp /\ op.step = "flush" /\ op.heap \in Heap
  BY OpFacts DEF FlushRow, Reach, Inv, InsertOp
<1>2. op.page \in PageId /\ pages[op.page] # NoFrame
  BY <1>1 DEF Reach, Inv, Locals, RoomIsThere, Holds
<1>3. /\ first_page' = first_page /\ rows' = rows
      /\ op' = [op EXCEPT !.step = "ack"]
      /\ \/ BPM!FlushPage(op.page) /\ faulted' = faulted
         \/ BPM!FlushFails /\ faulted'
  BY DEF FlushRow, Goto
<1>4. /\ op'.step = "ack" /\ op'.page = op.page /\ op'.heap = op.heap
      /\ op'.replaces = op.replaces /\ op'.tuple = op.tuple
  BY <1>1, <1>3 DEF InsertOp
<1>5. Quietly /\ NothingLost
  <2>1. BPM!FlushFails => UNCHANGED <<disk, pages>>
    BY DEF BPM!FlushFails, BPM!WriteError
  <2> QED BY <1>2, <1>3, <2>1, FlushQuiet, StillQuiet DEF Reach
<1>6. RowsPlaced' /\ \A h \in Heap : Chain(h, View)' = Chain(h, View)
  BY <1>3, <1>5, PoolStepRows DEF Rowed
<1>7. OnChain'
  BY <1>1, <1>4, <1>6 DEF Rowed, OnChain
<1>8. pages'[op.page].data = pages[op.page].data
  BY <1>2, <1>3, FlushKeepsPage DEF Reach, Inv
<1>9. NewRow' = x /\ Has(pages[op.page].data, x) /\ Page(op.page)' = pages[op.page].data
  BY <1>0, <1>1, <1>4, <1>8 DEF Rowed, RowIsPut, NewRow, Page
<1>10. ~faulted' => Has(disk'[op.page].data, x)
  <2>1. CASE BPM!FlushPage(op.page)
    BY <1>2, <1>9, <2>1, FlushMoves DEF Reach, PoolReach
  <2>2. CASE faulted'
    BY <2>2
  <2> QED BY <1>3, <2>1, <2>2
<1>11. RowIsPut'
  BY <1>4, <1>9, <1>10 DEF RowIsPut
<1>12. CallsRows'
  BY <1>1, <1>3, <1>4 DEF Rowed, CallsRows, ModifySteps, InsertSteps
<1> QED BY <1>6, <1>7, <1>11, <1>12 DEF Rowed

LEMMA AckRowed ==
  ASSUME Reach, Linked, Rowed, Acknowledge
  PROVE  Rowed'
<1>0. PICK x : x = NewRow
  OBVIOUS
<1>1. op \in InsertOp /\ op.step = "ack" /\ op.heap \in Heap
  BY OpFacts DEF Acknowledge, Reach, Inv, InsertOp
<1>2. /\ op.page \in PageId /\ pages[op.page] # NoFrame
      /\ x \in RowType /\ x.page = op.page
  BY <1>0, <1>1, NewRowType DEF Reach, Inv, Locals, RoomIsThere, Holds
<1>3. /\ UNCHANGED <<disk, pages>> /\ first_page' = first_page /\ faulted' = faulted
      /\ rows' = [rows EXCEPT ![op.heap] = @ \cup {x}]
      /\ rows \in [Heap -> SUBSET RowType]
  BY <1>0 DEF Acknowledge, poolVars, Reach, Inv, CallInv
<1>4. Quietly /\ NothingLost
  BY <1>3, StillQuiet
<1>5. LinksStay
  BY <1>4, QuietLinks DEF Linked, PagesLinked
<1>6. ChainsGrow
  BY <1>3, <1>5, ChainsStay DEF Reach
<1>7. /\ op.page \in Chain(op.heap, View) /\ op.replaces \subseteq rows[op.heap]
      /\ Has(pages[op.page].data, x) /\ (~faulted => Has(disk[op.page].data, x))
  BY <1>0, <1>1 DEF Rowed, OnChain, RowIsPut, CallsRows, InsertSteps, Page
<1>8. ASSUME ~faulted, NEW h \in Heap, NEW r \in rows'[h] PROVE Placed(h, r)'
  <2>1. CASE r \in rows[h]
    <3>1. Placed(h, r) /\ r.page \in PageId
      BY <1>8, <2>1, RowFacts DEF Rowed, RowsPlaced, Reach
    <3> QED BY <1>4, <1>6, <3>1, QuietPlaced DEF Reach
  <2>2. CASE r \notin rows[h]
    <3>1. r = x /\ h = op.heap
      BY <1>1, <1>3, <1>8, <2>2
    <3>2. r.page \in Chain(h, View)'
      BY <1>1, <1>2, <1>6, <1>7, <3>1 DEF ChainsGrow
    <3>3. Has(View'[op.page], r) /\ Has(disk'[op.page].data, r)
      BY <1>2, <1>3, <1>7, <1>8, <3>1, ViewFacts
    <3> QED BY <1>2, <3>1, <3>2, <3>3 DEF Placed
  <2> QED BY <2>1, <2>2
<1>9. RowsPlaced'
  BY <1>3, <1>8 DEF RowsPlaced
<1>10. OnChain' /\ RowIsPut' /\ CallsRows'
  <2>1. CASE op' = Idle
    BY <2>1, CallOver
  <2>2. CASE \E r \in op.replaces :
               op' = [step |-> "fetchVictim", heap |-> op.heap, row |-> r]
    <3>1. PICK r \in op.replaces :
            op' = [step |-> "fetchVictim", heap |-> op.heap, row |-> r]
      BY <2>2
    <3>2. op'.step = "fetchVictim" /\ op'.heap = op.heap /\ op'.row = r
      BY <3>1
    <3>3. r \in rows'[op.heap]
      BY <1>1, <1>3, <1>7
    <3> QED BY <3>2, <3>3 DEF OnChain, RowIsPut, CallsRows, InsertSteps
  <2> QED BY <2>1, <2>2 DEF Acknowledge, Return
<1> QED BY <1>9, <1>10 DEF Rowed

\* Steps of a deletion or an update that keep the row in view.
LEMMA ModifyGoesOn ==
  ASSUME CallsRows, op.step \in ModifySteps, op'.step \in ModifySteps,
         op'.row = op.row, op'.heap = op.heap, rows' = rows
  PROVE  OnChain' /\ RowIsPut' /\ CallsRows'
  BY DEF OnChain, RowIsPut, CallsRows, ModifySteps, InsertSteps

LEMMA FetchVictimRowed ==
  ASSUME Reach, Linked, Rowed, FetchVictim
  PROVE  Rowed'
<1>1. op \in VictimOp /\ op.step = "fetchVictim" /\ op.row.page \in PageId
  BY OpFacts DEF FetchVictim, Reach, Inv, VictimOp, RowType
<1>2. /\ Quietly /\ NothingLost
      /\ first_page' = first_page /\ rows' = rows /\ faulted' = faulted
  BY <1>1, FetchQuiet DEF FetchVictim, Reach
<1>3. RowsPlaced'
  BY <1>2, PoolStepRows DEF Rowed
<1>4. CASE op' = Idle
  BY <1>3, <1>4, CallOver DEF Rowed
<1>5. CASE op' = [op EXCEPT !.step = "kill"]
  <2>1. op'.step = "kill" /\ op'.row = op.row /\ op'.heap = op.heap
    BY <1>1, <1>5 DEF VictimOp
  <2> QED BY <1>1, <1>2, <1>3, <2>1, ModifyGoesOn DEF Rowed, ModifySteps
<1> QED BY <1>4, <1>5 DEF FetchVictim, Goto, Return

LEMMA FetchOldRowed ==
  ASSUME Reach, Linked, Rowed, FetchOld
  PROVE  Rowed'
<1>1. op \in UpdateOp /\ op.step = "fetchOld" /\ op.row.page \in PageId /\ op.heap \in Heap
  BY OpFacts DEF FetchOld, Reach, Inv, UpdateOp, RowType
<1>2. /\ Quietly /\ NothingLost
      /\ first_page' = first_page /\ rows' = rows /\ faulted' = faulted
  BY <1>1, FetchQuiet DEF FetchOld, Reach
<1>3. RowsPlaced' /\ \A h \in Heap : Chain(h, View)' = Chain(h, View)
  BY <1>2, PoolStepRows DEF Rowed
<1>4. CASE op' = Idle
  BY <1>3, <1>4, CallOver DEF Rowed
<1>5. CASE op' = [op EXCEPT !.step = "overwrite"]
  <2>1. op'.step = "overwrite" /\ op'.row = op.row /\ op'.heap = op.heap
    BY <1>1, <1>5 DEF UpdateOp
  <2> QED BY <1>1, <1>2, <1>3, <2>1, ModifyGoesOn DEF Rowed, ModifySteps
<1>6. CASE op' = InsertCall(op.heap, op.tuple, {op.row})
  <2>1. /\ op'.step = "walk" /\ op'.page = first_page[op.heap] /\ op'.heap = op.heap
        /\ op'.replaces = {op.row}
    BY <1>6 DEF InsertCall
  <2>2. first_page[op.heap] # NoPage /\ op.row \in rows[op.heap]
    BY <1>1 DEF Reach, Inv, Locals, RowIsThere, Rowed, CallsRows, ModifySteps
  <2>3. first_page[op.heap] \in Chain(op.heap, View)
    BY <1>1, <2>2, ViewsLag, ChainFacts DEF Reach
  <2>4. OnChain' /\ RowIsPut' /\ CallsRows'
    BY <1>1, <1>2, <1>3, <2>1, <2>2, <2>3
       DEF OnChain, RowIsPut, CallsRows, ModifySteps
  <2> QED BY <1>3, <2>4 DEF Rowed
<1> QED BY <1>4, <1>5, <1>6 DEF FetchOld, Goto, Return

\* Two rows of one heap at one place are one row, and rows of two heaps are
\* never on one page.
LEMMA RowsApart ==
  ASSUME Inv, Linked, NEW g \in Heap, NEW h \in Heap,
         NEW r \in RowType, NEW s \in RowType, Placed(g, r), Placed(h, s), r.page = s.page
  PROVE  g = h /\ (r.slot = s.slot => r = s)
<1>1. g = h
  <2>1. r.page \in Chain(g, View) \cap Chain(h, View)
    BY DEF Placed
  <2>2. g # h => Chain(g, View) \cap Chain(h, View) = {}
    BY ViewsLag, ChainsApart
  <2> QED BY <2>1, <2>2
<1>2. r.slot = s.slot => r.tuple = s.tuple
  BY DEF Placed, Has
<1> QED BY <1>1, <1>2 DEF RowType

LEMMA KillRowed ==
  ASSUME Reach, Linked, Rowed, Kill
  PROVE  Rowed'
<1> DEFINE p == op.row.page
           d == MarkDead(Page(p), op.row.slot)
<1>1. /\ p \in PageId /\ Rewrites(p, d) /\ Page(p) \in TablePage /\ d \in TablePage
      /\ d.next_page_id = Page(p).next_page_id
  BY KillEffect DEF Reach
<1>2. /\ op \in VictimOp /\ op.step = "kill" /\ op.heap \in Heap /\ op.row \in RowType
      /\ op.row \in rows[op.heap]
  BY OpFacts DEF Kill, Reach, Inv, VictimOp, Rowed, CallsRows, ModifySteps
<1>3. /\ op' = Idle /\ first_page' = first_page /\ faulted' = faulted
      /\ \A h \in Heap : rows'[h] \subseteq rows[h] /\ (h = op.heap => op.row \notin rows'[h])
  BY <1>2 DEF Kill, Return, Reach, Inv, CallInv
<1>4. \A i \in DOMAIN Page(p).slots : i # op.row.slot =>
        i \in DOMAIN d.slots /\ d.slots[i] = Page(p).slots[i]
  BY <1>1 DEF MarkDead, TablePage, PageOf
<1> HIDE DEF p, d
<1>5. LinksStay
  BY <1>1, RewriteLinks DEF Linked, PagesLinked
<1>6. ChainsGrow
  BY <1>3, <1>5, ChainsStay DEF Reach
<1>7. ASSUME ~faulted, NEW h \in Heap, NEW r \in rows'[h] PROVE Placed(h, r)'
  <2>1. /\ Placed(h, r) /\ r.page \in PageId /\ r \in RowType
        /\ Placed(op.heap, op.row)
    BY <1>2, <1>3, <1>7, RowFacts DEF Rowed, RowsPlaced, Reach
  <2>2. r.page = p => Has(d, r)
    <3>1. SUFFICES ASSUME r.page = p PROVE Has(d, r)
      OBVIOUS
    <3>2. h = op.heap /\ r.slot # op.row.slot
      BY <1>2, <1>3, <1>7, <2>1, <3>1, RowsApart DEF p, Reach
    <3>3. Has(Page(p), r)
      BY <1>1, <2>1, <3>1 DEF Placed, Rewrites
    <3> QED BY <1>4, <3>2, <3>3 DEF Has, IsLive
  <2> QED BY <1>1, <1>6, <2>1, <2>2, RewritePlaced DEF Reach
<1>8. RowsPlaced'
  BY <1>3, <1>7 DEF RowsPlaced
<1> QED BY <1>3, <1>8, CallOver DEF Rowed

LEMMA OverwriteRowed ==
  ASSUME Reach, Linked, Rowed, OverwriteRow
  PROVE  Rowed'
<1> DEFINE p == op.row.page
           d == Overwrite(Page(p), op.row.slot, op.tuple)
<1>1. /\ p \in PageId /\ Rewrites(p, d) /\ Page(p) \in TablePage /\ d \in TablePage
      /\ d.next_page_id = Page(p).next_page_id /\ pages'[p].dirty
      /\ op.row.slot \in DOMAIN Page(p).slots
  BY OverwriteEffect DEF Reach
<1>2. /\ op \in UpdateOp /\ op.step = "overwrite" /\ op.heap \in Heap /\ op.row \in RowType
      /\ op.row \in rows[op.heap]
  BY OpFacts DEF OverwriteRow, Reach, Inv, UpdateOp, Rowed, CallsRows, ModifySteps
<1>3. PICK x : x = Row(p, op.row.slot, op.tuple)
  OBVIOUS
<1>4. /\ op' = Idle /\ first_page' = first_page /\ faulted' = faulted
      /\ rows' = [rows EXCEPT ![op.heap] = (@ \ {op.row}) \cup {x}]
      /\ rows \in [Heap -> SUBSET RowType]
  BY <1>2, <1>3 DEF OverwriteRow, Return, Reach, Inv, CallInv
<1>5. /\ \A i \in DOMAIN Page(p).slots : i # op.row.slot =>
           i \in DOMAIN d.slots /\ d.slots[i] = Page(p).slots[i]
      /\ op.row.slot \in DOMAIN d.slots
      /\ d.slots[op.row.slot].tuple = op.tuple
      /\ d.slots[op.row.slot].is_live = Page(p).slots[op.row.slot].is_live
  <2> DEFINE s == Page(p).slots
             i == op.row.slot
  <2>1. s \in Seq(SlotOf(Tuples)) /\ d.slots = [s EXCEPT ![i].tuple = op.tuple]
        /\ i \in DOMAIN s
    BY <1>1 DEF Overwrite, TablePage, PageOf
  <2>2. s[i] \in SlotOf(Tuples)
    BY <2>1
  <2> HIDE DEF s, i
  <2>3. /\ DOMAIN d.slots = DOMAIN s /\ d.slots[i] = [s[i] EXCEPT !.tuple = op.tuple]
        /\ \A j \in DOMAIN s : j # i => d.slots[j] = s[j]
    BY <2>1
  <2>4. d.slots[i].tuple = op.tuple /\ d.slots[i].is_live = s[i].is_live
    BY <2>2, <2>3 DEF SlotOf
  <2> QED BY <2>1, <2>3, <2>4 DEF s, i
<1> HIDE DEF p, d
<1>6. LinksStay
  BY <1>1, RewriteLinks DEF Linked, PagesLinked
<1>7. ChainsGrow
  BY <1>4, <1>6, ChainsStay DEF Reach
<1>8. ASSUME ~faulted, NEW h \in Heap, NEW r \in rows'[h] PROVE Placed(h, r)'
  <2>1. Placed(op.heap, op.row) /\ x.page = p /\ x.slot = op.row.slot /\ x.tuple = op.tuple
    BY <1>2, <1>3, <1>8 DEF Rowed, RowsPlaced, Row
  <2>2. CASE r \in rows[h] /\ ~(h = op.heap /\ r = op.row)
    <3>1. Placed(h, r) /\ r.page \in PageId /\ r \in RowType
      BY <1>8, <2>2, RowFacts DEF Rowed, RowsPlaced, Reach
    <3>2. r.page = p => Has(d, r)
      <4>1. SUFFICES ASSUME r.page = p PROVE Has(d, r)
        OBVIOUS
      <4>2. r.slot # op.row.slot
        BY <1>2, <2>1, <2>2, <3>1, <4>1, RowsApart DEF p, Reach
      <4>3. Has(Page(p), r)
        BY <1>1, <3>1, <4>1 DEF Placed, Rewrites
      <4> QED BY <1>5, <4>2, <4>3 DEF Has, IsLive
    <3> QED BY <1>1, <1>7, <3>1, <3>2, RewritePlaced DEF Reach
  <2>3. CASE r = x /\ h = op.heap
    <3>1. r.page \in Chain(h, View)'
      BY <1>2, <1>7, <2>1, <2>3 DEF Placed, ChainsGrow, p
    <3>2. IsLive(Page(p), op.row.slot)
      BY <1>1, <2>1 DEF Placed, Has, Rewrites, p
    <3>3. Has(d, r)
      BY <1>5, <2>1, <2>3, <3>2 DEF Has, IsLive
    <3>4. Has(View'[p], r)
      BY <1>1, <3>3 DEF Rewrites
    <3> QED BY <1>1, <2>1, <2>3, <3>1, <3>4 DEF Placed
  <2>4. (r \in rows[h] /\ ~(h = op.heap /\ r = op.row)) \/ (r = x /\ h = op.heap)
    BY <1>2, <1>4, <1>8
  <2> QED BY <2>2, <2>3, <2>4
<1>9. RowsPlaced'
  BY <1>4, <1>8 DEF RowsPlaced
<1> QED BY <1>4, <1>9, CallOver DEF Rowed

LEMMA ScanRowed ==
  ASSUME Reach, Linked, Rowed, ScanPage
  PROVE  Rowed'
<1>1. IsScan(op) /\ op.page \in PageId
  BY OpFacts DEF ScanPage, Reach, Inv, ScanSteps, IsScan
<1>2. /\ Quietly /\ NothingLost
      /\ first_page' = first_page /\ rows' = rows /\ faulted' = faulted
  BY <1>1, FetchQuiet DEF ScanPage, Reach
<1>3. RowsPlaced'
  BY <1>2, PoolStepRows DEF Rowed
<1>4. op'.step \in ScanSteps
  BY ScanStays DEF Reach, IsScan
<1> QED BY <1>3, <1>4 DEF Rowed, OnChain, RowIsPut, CallsRows, ScanSteps, ModifySteps, InsertSteps

LEMMA ThrowsRowed ==
  ASSUME Reach, Linked, Rowed, Throws
  PROVE  Rowed'
<1>1. faulted' /\ op' = Idle
  BY DEF Throws, Return
<1> QED BY <1>1, CallOver DEF Rowed, RowsPlaced

LEMMA CreateRowed ==
  ASSUME Reach, Linked, Rowed, NEW h \in Heap, CreateHeap(h)
  PROVE  Rowed'
<1>1. PICK p \in PageId : BPM!NewPage(p) /\ first_page' = [first_page EXCEPT ![h] = p]
  BY DEF CreateHeap
<1>2. op' = Idle /\ first_page[h] = NoPage /\ rows' = rows /\ faulted' = faulted
  BY DEF CreateHeap
<1>3. \A g \in Heap : first_page'[g] = IF g = h THEN p ELSE first_page[g]
  BY <1>1 DEF Reach, Inv, CallInv
<1>4. RowsPlaced'
  BY <1>1, <1>2, <1>3, NewPageRows DEF Rowed
<1> QED BY <1>2, <1>4, CallOver DEF Rowed

\* Where the pages do not change.
LEMMA SameRows ==
  ASSUME Reach, Linked, Rowed, UNCHANGED <<disk, pages, first_page, rows, faulted>>
  PROVE  RowsPlaced' /\ \A h \in Heap : Chain(h, View)' = Chain(h, View)
<1>1. Quietly /\ NothingLost
  BY StillQuiet
<1> QED BY <1>1, PoolStepRows DEF Rowed

LEMMA BeginRowed ==
  ASSUME Reach, Linked, Rowed, NEW h \in Heap,
         \/ Scan(h)
         \/ \E t \in Tuples : Insert(h, t)
         \/ \E r \in rows[h] : Delete(h, r)
         \/ \E r \in rows[h], t \in Tuples : Update(h, r, t)
  PROVE  Rowed'
<1>1. UNCHANGED <<disk, pages, first_page, rows, faulted>> /\ first_page[h] # NoPage
  BY DEF Scan, Insert, Delete, Update, Ready, poolVars
<1>2. RowsPlaced' /\ \A g \in Heap : Chain(g, View)' = Chain(g, View)
  BY <1>1, SameRows
<1>3. CASE Scan(h)
  <2>1. op'.step = "begin"
    BY <1>3 DEF Scan
  <2> QED BY <1>2, <2>1 DEF Rowed, OnChain, RowIsPut, CallsRows, ModifySteps, InsertSteps
<1>4. CASE \E t \in Tuples : Insert(h, t)
  <2>1. /\ op'.step = "walk" /\ op'.page = first_page[h] /\ op'.heap = h /\ op'.replaces = {}
    BY <1>4 DEF Insert, InsertCall
  <2>2. first_page[h] \in Chain(h, View)
    BY <1>1, ViewsLag, ChainFacts DEF Reach
  <2> QED BY <1>1, <1>2, <2>1, <2>2 DEF Rowed, OnChain, RowIsPut, CallsRows, ModifySteps
<1>5. CASE \/ \E r \in rows[h] : Delete(h, r)
           \/ \E r \in rows[h], t \in Tuples : Update(h, r, t)
  <2>1. op'.step \in {"fetchVictim", "fetchOld"} /\ op'.row \in rows[h] /\ op'.heap = h
    BY <1>5 DEF Delete, Update
  <2> QED BY <1>1, <1>2, <2>1 DEF Rowed, OnChain, RowIsPut, CallsRows, InsertSteps
<1> QED BY <1>3, <1>4, <1>5

LEMMA CloseRowed ==
  ASSUME Reach, Linked, Rowed, Close
  PROVE  Rowed'
<1>1. first_page' = first_page /\ op' = Idle /\ rows' = rows
  BY DEF Close
<1>2. Quietly /\ NothingLost /\ (faulted' = faulted \/ faulted')
  <2>1. ASSUME NEW p \in PageId, BPM!FlushOne(p) PROVE Quietly /\ NothingLost
    BY <2>1, FlushQuiet DEF Reach
  <2>2. ASSUME BPM!BeginClose \/ BPM!FlushAllFails \/ BPM!EndClose
        PROVE  Quietly /\ NothingLost
    <3>1. ~BPM!EvictionFails /\ ~BPM!Crash
      <4>1. mode # "open" \/ mode' # mode
        BY <2>2 DEF BPM!BeginClose, BPM!FlushAllFails, BPM!EndClose
      <4>2. mode' # "crashed"
        BY <2>2 DEF BPM!BeginClose, BPM!FlushAllFails, BPM!EndClose
      <4>3. BPM!EvictionFails => mode = "open" /\ mode' = mode
        BY DEF BPM!EvictionFails
      <4>4. BPM!Crash => mode' = "crashed"
        BY DEF BPM!Crash
      <4> QED BY <4>1, <4>2, <4>3, <4>4
    <3>2. Inv
      BY DEF Reach
    <3>3. Quietly /\ NothingLost
      BY <2>2, <3>1, <3>2, FailQuiet
    <3> QED BY <3>3
  <2>3. \/ \E p \in PageId : BPM!FlushOne(p)
        \/ BPM!BeginClose \/ BPM!FlushAllFails \/ BPM!EndClose
    BY DEF Close
  <2>4. faulted' = faulted \/ faulted'
    BY DEF Close
  <2> QED BY <2>1, <2>2, <2>3, <2>4
<1>3. RowsPlaced'
  BY <1>1, <1>2, PoolStepRows DEF Rowed
<1> QED BY <1>1, <1>3, CallOver DEF Rowed

\* After a crash the process sees what the file holds.
LEMMA CrashViews ==
  ASSUME Crash
  PROVE  /\ View' = BPM!StableView /\ BPM!StableView' = BPM!StableView
         /\ \A q \in PageId : pages'[q] = NoFrame
         /\ first_page' = first_page /\ op' = Idle /\ ~faulted'
         /\ \A h \in Heap : rows'[h] = RowsOf(h, BPM!StableView)
<1>1. /\ pages' = [p \in PageId |-> NoFrame] /\ disk' = disk
      /\ rows' = [h \in Heap |-> DiskRows(h)]
  BY DEF Crash, BPM!Crash, BPM!EmptyPool, PageId
<1>2. View' = BPM!StableView /\ BPM!StableView' = BPM!StableView
  BY <1>1 DEF View, BPM!StoreView, BPM!StableView, BPM!Cached, PageId
<1> QED BY <1>1, <1>2 DEF Crash, DiskRows

\* What it is to be one of the rows of a heap.
LEMMA RowsOfFacts ==
  ASSUME NEW h \in Heap, NEW at
  PROVE  /\ \A r \in RowsOf(h, at) :
              r.page \in Chain(h, at) /\ Has(at[r.page], r) /\ r = Row(r.page, r.slot, r.tuple)
         /\ \A r \in RowType :
              r.page \in Chain(h, at) /\ Has(at[r.page], r) => r \in RowsOf(h, at)
         /\ \A p \in Chain(h, at) : \A i \in LiveSlots(at[p]) :
              Row(p, i, at[p].slots[i].tuple) \in RowsOf(h, at)
<1>1. ASSUME NEW r \in RowsOf(h, at)
      PROVE  r.page \in Chain(h, at) /\ Has(at[r.page], r) /\ r = Row(r.page, r.slot, r.tuple)
  <2>1. PICK p \in Chain(h, at) : \E i \in LiveSlots(at[p]) :
          r = Row(p, i, at[p].slots[i].tuple)
    BY DEF RowsOf
  <2>2. PICK i \in LiveSlots(at[p]) : r = Row(p, i, at[p].slots[i].tuple)
    BY <2>1
  <2>3. r.page = p /\ r.slot = i /\ r.tuple = at[p].slots[i].tuple
    BY <2>2 DEF Row
  <2> QED BY <2>1, <2>2, <2>3 DEF Has, IsLive, LiveSlots
<1>2. ASSUME NEW r \in RowType, r.page \in Chain(h, at), Has(at[r.page], r)
      PROVE  r \in RowsOf(h, at)
  <2>1. r.slot \in LiveSlots(at[r.page]) /\ r = Row(r.page, r.slot, at[r.page].slots[r.slot].tuple)
    BY <1>2 DEF Has, IsLive, LiveSlots, Row, RowType
  <2> QED BY <1>2, <2>1 DEF RowsOf
<1>3. \A p \in Chain(h, at) : \A i \in LiveSlots(at[p]) :
        Row(p, i, at[p].slots[i].tuple) \in RowsOf(h, at)
  BY DEF RowsOf
<1> QED BY <1>1, <1>2, <1>3

LEMMA CrashRowed ==
  ASSUME Reach, Linked, Rowed, Crash
  PROVE  Rowed'
<1>1. /\ View' = BPM!StableView /\ \A q \in PageId : pages'[q] = NoFrame
      /\ first_page' = first_page /\ op' = Idle
      /\ \A h \in Heap : rows'[h] = RowsOf(h, BPM!StableView)
  BY CrashViews
<1>2. ASSUME NEW h \in Heap, NEW r \in rows'[h] PROVE Placed(h, r)'
  <2>1. r.page \in Chain(h, BPM!StableView) /\ Has(BPM!StableView[r.page], r)
    BY <1>1, <1>2, RowsOfFacts
  <2>2. r.page \in PageId
    BY <2>1, ViewsLag, ChainFacts DEF Reach
  <2>3. r.page \in Chain(h, View)'
    BY <1>1, <2>1 DEF Chain
  <2> QED BY <1>1, <2>1, <2>2, <2>3 DEF Placed
<1> QED BY <1>1, <1>2, CallOver DEF Rowed, RowsPlaced

LEMMA SameRowed ==
  ASSUME Reach, Linked, Rowed, UNCHANGED <<disk, pages, first_page, rows, faulted>>,
         op' = op \/ op' = Idle
  PROVE  Rowed'
<1>1. RowsPlaced' /\ \A h \in Heap : Chain(h, View)' = Chain(h, View)
  BY SameRows
<1>2. CASE op' = op
  <2>1. op.step \in InsertSteps => op.heap \in Heap
    BY OpFacts DEF Reach, Inv, InsertOp, InsertSteps
  <2>2. OnChain'
    BY <1>1, <1>2, <2>1 DEF Rowed, OnChain, InsertSteps
  <2>3. RowIsPut'
    BY <1>2 DEF Rowed, RowIsPut, NewRow, Page
  <2> QED BY <1>1, <1>2, <2>2, <2>3 DEF Rowed, CallsRows
<1> QED BY <1>1, <1>2, CallOver DEF Rowed

LEMMA InitRowed == Init => Rowed
<1> SUFFICES ASSUME Init PROVE Rowed
  OBVIOUS
<1>1. rows = [h \in Heap |-> {}] /\ op.step = "idle"
  BY DEF Init, Idle
<1> QED BY <1>1 DEF Rowed, RowsPlaced, OnChain, RowIsPut, CallsRows, ModifySteps, InsertSteps

LEMMA NextRowed == TuplesFit /\ Reach /\ Linked /\ Rowed /\ [Next]_vars => Rowed'
<1> SUFFICES ASSUME TuplesFit, Reach, Linked, Rowed, [Next]_vars PROVE Rowed'
  OBVIOUS
<1>1. ASSUME NEW h \in Heap, CreateHeap(h) PROVE Rowed'
  BY <1>1, CreateRowed
<1>2. ASSUME NEW h \in Heap,
             \/ Scan(h)
             \/ \E t \in Tuples : Insert(h, t)
             \/ \E r \in rows[h] : Delete(h, r)
             \/ \E r \in rows[h], t \in Tuples : Update(h, r, t)
      PROVE  Rowed'
  BY <1>2, BeginRowed
<1>3. CASE WalkPage \/ ExtendChain \/ FetchPrev \/ LinkPrev \/ Put \/ FlushRow
          \/ Acknowledge
  BY <1>3, WalkRowed, ExtendRowed, FetchPrevRowed, LinkRowed, PutRowed,
     FlushRowRowed, AckRowed
<1>4. CASE FetchVictim \/ Kill \/ FetchOld \/ OverwriteRow
  BY <1>4, FetchVictimRowed, KillRowed, FetchOldRowed, OverwriteRowed
<1>5. CASE ScanPage \/ Throws \/ Close \/ Crash
  BY <1>5, ScanRowed, ThrowsRowed, CloseRowed, CrashRowed
<1>6. CASE EndScan \/ Reopen \/ UNCHANGED vars
  <2>1. UNCHANGED <<disk, pages, first_page, rows, faulted>> /\ (op' = op \/ op' = Idle)
    BY <1>6 DEF EndScan, Return, Reopen, BPM!Open, BPM!OpenFile, vars, poolVars, heapVars
  <2> QED BY <2>1, SameRowed
<1> QED BY <1>1, <1>2, <1>3, <1>4, <1>5, <1>6 DEF Next

LEMMA RowedKeeps ==
  ASSUME Reach, Rowed
  PROVE  RowsAreKept
<1>1. ASSUME ~faulted, NEW h \in Heap, NEW r \in rows[h] PROVE r \in RowsOf(h, View)
  <2>1. Placed(h, r) /\ r \in RowType
    BY <1>1, RowFacts DEF Rowed, RowsPlaced, Reach
  <2> QED BY <2>1, RowsOfFacts DEF Placed
<1> QED BY <1>1 DEF RowsAreKept

\* Unless a write failed, every row that was inserted and not deleted is on a
\* page of its heap's chain, whatever was evicted, flushed or linked since,
\* whatever other rows were deleted or updated, and after a crash too.
THEOREM NoRowIsLost == TuplesFit => (Spec => []RowsAreKept)
<1> SUFFICES ASSUME TuplesFit PROVE Spec => []RowsAreKept
  OBVIOUS
<1>1. Init => Reach /\ Linked /\ Rowed
  BY InitReach, InitLinked, InitRowed
<1>2. Reach /\ Linked /\ Rowed /\ [Next]_vars => Reach' /\ Linked' /\ Rowed'
  BY NextReach, NextLinked, NextRowed
<1>3. Reach /\ Rowed => RowsAreKept
  BY RowedKeeps
<1> QED BY <1>1, <1>2, <1>3, PTL DEF Spec

-----------------------------------------------------------------------------
(* Rows along the links, in two views.                                     *)

\* The rows of a set of pages.
RowsOn(C, at) == UNION {{Row(p, i, at[p].slots[i].tuple) : i \in LiveSlots(at[p])} : p \in C}

LEMMA RowsOfChain == \A h \in Heap : \A at : RowsOf(h, at) = RowsOn(From(first_page[h], at), at)
  BY DEF RowsOf, RowsOn, Chain

\* Pages with all their slots and more have all their rows and more.
LEMMA MoreRows ==
  ASSUME NEW C, NEW D, NEW at, NEW bt, C \subseteq D, \A q \in C : Keeps(at[q], bt[q])
  PROVE  RowsOn(C, at) \subseteq RowsOn(D, bt)
<1>1. ASSUME NEW r \in RowsOn(C, at) PROVE r \in RowsOn(D, bt)
  <2>1. PICK p \in C : \E i \in LiveSlots(at[p]) : r = Row(p, i, at[p].slots[i].tuple)
    BY <1>1 DEF RowsOn
  <2>2. PICK i \in LiveSlots(at[p]) : r = Row(p, i, at[p].slots[i].tuple)
    BY <2>1
  <2>3. p \in D /\ i \in LiveSlots(bt[p]) /\ bt[p].slots[i] = at[p].slots[i]
    BY <2>1, <2>2 DEF Keeps, LiveSlots
  <2> QED BY <2>2, <2>3 DEF RowsOn
<1> QED BY <1>1

LEMMA MoreRowsFrom ==
  ASSUME NEW at, NEW bt, Linking(at), Linking(bt), NEW p \in Link,
         \A q \in PageId : /\ at[q].next_page_id \in {NoPage, bt[q].next_page_id}
                           /\ Keeps(at[q], bt[q])
  PROVE  RowsOn(From(p, at), at) \subseteq RowsOn(From(p, bt), bt)
<1>1. From(p, at) \subseteq From(p, bt) /\ From(p, at) \in SUBSET PageId
  BY MoreLinks, FromFacts
<1> QED BY <1>1, MoreRows

LEMMA SameRowsFrom ==
  ASSUME NEW at, NEW bt, Linking(at), Linking(bt), NEW p \in Link,
         \A q \in From(p, at) : /\ bt[q].next_page_id = at[q].next_page_id
                                /\ bt[q].slots = at[q].slots
  PROVE  RowsOn(From(p, bt), bt) = RowsOn(From(p, at), at)
<1>1. From(p, bt) = From(p, at)
  BY SameLinks
<1> DEFINE C == From(p, at)
<1>2. \A q \in C : Keeps(at[q], bt[q]) /\ Keeps(bt[q], at[q])
  BY DEF Keeps
<1> HIDE DEF C
<1>3. RowsOn(C, at) \subseteq RowsOn(C, bt)
  BY <1>2, MoreRows
<1>4. RowsOn(C, bt) \subseteq RowsOn(C, at)
  BY <1>2, MoreRows
<1>5. RowsOn(C, bt) = RowsOn(C, at)
  BY <1>3, <1>4
<1> QED BY <1>1, <1>5 DEF C

-----------------------------------------------------------------------------
(* While rows are only inserted.                                           *)

\* A page loses no row, is linked on when it has one, and has all its space
\* before it has one.
Growing(d) ==
  /\ \A i \in DOMAIN d.slots : d.slots[i].is_live
  /\ d \in TablePage =>
       /\ d.next_page_id # NoPage => d.slots # <<>>
       /\ d.slots = <<>> => d.tuple_start_ptr = PAGE_SIZE

\* The file has some of the slots a page in the pool has, and all if it is clean.
ImagesGrow ==
  \A q \in PageId :
    /\ Growing(disk[q].data)
    /\ pages[q] # NoFrame =>
         /\ Growing(pages[q].data) /\ Keeps(disk[q].data, pages[q].data)
         /\ ~pages[q].dirty => pages[q].data = disk[q].data

\* A page that is to be linked has a row.
EndIsUsed ==
  /\ op.step = "walk" /\ op.page = NoPage => View[op.prev].slots # <<>>
  /\ op.step \in {"fetchPrev", "link"} => View[op.prev].slots # <<>>

\* The row a call has put in its page and not acknowledged yet; once its page
\* was forced.
Pending(h) == {r \in {NewRow} : op.step \in {"flush", "ack"} /\ op.heap = h}
Saved(h) == {r \in {NewRow} : op.step = "ack" /\ op.heap = h}

\* A heap's pages hold no rows but those that are acknowledged and the one that
\* is pending, which is not in the file until its page is forced.
RowsExact ==
  ~faulted => \A h \in Heap :
    /\ RowsOf(h, View) \subseteq rows[h] \cup Pending(h)
    /\ DiskRows(h) \subseteq rows[h] \cup Saved(h)

Grows == ImagesGrow /\ EndIsUsed /\ RowsExact

-----------------------------------------------------------------------------
(* Images under the steps of the pool and under writes.                    *)

LEMMA KeepsMore ==
  ASSUME NEW c, NEW d, NEW e, Keeps(c, d), Keeps(d, e)
  PROVE  Keeps(c, e)
  BY DEF Keeps

LEMMA QuietImages ==
  ASSUME ImagesGrow, Quietly
  PROVE  /\ ImagesGrow'
         /\ \A q \in PageId : /\ Keeps(disk[q].data, disk'[q].data)
                              /\ Keeps(View'[q], View[q])
                              /\ disk'[q].data \in {disk[q].data, View[q]}
                              /\ NothingLost => View'[q] = View[q]
<1>1. ASSUME NEW q \in PageId
      PROVE  /\ Growing(disk'[q].data)
             /\ pages'[q] # NoFrame =>
                  /\ Growing(pages'[q].data) /\ Keeps(disk'[q].data, pages'[q].data)
                  /\ ~pages'[q].dirty => pages'[q].data = disk'[q].data
             /\ Keeps(disk[q].data, disk'[q].data) /\ Keeps(View'[q], View[q])
             /\ disk'[q].data \in {disk[q].data, View[q]}
             /\ NothingLost => View'[q] = View[q]
  <2> DEFINE d == disk[q].data
             e == disk'[q].data
             v == View[q]
             u == View'[q]
  <2>1. /\ v = IF pages[q] # NoFrame THEN pages[q].data ELSE d
        /\ u = IF pages'[q] # NoFrame THEN pages'[q].data ELSE e
    BY ViewFacts
  <2>2. /\ Growing(d)
        /\ pages[q] # NoFrame => /\ Growing(pages[q].data) /\ Keeps(d, pages[q].data)
                                 /\ ~pages[q].dirty => pages[q].data = d
    BY DEF ImagesGrow
  <2>3. /\ e = d \/ (pages[q] # NoFrame /\ e = pages[q].data)
        /\ pages'[q] # NoFrame =>
             IF pages[q] # NoFrame THEN pages'[q].data = pages[q].data
             ELSE pages'[q].data = e /\ e = d
        /\ pages'[q] # NoFrame /\ ~pages'[q].dirty =>
             \/ e = pages'[q].data
             \/ pages[q] # NoFrame /\ ~pages[q].dirty /\ e = d
    BY DEF Quietly
  <2>4. NothingLost => (pages[q] # NoFrame /\ pages'[q] = NoFrame /\ pages[q].dirty => e = pages[q].data)
    BY DEF NothingLost
  <2>5. \A x : Keeps(x, x)
    BY KeepsItself
  <2> HIDE DEF d, e, u, v
  <2>6. /\ Growing(e) /\ Keeps(d, e) /\ Keeps(u, v) /\ e \in {d, v}
    BY <2>1, <2>2, <2>3, <2>5
  <2>7. pages'[q] # NoFrame =>
          /\ Growing(pages'[q].data) /\ Keeps(e, pages'[q].data)
          /\ ~pages'[q].dirty => pages'[q].data = e
    BY <2>2, <2>3, <2>5
  <2>8. NothingLost => u = v
    BY <2>1, <2>2, <2>3, <2>4
  <2> QED BY <2>6, <2>7, <2>8 DEF d, e, u, v
<1> QED BY <1>1 DEF ImagesGrow

LEMMA RewriteImages ==
  ASSUME ImagesGrow, NEW p \in PageId, NEW d, Rewrites(p, d), pages'[p].dirty,
         Growing(d), Keeps(Page(p), d)
  PROVE  ImagesGrow'
<1>1. /\ disk' = disk /\ pages[p] # NoFrame /\ pages'[p].data = d
      /\ \A q \in PageId \ {p} : pages'[q] = pages[q]
  BY DEF Rewrites
<1>2. Keeps(disk[p].data, d)
  BY <1>1, KeepsMore DEF ImagesGrow, Page
<1> QED BY <1>1, <1>2 DEF ImagesGrow

LEMMA NewPageImages ==
  ASSUME Reach, ImagesGrow, NEW p \in PageId, BPM!NewPage(p)
  PROVE  ImagesGrow'
<1>1. /\ disk'[p].data = EmptyPage /\ pages'[p].data = EmptyPage
      /\ \A q \in PageId \ {p} : disk'[q] = disk[q] /\ pages'[q] = pages[q]
  BY NewPageEffect
<1>2. Growing(EmptyPage)
  BY DEF Growing, EmptyPage
<1> QED BY <1>1, <1>2, KeepsItself DEF ImagesGrow

-----------------------------------------------------------------------------
(* What the steps do to the rows of the heaps.                             *)

\* The views and their chains, of this state and of the next.
LEMMA ViewsOfHeaps ==
  ASSUME Inv, Linked, NEW h \in Heap
  PROVE  /\ Linking(View) /\ Linking(BPM!StableView) /\ first_page[h] \in Link
         /\ From(first_page[h], View) \in SUBSET PageId
         /\ From(first_page[h], BPM!StableView) \in SUBSET PageId
         /\ From(first_page[h], BPM!StableView) \subseteq From(first_page[h], View)
<1>1. /\ Linking(View) /\ Linking(BPM!StableView) /\ Lags(BPM!StableView)
      /\ first_page[h] \in Link
  BY ViewsLag DEF Inv, CallInv
<1>2. From(first_page[h], BPM!StableView) \subseteq From(first_page[h], View)
  BY <1>1, MoreLinks DEF Lags
<1> QED BY <1>1, <1>2, FromFacts

\* What pages that move leave in the file is what was there and more, and no
\* more than the process sees; the process sees less only if pages were lost.
LEMMA QuietContents ==
  ASSUME Inv, Linked, ImagesGrow, Quietly, first_page' = first_page, NEW h \in Heap
  PROVE  /\ DiskRows(h) \subseteq DiskRows(h)'
         /\ DiskRows(h)' \subseteq RowsOf(h, View)'
         /\ RowsOf(h, View)' \subseteq RowsOf(h, View)
         /\ NothingLost => RowsOf(h, View)' = RowsOf(h, View)
<1> DEFINE p == first_page[h]
           S == BPM!StableView
           T == BPM!StableView'
<1>1. /\ FileFollows /\ FileFollows' /\ LinksShrink /\ (NothingLost => LinksStay)
      /\ ImagesGrow'
      /\ \A q \in PageId : /\ Keeps(disk[q].data, disk'[q].data)
                           /\ Keeps(View'[q], View[q])
                           /\ disk'[q].data \in {disk[q].data, View[q]}
                           /\ NothingLost => View'[q] = View[q]
  BY QuietLinks, QuietImages DEF Linked, PagesLinked
<1>2. \A q \in PageId : S[q] = disk[q].data /\ T[q] = disk'[q].data
  BY ViewFacts
<1>3. Linking(View) /\ Linking(S) /\ Linking(View') /\ p \in Link
  BY <1>1, ViewsOfHeaps, LinkingStays
<1>4. \A q \in PageId : /\ S[q].next_page_id \in {NoPage, T[q].next_page_id}
                        /\ T[q].next_page_id \in {NoPage, View'[q].next_page_id}
                        /\ View'[q].next_page_id \in {NoPage, View[q].next_page_id}
  BY <1>1, <1>2 DEF FileFollows, LinksShrink
<1>5. \A q \in PageId : Keeps(S[q], T[q]) /\ Keeps(T[q], View'[q]) /\ Keeps(View'[q], View[q])
  <2>1. \A q \in PageId : Keeps(disk'[q].data, View'[q])
    BY <1>1, ViewFacts, KeepsItself DEF ImagesGrow
  <2> QED BY <1>1, <1>2, <2>1
<1>6. Linking(T)
  BY <1>3, <1>4, PageIdFacts DEF Linking
<1>7. /\ DiskRows(h) = RowsOn(From(p, S), S) /\ DiskRows(h)' = RowsOn(From(p, T), T)
      /\ RowsOf(h, View) = RowsOn(From(p, View), View)
      /\ RowsOf(h, View)' = RowsOn(From(p, View'), View')
  BY DEF DiskRows, RowsOf, RowsOn, Chain
<1> HIDE DEF S, T, p
<1>8. DiskRows(h) \subseteq DiskRows(h)'
  BY <1>3, <1>4, <1>5, <1>6, <1>7, MoreRowsFrom
<1>9. DiskRows(h)' \subseteq RowsOf(h, View)'
  BY <1>3, <1>4, <1>5, <1>6, <1>7, MoreRowsFrom
<1>10. RowsOf(h, View)' \subseteq RowsOf(h, View)
  BY <1>3, <1>4, <1>5, <1>7, MoreRowsFrom
<1>11. ASSUME NothingLost PROVE RowsOf(h, View)' = RowsOf(h, View)
  <2>1. \A q \in From(p, View) : View'[q].next_page_id = View[q].next_page_id
                                 /\ View'[q].slots = View[q].slots
    BY <1>1, <1>3, <1>11, FromFacts
  <2> QED BY <1>3, <1>7, <2>1, SameRowsFrom
<1> QED BY <1>8, <1>9, <1>10, <1>11

\* A new page brings no row, linked or not.
LEMMA NewPageContents ==
  ASSUME Reach, Linked, NEW p \in PageId, BPM!NewPage(p),
         NEW h \in Heap, first_page'[h] \in {first_page[h], p},
         first_page[h] # NoPage => first_page'[h] = first_page[h]
  PROVE  DiskRows(h)' = DiskRows(h) /\ RowsOf(h, View)' = RowsOf(h, View)
<1> DEFINE f == first_page[h]
           S == BPM!StableView
           T == BPM!StableView'
<1>1. /\ ~Tabled(p)
      /\ View'[p] = EmptyPage /\ \A q \in PageId \ {p} : View'[q] = View[q]
      /\ T[p] = EmptyPage /\ \A q \in PageId \ {p} : T[q] = S[q]
      /\ EmptyPage.next_page_id = NoPage /\ EmptyPage.slots = <<>>
  BY NewPageLinks, NewPageEffect, ViewFacts DEF EmptyPage
<1>2. /\ Linking(View) /\ Linking(S) /\ f \in Link
      /\ From(f, View) \in SUBSET PageId /\ From(f, S) \in SUBSET PageId
      /\ From(f, S) \subseteq From(f, View)
  BY ViewsOfHeaps DEF Reach
<1>3. p \notin From(f, View)
  BY <1>1, HeapOfPages DEF Reach, Chain
<1>4. /\ DiskRows(h) = RowsOn(From(f, S), S)
      /\ DiskRows(h)' = RowsOn(From(first_page'[h], T), T)
      /\ RowsOf(h, View) = RowsOn(From(f, View), View)
      /\ RowsOf(h, View)' = RowsOn(From(first_page'[h], View'), View')
  BY DEF DiskRows, RowsOf, RowsOn, Chain
<1> HIDE DEF S, T, f
<1>5. Linking(T) /\ Linking(View') /\ NoPage \in Link
  BY <1>1, <1>2, PageIdFacts DEF Linking
<1>6. CASE first_page'[h] = f
  <2>1. RowsOn(From(f, View'), View') = RowsOn(From(f, View), View)
    <3>1. \A q \in From(f, View) : /\ View'[q].next_page_id = View[q].next_page_id
                                   /\ View'[q].slots = View[q].slots
      BY <1>1, <1>2, <1>3
    <3> QED BY <1>2, <1>5, <3>1, SameRowsFrom
  <2>2. RowsOn(From(f, T), T) = RowsOn(From(f, S), S)
    <3>1. \A q \in From(f, S) : /\ T[q].next_page_id = S[q].next_page_id
                                /\ T[q].slots = S[q].slots
      BY <1>1, <1>2, <1>3
    <3> QED BY <1>2, <1>5, <3>1, SameRowsFrom
  <2> QED BY <1>4, <1>6, <2>1, <2>2
<1>7. CASE first_page'[h] # f
  <2>1. first_page'[h] = p /\ f = NoPage
    BY <1>7 DEF f
  <2>2. RowsOn(From(f, View), View) = {} /\ RowsOn(From(f, S), S) = {}
    BY <1>2, <2>1, FromNowhere DEF RowsOn
  <2>3. ASSUME NEW at, Linking(at), at[p] = EmptyPage PROVE RowsOn(From(p, at), at) = {}
    <3>1. Shut({p}, at)
      BY <1>1, <2>3 DEF Shut
    <3>2. p \in Link /\ {p} \in SUBSET PageId
      BY PageIdFacts
    <3>3. From(p, at) \subseteq {p}
      BY <2>3, <3>1, <3>2, FromFacts
    <3>4. LiveSlots(at[p]) = {}
      BY <1>1, <2>3 DEF LiveSlots
    <3> QED BY <3>3, <3>4 DEF RowsOn
  <2> QED BY <1>1, <1>4, <1>5, <2>1, <2>2, <2>3
<1> QED BY <1>6, <1>7

\* Where the file's pages stay as they are, so do its rows.
LEMMA SameDiskRows ==
  ASSUME disk' = disk, first_page' = first_page
  PROVE  BPM!StableView' = BPM!StableView /\ \A h \in Heap : DiskRows(h)' = DiskRows(h)
<1>1. BPM!StableView' = BPM!StableView
  BY DEF BPM!StableView
<1> QED BY <1>1 DEF DiskRows, RowsOf, Chain

\* The page that is linked has no rows yet.
LEMMA LinkContents ==
  ASSUME Reach, Linked, OnChain, LinkPrev, NEW h \in Heap
  PROVE  DiskRows(h)' = DiskRows(h) /\ RowsOf(h, View)' = RowsOf(h, View)
<1> DEFINE d == [Page(op.prev) EXCEPT !.next_page_id = op.page]
<1>1. /\ op.page \in PageId /\ op.prev \in PageId /\ op.prev # op.page
      /\ View[op.page] = EmptyPage
      /\ d.slots = Page(op.prev).slots /\ Rewrites(op.prev, d) /\ first_page' = first_page
  BY LinkEffect DEF Reach, LinkPrev
<1> HIDE DEF d
<1>2. /\ View'[op.prev] = d /\ View[op.prev] = Page(op.prev)
      /\ \A q \in PageId \ {op.prev} : View'[q] = View[q]
      /\ disk' = disk
  BY <1>1 DEF Rewrites
<1>3. \A q \in PageId : View'[q].slots = View[q].slots
  BY <1>1, <1>2
<1>4. DiskRows(h)' = DiskRows(h)
  BY <1>1, <1>2, SameDiskRows
<1> DEFINE C == Chain(h, View)
           D == Chain(h, View)'
<1>5. /\ C \in SUBSET PageId /\ C \subseteq D /\ D \subseteq C \cup {op.page}
  BY LinkChains, HeapOfPages DEF Reach
<1>6. RowsOf(h, View) = RowsOn(C, View) /\ RowsOf(h, View)' = RowsOn(D, View')
  BY DEF RowsOf, RowsOn
<1>7. LiveSlots(View'[op.page]) = {}
  <2>1. View'[op.page].slots = <<>>
    BY <1>1, <1>3 DEF EmptyPage
  <2> QED BY <2>1 DEF LiveSlots
<1>8. \A q \in PageId : Keeps(View[q], View'[q]) /\ Keeps(View'[q], View[q])
  BY <1>3 DEF Keeps
<1> HIDE DEF C, D
<1>9. RowsOn(C, View) \subseteq RowsOn(D, View')
  BY <1>5, <1>8, MoreRows
<1>10. RowsOn(C, View') \subseteq RowsOn(C, View)
  BY <1>5, <1>8, MoreRows
<1>11. RowsOn(D, View') \subseteq RowsOn(C, View')
  BY <1>5, <1>7 DEF RowsOn
<1>12. RowsOn(D, View') = RowsOn(C, View)
  BY <1>9, <1>10, <1>11
<1> QED BY <1>4, <1>6, <1>12

-----------------------------------------------------------------------------
(* Only insertions: the heaps as sequences of rows.                        *)

\* One row more on one page.
LEMMA OneMoreRow ==
  ASSUME NEW C, NEW v, NEW u, NEW p \in C, \A q \in C : q # p => u[q] = v[q],
         Keeps(v[p], u[p]), NEW n, DOMAIN u[p].slots = (DOMAIN v[p].slots) \cup {n},
         u[p].slots[n].is_live
  PROVE  RowsOn(C, u) = RowsOn(C, v) \cup {Row(p, n, u[p].slots[n].tuple)}
<1>1. RowsOn(C, v) \subseteq RowsOn(C, u)
  <2>1. \A q \in C : Keeps(v[q], u[q])
    BY KeepsItself
  <2> QED BY <2>1, MoreRows
<1>2. Row(p, n, u[p].slots[n].tuple) \in RowsOn(C, u)
  BY DEF RowsOn, LiveSlots
<1>3. ASSUME NEW r \in RowsOn(C, u), r # Row(p, n, u[p].slots[n].tuple)
      PROVE  r \in RowsOn(C, v)
  <2>1. PICK q \in C : \E i \in LiveSlots(u[q]) : r = Row(q, i, u[q].slots[i].tuple)
    BY <1>3 DEF RowsOn
  <2>2. PICK i \in LiveSlots(u[q]) : r = Row(q, i, u[q].slots[i].tuple)
    BY <2>1
  <2>3. i \in LiveSlots(v[q]) /\ v[q].slots[i] = u[q].slots[i]
    <3>1. q = p => i # n
      BY <1>3, <2>2
    <3> QED BY <2>1, <2>2, <3>1 DEF LiveSlots, Keeps
  <2> QED BY <2>1, <2>2, <2>3 DEF RowsOn
<1> QED BY <1>1, <1>2, <1>3

\* The row that is put is new to its page, its heap's, and not in the file.
LEMMA PutContents ==
  ASSUME TuplesFit, Reach, Linked, OnChain, Put
  PROVE  \E x \in RowType :
           /\ op.heap \in Heap /\ x.page \in Chain(op.heap, View)
           /\ x.slot \notin DOMAIN View[x.page].slots
           /\ \A h \in Heap : RowsOf(h, View)' =
                IF h = op.heap THEN RowsOf(h, View) \cup {x} ELSE RowsOf(h, View)
           /\ \A h \in Heap : DiskRows(h)' = DiskRows(h)
           /\ \A h \in Heap : Pending(h)' = IF h = op.heap THEN {x} ELSE {}
<1>1. PICK d \in TablePage :
        /\ op \in InsertOp /\ op.page \in PageId /\ op.tuple \in Tuples
        /\ Page(op.page) \in TablePage /\ d.next_page_id = Page(op.page).next_page_id
        /\ Rewrites(op.page, d) /\ Keeps(Page(op.page), d)
        /\ Has(d, Row(op.page, Len(d.slots), op.tuple))
        /\ DOMAIN d.slots = (DOMAIN Page(op.page).slots) \cup {Len(d.slots)}
        /\ Len(d.slots) \notin DOMAIN Page(op.page).slots
        /\ Len(d.slots) = Len(Page(op.page).slots) + 1
  BY PutSlots DEF Reach
<1>2. /\ op.step = "put" /\ op' = [op EXCEPT !.step = "flush"]
      /\ first_page' = first_page /\ op.heap \in Heap
  BY <1>1 DEF Put, Goto, InsertOp
<1> DEFINE n == Len(d.slots)
           x == Row(op.page, n, op.tuple)
           p == op.page
<1>3. /\ View[p] = Page(p) /\ View'[p] = d /\ \A q \in PageId \ {p} : View'[q] = View[q]
      /\ disk' = disk /\ pages'[p].data = d
  BY <1>1 DEF Rewrites
<1>4. x \in RowType /\ x.page = p /\ x.slot = n /\ x.tuple = op.tuple
  <2>1. Page(p).slots \in Seq(SlotOf(Tuples))
    BY <1>1 DEF TablePage, PageOf
  <2>2. n \in Nat
    BY <1>1, <2>1
  <2> QED BY <1>1, <2>2 DEF Row, RowType
<1>5. d.slots[n].is_live /\ d.slots[n].tuple = op.tuple
  BY <1>1, <1>4 DEF Has, IsLive
<1>6. p \in Chain(op.heap, View)
  BY <1>2 DEF OnChain
<1>7. \A h \in Heap : /\ Chain(h, View)' = Chain(h, View)
                      /\ Chain(h, View) \in SUBSET PageId
                      /\ h # op.heap => p \notin Chain(h, View)
  <2>1. LinksStay
    BY <1>1, RewriteLinks DEF Linked, PagesLinked
  <2>2. \A h \in Heap : h # op.heap => Chain(h, View) \cap Chain(op.heap, View) = {}
    BY <1>2, ViewsLag, ChainsApart DEF Reach
  <2> QED BY <1>2, <1>6, <2>1, <2>2, ChainsStay, HeapOfPages DEF Reach
<1>8. \A h \in Heap : DiskRows(h)' = DiskRows(h)
  BY <1>2, <1>3, SameDiskRows
<1>9. ASSUME NEW h \in Heap
      PROVE  RowsOf(h, View)' =
               IF h = op.heap THEN RowsOf(h, View) \cup {x} ELSE RowsOf(h, View)
  <2> DEFINE C == Chain(h, View)
  <2>1. RowsOf(h, View) = RowsOn(C, View) /\ RowsOf(h, View)' = RowsOn(C, View')
    <3>1. RowsOf(h, View)' = RowsOn(Chain(h, View)', View')
      BY DEF RowsOf, RowsOn
    <3>2. RowsOf(h, View) = RowsOn(Chain(h, View), View)
      BY DEF RowsOf, RowsOn
    <3> QED BY <1>7, <3>1, <3>2
  <2>2. C \in SUBSET PageId /\ (h # op.heap => p \notin C) /\ (h = op.heap => p \in C)
    BY <1>6, <1>7
  <2> HIDE DEF C, n, x
  <2>3. CASE h = op.heap
    <3>1. RowsOn(C, View') = RowsOn(C, View) \cup {Row(p, n, d.slots[n].tuple)}
      <4>1. /\ p \in C /\ \A q \in C : q # p => View'[q] = View[q]
            /\ Keeps(View[p], View'[p])
            /\ DOMAIN View'[p].slots = (DOMAIN View[p].slots) \cup {n}
            /\ View'[p].slots[n].is_live /\ View'[p].slots[n] = d.slots[n]
        BY <1>1, <1>3, <1>5, <2>2, <2>3 DEF n
      <4> DEFINE u == View'
      <4> HIDE DEF u, p
      <4>2. RowsOn(C, u) = RowsOn(C, View) \cup {Row(p, n, u[p].slots[n].tuple)}
        BY <4>1, OneMoreRow DEF u
      <4> QED BY <4>1, <4>2 DEF u
    <3> QED BY <1>5, <2>1, <2>3, <3>1 DEF x
  <2>4. CASE h # op.heap
    <3>1. \A q \in C : Keeps(View[q], View'[q]) /\ Keeps(View'[q], View[q])
      BY <1>3, <2>2, <2>4, KeepsItself
    <3>2. RowsOn(C, View') = RowsOn(C, View)
      <4>1. RowsOn(C, View) \subseteq RowsOn(C, View')
        BY <3>1, MoreRows
      <4>2. RowsOn(C, View') \subseteq RowsOn(C, View)
        BY <3>1, MoreRows
      <4> QED BY <4>1, <4>2
    <3> QED BY <2>1, <2>4, <3>2
  <2> QED BY <2>3, <2>4
<1>10. ASSUME NEW h \in Heap PROVE Pending(h)' = IF h = op.heap THEN {x} ELSE {}
  <2>1. /\ op'.step = "flush" /\ op'.page = op.page /\ op'.heap = op.heap
        /\ op'.tuple = op.tuple
    BY <1>1, <1>2 DEF InsertOp
  <2>2. NewRow' = x
    BY <1>3, <2>1 DEF NewRow, Page
  <2>3. Pending(h)' = {r \in {x} : op.heap = h}
    BY <2>1, <2>2 DEF Pending
  <2> QED BY <2>3
<1>11. x.slot \notin DOMAIN View[x.page].slots
  BY <1>1, <1>3, <1>4
<1> HIDE DEF x
<1> QED BY <1>2, <1>4, <1>6, <1>8, <1>9, <1>10, <1>11

-----------------------------------------------------------------------------
(* What a step does to the rows of the heaps and to those in the file.     *)

Still == \A h \in Heap : RowsOf(h, View)' = RowsOf(h, View) /\ DiskRows(h)' = DiskRows(h)

\* Rows reach the file.
Settles ==
  \A h \in Heap :
    /\ RowsOf(h, View)' = RowsOf(h, View)
    /\ DiskRows(h) \subseteq DiskRows(h)' /\ DiskRows(h)' \subseteq RowsOf(h, View)'

\* Rows that are not in the file are lost.
Loses ==
  \A h \in Heap :
    /\ DiskRows(h)' = DiskRows(h)
    /\ DiskRows(h) \subseteq RowsOf(h, View)' /\ RowsOf(h, View)' \subseteq RowsOf(h, View)

Up == mode \in {"open", "closing"}

LEMMA StillStutters ==
  ASSUME Still, Up <=> Up', mode' = mode \/ Up, faulted' = faulted
  PROVE  UNCHANGED Abstract!vars
<1>1. [h \in Heap |-> RowsOf(h, View)]' = [h \in Heap |-> RowsOf(h, View)]
  BY DEF Still
<1>2. [h \in Heap |-> DiskRows(h)]' = [h \in Heap |-> DiskRows(h)]
  BY DEF Still
<1>3. BPM!StatusView' = BPM!StatusView
  BY DEF BPM!StatusView, Up
<1> QED BY <1>1, <1>2, <1>3 DEF Abstract!vars

LEMMA SettlesPersists ==
  ASSUME Settles, Up, Up', faulted' = faulted
  PROVE  Abstract!Next
<1>1. [h \in Heap |-> RowsOf(h, View)]' = [h \in Heap |-> RowsOf(h, View)]
  BY DEF Settles
<1>2. \A h \in Heap : /\ DiskRows(h) \subseteq DiskRows(h)'
                      /\ DiskRows(h)' \subseteq RowsOf(h, View)
  BY DEF Settles
<1>3. BPM!StatusView' = "up" /\ BPM!StatusView = "up"
  BY DEF BPM!StatusView, Up
<1> QED BY <1>1, <1>2, <1>3 DEF Abstract!Next, Abstract!Persist

LEMMA LosesDiscards ==
  ASSUME Loses, Up, Up', faulted'
  PROVE  Abstract!Next
<1>1. [h \in Heap |-> DiskRows(h)]' = [h \in Heap |-> DiskRows(h)]
  BY DEF Loses
<1>2. \A h \in Heap : /\ DiskRows(h) \subseteq RowsOf(h, View)'
                      /\ RowsOf(h, View)' \subseteq RowsOf(h, View)
  BY DEF Loses
<1>3. BPM!StatusView' = "up" /\ BPM!StatusView = "up"
  BY DEF BPM!StatusView, Up
<1> QED BY <1>1, <1>2, <1>3 DEF Abstract!Next, Abstract!Discard

-----------------------------------------------------------------------------
(* Every step keeps Grows and is a step of the abstract heap.              *)

AbstractStep == [Abstract!Next]_(Abstract!vars)

\* Nothing is pending but at the end of an insertion.
LEMMA NonePending ==
  ASSUME op.step \notin {"flush", "ack"}, NEW h
  PROVE  Pending(h) = {} /\ Saved(h) = {}
  BY DEF Pending, Saved

LEMMA QuietGrows ==
  ASSUME Inv, Linked, Grows, Quietly, NothingLost, first_page' = first_page,
         \A h \in Heap : rows[h] \cup Pending(h) \subseteq rows'[h] \cup Saved(h)',
         faulted' = faulted \/ faulted', EndIsUsed'
  PROVE  Grows' /\ Settles
<1>1. ImagesGrow'
  BY QuietImages DEF Grows
<1>2. Settles
  BY QuietContents DEF Grows, Settles
<1>3. RowsExact'
  <2>1. ASSUME ~faulted', NEW h \in Heap
        PROVE  /\ RowsOf(h, View)' \subseteq rows'[h] \cup Pending(h)'
               /\ DiskRows(h)' \subseteq rows'[h] \cup Saved(h)'
    <3>1. RowsOf(h, View) \subseteq rows[h] \cup Pending(h)
      BY <2>1 DEF Grows, RowsExact
    <3>2. Saved(h)' \subseteq Pending(h)'
      BY DEF Saved, Pending
    <3> QED BY <1>2, <3>1, <3>2 DEF Settles
  <2> QED BY <2>1 DEF RowsExact
<1> QED BY <1>1, <1>2, <1>3 DEF Grows

LEMMA FetchMode ==
  ASSUME NEW p, Fetch(p)
  PROVE  mode = "open" /\ mode' = "open"
  BY DEF Fetch, BPM!FetchHit, BPM!FetchMiss

\* A fetch in a call.
LEMMA FetchGrows ==
  ASSUME Inv, Linked, Grows, NEW p \in PageId, Fetch(p), op.step \notin {"flush", "ack"},
         UNCHANGED <<first_page, rows, faulted>>, EndIsUsed'
  PROVE  Grows' /\ AbstractStep
<1>1. Quietly /\ NothingLost
  BY FetchQuiet
<1>2. \A h \in Heap : rows[h] \cup Pending(h) \subseteq rows'[h]
  BY NonePending
<1>3. Grows' /\ Settles
  BY <1>1, <1>2, QuietGrows
<1>4. Up /\ Up'
  BY FetchMode DEF Up
<1> QED BY <1>3, <1>4, SettlesPersists DEF AbstractStep

LEMMA NoEndIsUsed ==
  ASSUME op'.step \notin {"fetchPrev", "link"}, op'.step = "walk" => op'.page # NoPage
  PROVE  EndIsUsed'
  BY DEF EndIsUsed

\* A page that is too full for a tuple has one.
LEMMA FullPageIsUsed ==
  ASSUME TuplesFit, NEW pg \in TablePage, WellFormed(pg), Growing(pg),
         NEW t \in Tuples, ~HasRoom(pg, t)
  PROVE  pg.slots # <<>>
<1>1. SUFFICES ASSUME pg.slots = <<>> PROVE FALSE
  OBVIOUS
<1>2. /\ t.size \in Nat \ {0} /\ t.size <= PAGE_SIZE - HEADER_SIZE - SLOT_SIZE
  BY HeapAssumption DEF TuplesFit, MaxTuple
<1>3. pg.tuple_start_ptr = PAGE_SIZE /\ Len(pg.slots) = 0
  BY <1>1 DEF Growing
<1>4. pg.free_space_ptr = HEADER_SIZE
  BY <1>3, LayoutAssumption DEF WellFormed
<1>5. (t.size + SLOT_SIZE) % Word = t.size + SLOT_SIZE
  <2>1. t.size + SLOT_SIZE \in 0 .. Word - 1
    BY <1>2, LayoutAssumption
  <2> QED BY <2>1, NoWrap
<1>6. (PAGE_SIZE - HEADER_SIZE) % Word = PAGE_SIZE - HEADER_SIZE
  <2>1. PAGE_SIZE - HEADER_SIZE \in 0 .. Word - 1
    BY LayoutAssumption
  <2> QED BY <2>1, NoWrap
<1>7. t.size + SLOT_SIZE <= PAGE_SIZE - HEADER_SIZE
  BY <1>2, LayoutAssumption
<1> QED BY <1>3, <1>4, <1>5, <1>6, <1>7 DEF HasRoom, RequiredSpace, AvailSpace

LEMMA WalkGrows ==
  ASSUME TuplesFit, Reach, Linked, Rowed, Grows, WalkPage
  PROVE  Grows' /\ AbstractStep
<1>1. /\ op \in InsertOp /\ op.step = "walk" /\ op.page \in PageId /\ op.page # NoPage
      /\ op.heap \in Heap /\ op.tuple \in Tuples
  BY OpFacts, PageIdFacts DEF WalkPage, Reach, Inv, InsertOp
<1>2. Fetch(op.page) /\ UNCHANGED <<first_page, rows, faulted>>
  BY DEF WalkPage
<1>3. Quietly /\ NothingLost /\ Inv
  BY <1>1, <1>2, FetchQuiet DEF Reach
<1>4. ImagesGrow' /\ View'[op.page] = View[op.page]
  BY <1>1, <1>3, QuietImages DEF Grows
<1>5. View[op.page] \in TablePage
  BY <1>1, HeapOfPages DEF Rowed, OnChain, Tabled, Reach
<1>6. EndIsUsed'
  <2> DEFINE k == PageRead(op.page).next_page_id
  <2>1. \/ op' = Idle
        \/ op' = [op EXCEPT !.step = "put"]
        \/ /\ op' = [op EXCEPT !.prev = op.page, !.page = k]
           /\ Fetched(op.page) /\ ~HasRoom(PageRead(op.page), op.tuple)
    BY DEF WalkPage, Goto, Return
  <2> HIDE DEF k
  <2>2. CASE op' = Idle
    <3>1. op'.step = "idle"
      BY <2>2 DEF Idle
    <3> QED BY <3>1, NoEndIsUsed
  <2>3. CASE op' = [op EXCEPT !.step = "put"]
    <3>1. op'.step = "put"
      BY <1>1, <2>3 DEF InsertOp
    <3> QED BY <3>1, NoEndIsUsed
  <2>4. CASE /\ op' = [op EXCEPT !.prev = op.page, !.page = k]
             /\ Fetched(op.page) /\ ~HasRoom(PageRead(op.page), op.tuple)
    <3>1. op'.step = "walk" /\ op'.page = k /\ op'.prev = op.page
      BY <1>1, <2>4 DEF InsertOp
    <3>2. PageRead(op.page) = View'[op.page] /\ Growing(PageRead(op.page))
      BY <1>1, <1>4, <2>4, ViewFacts DEF Fetched, PageRead, ImagesGrow
    <3>3. WellFormed(PageRead(op.page))
      BY <1>1, <1>2, <1>3, <1>4, <1>5, <2>4, <3>2, FetchedPage DEF Inv
    <3>4. View'[op.page].slots # <<>>
      BY <1>1, <1>4, <1>5, <2>4, <3>2, <3>3, FullPageIsUsed
    <3> QED BY <3>1, <3>4 DEF EndIsUsed
  <2> QED BY <2>1, <2>2, <2>3, <2>4
<1> QED BY <1>1, <1>2, <1>3, <1>6, FetchGrows

LEMMA NewPageGrows ==
  ASSUME Reach, Linked, Grows, NEW p \in PageId, BPM!NewPage(p), op.step \notin {"flush", "ack"},
         \A h \in Heap : first_page'[h] \in {first_page[h], p},
         \A h \in Heap : first_page[h] # NoPage => first_page'[h] = first_page[h],
         UNCHANGED <<rows, faulted>>, EndIsUsed'
  PROVE  Grows' /\ AbstractStep
<1>1. ImagesGrow'
  BY NewPageImages DEF Grows
<1>2. Still
  BY NewPageContents DEF Still
<1>3. RowsExact'
  <2>1. ASSUME ~faulted', NEW h \in Heap
        PROVE  /\ RowsOf(h, View)' \subseteq rows'[h]
               /\ DiskRows(h)' \subseteq rows'[h]
    BY <1>2, <2>1, NonePending DEF Still, Grows, RowsExact
  <2> QED BY <2>1 DEF RowsExact
<1>4. Up /\ Up'
  BY DEF BPM!NewPage, Up
<1> QED BY <1>1, <1>2, <1>3, <1>4, StillStutters DEF Grows, AbstractStep

LEMMA ExtendGrows ==
  ASSUME Reach, Linked, Grows, ExtendChain
  PROVE  Grows' /\ AbstractStep
<1>1. /\ op \in InsertOp /\ op.step = "walk" /\ op.page = NoPage
      /\ Holds(op.prev) /\ Page(op.prev) \in TablePage
  BY OpFacts DEF ExtendChain, Reach, Inv, Locals, EndOfChain
<1>2. PICK p \in PageId :
        BPM!NewPage(p) /\ op' = [op EXCEPT !.step = "fetchPrev", !.page = p]
  BY DEF ExtendChain
<1>3. op'.step = "fetchPrev" /\ op'.prev = op.prev
  BY <1>1, <1>2 DEF InsertOp
<1>4. View'[op.prev] = View[op.prev]
  <2>1. Tabled(op.prev) /\ op.prev \in PageId
    BY <1>1, ViewFacts DEF Tabled, Holds, Page
  <2> QED BY <1>2, <2>1, NewPageLinks
<1>5. EndIsUsed'
  BY <1>1, <1>3, <1>4 DEF EndIsUsed, Grows
<1>6. UNCHANGED <<first_page, rows, faulted>>
  BY DEF ExtendChain
<1> QED BY <1>1, <1>2, <1>5, <1>6, NewPageGrows

LEMMA CreateGrows ==
  ASSUME Reach, Linked, Grows, NEW h \in Heap, CreateHeap(h)
  PROVE  Grows' /\ AbstractStep
<1>1. PICK p \in PageId : BPM!NewPage(p) /\ first_page' = [first_page EXCEPT ![h] = p]
  BY DEF CreateHeap
<1>2. op' = Idle /\ op = Idle /\ first_page[h] = NoPage /\ UNCHANGED <<rows, faulted>>
  BY DEF CreateHeap
<1>3. \A g \in Heap : first_page'[g] = IF g = h THEN p ELSE first_page[g]
  BY <1>1 DEF Reach, Inv, CallInv
<1>4. op.step = "idle" /\ op'.step = "idle"
  BY <1>2 DEF Idle
<1>5. EndIsUsed'
  BY <1>4, NoEndIsUsed
<1> QED BY <1>1, <1>2, <1>3, <1>4, <1>5, NewPageGrows

LEMMA FetchPrevGrows ==
  ASSUME Reach, Linked, Grows, FetchPrev
  PROVE  Grows' /\ AbstractStep
<1>1. op \in InsertOp /\ op.step = "fetchPrev"
  BY OpFacts DEF FetchPrev, Reach, Inv
<1>2. op.prev \in PageId
  BY <1>1 DEF Reach, Inv, Locals, NewPageHeld, Holds
<1>3. Fetch(op.prev) /\ UNCHANGED <<first_page, rows, faulted>>
  BY DEF FetchPrev
<1>4. View'[op.prev] = View[op.prev]
  BY <1>2, <1>3, FetchQuiet, QuietImages DEF Reach, Grows
<1>5. op'.step \in {"link", "segv"} /\ op'.prev = op.prev
  BY <1>1 DEF FetchPrev, Goto, InsertOp
<1>6. EndIsUsed'
  BY <1>1, <1>4, <1>5 DEF EndIsUsed, Grows
<1> QED BY <1>1, <1>2, <1>3, <1>6, FetchGrows DEF Reach

LEMMA LinkGrows ==
  ASSUME Reach, Linked, Rowed, Grows, LinkPrev
  PROVE  Grows' /\ AbstractStep
<1> DEFINE d == [Page(op.prev) EXCEPT !.next_page_id = op.page]
<1>1. /\ op \in InsertOp /\ op.prev \in PageId /\ Page(op.prev) \in TablePage
      /\ d.slots = Page(op.prev).slots /\ Rewrites(op.prev, d) /\ pages'[op.prev].dirty
  BY LinkEffect DEF Reach
<1>2. /\ op.step = "link" /\ op' = [op EXCEPT !.step = "put"]
      /\ UNCHANGED <<first_page, rows, faulted>>
  BY DEF LinkPrev, Goto
<1>3. Page(op.prev).slots # <<>> /\ Growing(Page(op.prev))
  BY <1>1, <1>2 DEF Grows, EndIsUsed, ImagesGrow, Rewrites, Page
<1> HIDE DEF d
<1>4. Growing(d) /\ Keeps(Page(op.prev), d)
  BY <1>1, <1>3 DEF Growing, Keeps
<1>5. ImagesGrow'
  BY <1>1, <1>4, RewriteImages DEF Grows
<1>6. Still
  BY LinkContents DEF Still, Rowed
<1>7. op'.step = "put"
  BY <1>1, <1>2 DEF InsertOp
<1>8. EndIsUsed'
  BY <1>7, NoEndIsUsed
<1>9. RowsExact'
  <2>1. ASSUME ~faulted', NEW h \in Heap
        PROVE  /\ RowsOf(h, View)' \subseteq rows'[h]
               /\ DiskRows(h)' \subseteq rows'[h]
    BY <1>2, <1>6, <2>1, NonePending DEF Still, Grows, RowsExact
  <2> QED BY <2>1 DEF RowsExact
<1>10. Up /\ Up'
  BY DEF LinkPrev, BPM!Write, Up
<1> QED BY <1>2, <1>5, <1>6, <1>8, <1>9, <1>10, StillStutters DEF Grows, AbstractStep

\* The row gets a place no row has.
LEMMA PutAdds ==
  ASSUME TuplesFit, Reach, Linked, OnChain, Put
  PROVE  Abstract!Next
<1>1. PICK x \in RowType :
        /\ op.heap \in Heap /\ x.page \in Chain(op.heap, View)
        /\ x.slot \notin DOMAIN View[x.page].slots
        /\ \A h \in Heap : RowsOf(h, View)' =
             IF h = op.heap THEN RowsOf(h, View) \cup {x} ELSE RowsOf(h, View)
        /\ \A h \in Heap : DiskRows(h)' = DiskRows(h)
  BY PutContents
<1> DEFINE c == [h \in Heap |-> RowsOf(h, View)]
           s == [h \in Heap |-> DiskRows(h)]
<1>2. ASSUME NEW g \in Heap, NEW r \in RowsOf(g, View) PROVE ~Abstract!SamePlace(x, r)
  <2>1. r.page \in Chain(g, View) /\ r.slot \in DOMAIN View[r.page].slots
    BY <1>2, RowsOfFacts DEF Has, IsLive
  <2> QED BY <1>1, <2>1 DEF Abstract!SamePlace
<1>3. x \notin RowsOf(op.heap, View)
  BY <1>1, <1>2 DEF Abstract!SamePlace
<1>4. c' = [c EXCEPT ![op.heap] = @ \cup {x}]
  <2>1. c' = [h \in Heap |-> RowsOf(h, View)']
    OBVIOUS
  <2>2. c' = [h \in Heap |-> IF h = op.heap THEN RowsOf(h, View) \cup {x} ELSE RowsOf(h, View)]
    BY <1>1, <2>1
  <2> QED BY <2>2
<1>5. s' = s
  BY <1>1
<1>6. c'[op.heap] # c[op.heap] /\ x \in c'[op.heap]
  BY <1>1, <1>3, <1>4
<1>7. BPM!StatusView' = "up" /\ BPM!StatusView = "up" /\ faulted' = faulted
  BY DEF Put, BPM!Write, BPM!StatusView
<1>8. \A g \in Heap : \A r \in c[g] : ~Abstract!SamePlace(x, r)
  BY <1>2
<1>9. Abstract!Add(op.heap)
  BY <1>4, <1>5, <1>6, <1>7, <1>8 DEF Abstract!Add
<1> QED BY <1>1, <1>9 DEF Abstract!Next

LEMMA PutGrows ==
  ASSUME TuplesFit, Reach, Linked, Rowed, Grows, Put
  PROVE  Grows' /\ AbstractStep
<1>1. PICK d \in TablePage :
        /\ op \in InsertOp /\ op.page \in PageId
        /\ Page(op.page) \in TablePage
        /\ Rewrites(op.page, d) /\ pages'[op.page].dirty /\ Keeps(Page(op.page), d)
        /\ Has(d, Row(op.page, Len(d.slots), op.tuple))
        /\ DOMAIN d.slots = (DOMAIN Page(op.page).slots) \cup {Len(d.slots)}
  BY PutSlots DEF Reach
<1>2. /\ op.step = "put" /\ op' = [op EXCEPT !.step = "flush"]
      /\ UNCHANGED <<first_page, rows, faulted>>
  BY DEF Put, Goto
<1>3. Growing(d)
  <2> DEFINE n == Len(d.slots)
  <2>1. Row(op.page, n, op.tuple).slot = n
    BY DEF Row
  <2> HIDE DEF n
  <2>2. d.slots[n].is_live /\ n \in DOMAIN d.slots
    BY <1>1, <2>1 DEF Has, IsLive, n
  <2>3. Growing(Page(op.page))
    BY <1>1 DEF Grows, ImagesGrow, Rewrites, Page
  <2>4. \A i \in DOMAIN d.slots : d.slots[i].is_live
    BY <1>1, <2>2, <2>3 DEF Growing, Keeps, n
  <2>5. d.slots # <<>>
    BY <2>2
  <2> QED BY <2>4, <2>5 DEF Growing
<1>4. ImagesGrow'
  BY <1>1, <1>3, RewriteImages DEF Grows
<1>5. op'.step = "flush"
  BY <1>1, <1>2 DEF InsertOp
<1>6. EndIsUsed'
  BY <1>5, NoEndIsUsed
<1>7. RowsExact'
  <2>1. PICK x \in RowType :
          /\ \A h \in Heap : RowsOf(h, View)' =
               IF h = op.heap THEN RowsOf(h, View) \cup {x} ELSE RowsOf(h, View)
          /\ \A h \in Heap : DiskRows(h)' = DiskRows(h)
          /\ \A h \in Heap : Pending(h)' = IF h = op.heap THEN {x} ELSE {}
    BY PutContents DEF Rowed
  <2>2. ASSUME ~faulted', NEW h \in Heap
        PROVE  /\ RowsOf(h, View)' \subseteq rows'[h] \cup Pending(h)'
               /\ DiskRows(h)' \subseteq rows'[h]
    <3>1. RowsOf(h, View) \subseteq rows[h] /\ DiskRows(h) \subseteq rows[h]
      BY <1>2, <2>2, NonePending DEF Grows, RowsExact
    <3> QED BY <1>2, <2>1, <3>1
  <2> QED BY <2>2 DEF RowsExact
<1>8. AbstractStep
  BY PutAdds DEF AbstractStep, Rowed
<1> QED BY <1>4, <1>6, <1>7, <1>8 DEF Grows

LEMMA FlushRowGrows ==
  ASSUME Reach, Linked, Grows, FlushRow
  PROVE  Grows' /\ AbstractStep
<1>1. op \in InsertOp /\ op.step = "flush"
  BY OpFacts DEF FlushRow, Reach, Inv
<1>2. op.page \in PageId /\ pages[op.page] # NoFrame
  BY <1>1 DEF Reach, Inv, Locals, RoomIsThere, Holds
<1>3. /\ first_page' = first_page /\ rows' = rows /\ op' = [op EXCEPT !.step = "ack"]
      /\ \/ BPM!FlushPage(op.page) /\ faulted' = faulted
         \/ BPM!FlushFails /\ faulted'
  BY DEF FlushRow, Goto
<1>4. Quietly /\ NothingLost /\ (BPM!FlushFails => UNCHANGED <<disk, pages>>)
  <2>1. BPM!FlushFails => UNCHANGED <<disk, pages>>
    BY DEF BPM!FlushFails, BPM!WriteError
  <2> QED BY <1>2, <1>3, <2>1, FlushQuiet, StillQuiet DEF Reach
<1>5. /\ op'.step = "ack" /\ op'.heap = op.heap /\ op'.page = op.page
      /\ op'.tuple = op.tuple
  BY <1>1, <1>3 DEF InsertOp
<1>6. EndIsUsed'
  BY <1>5, NoEndIsUsed
<1>7. \A h \in Heap : rows[h] \cup Pending(h) \subseteq rows'[h] \cup Saved(h)'
  <2>1. pages'[op.page].data = pages[op.page].data
    BY <1>2, <1>3, FlushKeepsPage DEF Reach, Inv
  <2>2. NewRow' = NewRow
    BY <1>5, <2>1 DEF NewRow, Page
  <2> QED BY <1>1, <1>3, <1>5, <2>2 DEF Pending, Saved
<1>8. Grows' /\ Settles
  <2>1. faulted' = faulted \/ faulted'
    BY <1>3
  <2> QED BY <1>3, <1>4, <1>6, <1>7, <2>1, QuietGrows DEF Reach
<1>9. Up /\ Up'
  BY <1>3 DEF BPM!FlushPage, BPM!FlushFails, Up
<1>10. CASE faulted' = faulted
  BY <1>8, <1>9, <1>10, SettlesPersists DEF AbstractStep
<1>11. CASE BPM!FlushFails /\ faulted'
  <2>1. Loses
    BY <1>3, <1>4, <1>8, <1>11, SameDiskRows DEF Loses, Settles
  <2> QED BY <1>8, <1>9, <1>11, <2>1, LosesDiscards DEF AbstractStep
<1> QED BY <1>3, <1>10, <1>11

\* The abstract table has had the row since it was put in its page.
LEMMA AckGrows ==
  ASSUME ForceInv, Reach, Linked, Grows, Acknowledge
  PROVE  Grows' /\ AbstractStep
<1>0. PICK x : x = NewRow
  OBVIOUS
<1>1. op \in InsertOp /\ op.step = "ack" /\ op.replaces = {} /\ op.heap \in Heap
  BY OpFacts DEF Acknowledge, ForceInv, Inv, OnlyInserts, InsertOp
<1>2. /\ UNCHANGED <<disk, pages, mode>> /\ first_page' = first_page /\ faulted' = faulted
      /\ rows' = [rows EXCEPT ![op.heap] = @ \cup {x}]
      /\ rows \in [Heap -> SUBSET RowType] /\ op' = Idle
  BY <1>0, <1>1 DEF Acknowledge, poolVars, Reach, Inv, CallInv, Return
<1>3. Quietly /\ NothingLost
  BY <1>2, StillQuiet
<1>4. op'.step = "idle"
  BY <1>2 DEF Idle
<1>5. EndIsUsed'
  BY <1>4, NoEndIsUsed
<1>6. \A h \in Heap : rows[h] \cup Pending(h) \subseteq rows'[h] \cup Saved(h)'
  BY <1>0, <1>1, <1>2 DEF Pending
<1>7. Grows' /\ Settles
  BY <1>2, <1>3, <1>5, <1>6, QuietGrows DEF Reach
<1>8. Still
  BY <1>2, <1>7, SameDiskRows DEF Still, Settles
<1> QED BY <1>2, <1>7, <1>8, StillStutters DEF AbstractStep, Up

LEMMA ScanGrows ==
  ASSUME Reach, Linked, Grows, ScanPage
  PROVE  Grows' /\ AbstractStep
<1>1. /\ op.page \in PageId /\ op.step \notin {"flush", "ack"}
      /\ Fetch(op.page) /\ UNCHANGED <<first_page, rows, faulted>>
  BY OpFacts DEF ScanPage, Reach, Inv, ScanSteps, IsScan
<1>2. op'.step \in ScanSteps
  BY ScanStays DEF Reach, IsScan
<1>3. EndIsUsed'
  BY <1>2, NoEndIsUsed DEF ScanSteps
<1> QED BY <1>1, <1>3, FetchGrows DEF Reach

LEMMA ThrowsGrows ==
  ASSUME Reach, Linked, Grows, Throws
  PROVE  Grows' /\ AbstractStep
<1>1. /\ op' = Idle /\ faulted' /\ first_page' = first_page
      /\ BPM!NewPageFails \/ BPM!EvictionFails
  BY DEF Throws, Return
<1>2. Quietly /\ disk' = disk
  <2>1. Inv
    BY DEF Reach
  <2> QED BY <1>1, <2>1, FailQuiet
<1>3. ImagesGrow'
  BY <1>2, QuietImages DEF Grows
<1>4. op'.step = "idle"
  BY <1>1 DEF Idle
<1>5. EndIsUsed'
  BY <1>4, NoEndIsUsed
<1>6. RowsExact'
  BY <1>1 DEF RowsExact
<1>7. Loses
  <2>1. \A h \in Heap : DiskRows(h)' = DiskRows(h)
    BY <1>1, <1>2, SameDiskRows
  <2>2. \A h \in Heap : /\ DiskRows(h)' \subseteq RowsOf(h, View)'
                        /\ RowsOf(h, View)' \subseteq RowsOf(h, View)
    BY <1>1, <1>2, QuietContents DEF Reach, Grows
  <2> QED BY <2>1, <2>2 DEF Loses
<1>8. Up /\ Up'
  BY <1>1 DEF BPM!NewPageFails, BPM!EvictionFails, Up
<1> QED BY <1>1, <1>3, <1>5, <1>6, <1>7, <1>8, LosesDiscards DEF Grows, AbstractStep

\* Where the pages do not change.
LEMMA SameGrows ==
  ASSUME Reach, Linked, Grows, UNCHANGED <<disk, pages, first_page, rows, faulted>>,
         EndIsUsed', op.step \in {"flush", "ack"} => op' = op
  PROVE  Grows' /\ Still
<1>1. Quietly /\ NothingLost
  BY StillQuiet
<1>2. ImagesGrow' /\ \A q \in PageId : View'[q] = View[q]
  BY <1>1, QuietImages DEF Grows
<1>3. Still
  BY <1>1, SameDiskRows, QuietContents DEF Grows, Still, Reach
<1>4. RowsExact'
  <2>1. ASSUME ~faulted', NEW h \in Heap
        PROVE  /\ RowsOf(h, View)' \subseteq rows'[h] \cup Pending(h)'
               /\ DiskRows(h)' \subseteq rows'[h] \cup Saved(h)'
    <3>1. /\ RowsOf(h, View) \subseteq rows[h] \cup Pending(h)
          /\ DiskRows(h) \subseteq rows[h] \cup Saved(h)
      BY <2>1 DEF Grows, RowsExact
    <3>2. Pending(h) \subseteq Pending(h)' /\ Saved(h) \subseteq Saved(h)'
      <4>1. CASE op' = op
        BY <4>1 DEF Pending, Saved, NewRow, Page
      <4>2. CASE op.step \notin {"flush", "ack"}
        BY <4>2, NonePending
      <4> QED BY <4>1, <4>2
    <3> QED BY <1>3, <3>1, <3>2 DEF Still
  <2> QED BY <2>1 DEF RowsExact
<1> QED BY <1>2, <1>3, <1>4 DEF Grows

LEMMA BeginGrows ==
  ASSUME ~MayModify, Reach, Linked, Grows, NEW h \in Heap,
         \/ Scan(h)
         \/ \E t \in Tuples : Insert(h, t)
         \/ \E r \in rows[h] : Delete(h, r)
         \/ \E r \in rows[h], t \in Tuples : Update(h, r, t)
  PROVE  Grows' /\ AbstractStep
<1>1. /\ UNCHANGED <<disk, pages, first_page, rows, faulted, mode>>
      /\ first_page[h] # NoPage /\ op = Idle
  BY DEF Scan, Insert, Delete, Update, Ready, poolVars
<1>2. op'.step = "begin" \/ (op'.step = "walk" /\ op'.page = first_page[h])
  BY DEF Scan, Insert, Delete, Update, InsertCall
<1>3. EndIsUsed'
  BY <1>1, <1>2, NoEndIsUsed
<1>4. op.step = "idle"
  BY <1>1 DEF Idle
<1>5. Grows' /\ Still
  BY <1>1, <1>3, <1>4, SameGrows
<1> QED BY <1>1, <1>5, StillStutters DEF Up, AbstractStep

\* What an orderly close leaves in the file is what the process saw.
LEMMA CleanIsStable ==
  ASSUME ImagesGrow, \A q \in PageId : ~BPM!Dirty(q)
  PROVE  \A h \in Heap : RowsOf(h, View) = DiskRows(h)
<1>1. \A q \in PageId : View[q] = disk[q].data
  BY ViewFacts DEF ImagesGrow, BPM!Dirty, BPM!Cached
<1>2. View = BPM!StableView
  BY <1>1, ViewFacts DEF View, BPM!StoreView, BPM!StableView, PageId
<1> QED BY <1>2 DEF DiskRows

LEMMA CloseQuiet ==
  ASSUME Inv, Close
  PROVE  /\ Quietly /\ NothingLost
         /\ BPM!BeginClose \/ BPM!FlushAllFails \/ BPM!EndClose => disk' = disk
<1>1. ASSUME NEW p \in PageId, BPM!FlushOne(p) PROVE Quietly /\ NothingLost
  BY <1>1, FlushQuiet
<1>2. ASSUME BPM!BeginClose \/ BPM!FlushAllFails \/ BPM!EndClose
      PROVE  Quietly /\ NothingLost /\ disk' = disk
  <2>1. mode # "open" \/ mode' # mode
    BY <1>2 DEF BPM!BeginClose, BPM!FlushAllFails, BPM!EndClose
  <2>2. mode' # "crashed"
    BY <1>2 DEF BPM!BeginClose, BPM!FlushAllFails, BPM!EndClose
  <2>3. ~BPM!EvictionFails
    BY <2>1 DEF BPM!EvictionFails
  <2>4. ~BPM!Crash
    BY <2>2 DEF BPM!Crash
  <2> QED BY <1>2, <2>3, <2>4, FailQuiet
<1>3. \/ \E p \in PageId : BPM!FlushOne(p)
      \/ BPM!BeginClose \/ BPM!FlushAllFails \/ BPM!EndClose
  BY DEF Close
<1> QED BY <1>1, <1>2, <1>3

LEMMA CloseGrows ==
  ASSUME Reach, Linked, Grows, Close
  PROVE  Grows' /\ AbstractStep
<1>1. first_page' = first_page /\ op' = Idle /\ op = Idle /\ rows' = rows
      /\ (faulted' = faulted \/ faulted')
  BY DEF Close
<1>2. /\ Quietly /\ NothingLost
      /\ BPM!BeginClose \/ BPM!FlushAllFails \/ BPM!EndClose => disk' = disk
  BY CloseQuiet DEF Reach
<1>3. op'.step = "idle" /\ op.step = "idle"
  BY <1>1 DEF Idle
<1>4. EndIsUsed'
  BY <1>3, NoEndIsUsed
<1>5. \A h \in Heap : rows[h] \cup Pending(h) \subseteq rows'[h]
  BY <1>1, <1>3, NonePending
<1>6. Grows' /\ Settles
  BY <1>1, <1>2, <1>4, <1>5, QuietGrows DEF Reach
<1>7. CASE \E p \in PageId : BPM!FlushOne(p) /\ faulted' = faulted
  <2>1. Up /\ Up'
    BY <1>7 DEF BPM!FlushOne, Up
  <2> QED BY <1>6, <1>7, <2>1, SettlesPersists DEF AbstractStep
<1>8. CASE (BPM!BeginClose \/ BPM!FlushAllFails \/ BPM!EndClose) /\ ~(\E p \in PageId : BPM!FlushOne(p) /\ faulted' = faulted)
  <2>1. \A h \in Heap : DiskRows(h)' = DiskRows(h)
    BY <1>1, <1>2, <1>8, SameDiskRows
  <2>2. CASE BPM!BeginClose /\ faulted' = faulted
    <3>1. Up /\ Up' /\ Still
      BY <1>6, <2>1, <2>2 DEF BPM!BeginClose, Up, Still, Settles
    <3> QED BY <1>6, <2>2, <3>1, StillStutters DEF AbstractStep
  <2>3. CASE BPM!FlushAllFails /\ faulted' = TRUE
    <3>1. Up /\ Up' /\ Loses
      BY <1>6, <2>1, <2>3 DEF BPM!FlushAllFails, Up, Loses, Settles
    <3> QED BY <1>6, <2>3, <3>1, LosesDiscards DEF AbstractStep
  <2>4. CASE BPM!EndClose /\ faulted' = faulted
    <3> DEFINE c == [h \in Heap |-> RowsOf(h, View)]
               s == [h \in Heap |-> DiskRows(h)]
    <3>1. c = s
      BY <2>4, CleanIsStable DEF BPM!EndClose, Grows, PageId
    <3>2. c' = c
      BY <1>6 DEF Settles
    <3>3. s' = s
      BY <2>1
    <3>4. BPM!StatusView = "up" /\ BPM!StatusView' = "closed"
      BY <2>4 DEF BPM!EndClose, BPM!StatusView
    <3>5. Abstract!Close
      BY <2>4, <3>1, <3>2, <3>3, <3>4 DEF Abstract!Close
    <3> QED BY <1>6, <3>5 DEF Abstract!Next, AbstractStep
  <2> QED BY <1>8, <2>2, <2>3, <2>4 DEF Close
<1> QED BY <1>7, <1>8 DEF Close

LEMMA CrashGrows ==
  ASSUME Reach, Linked, Grows, Crash
  PROVE  Grows' /\ AbstractStep
<1>1. /\ View' = BPM!StableView /\ BPM!StableView' = BPM!StableView
      /\ \A q \in PageId : pages'[q] = NoFrame
      /\ first_page' = first_page /\ op' = Idle /\ ~faulted'
      /\ \A h \in Heap : rows'[h] = RowsOf(h, BPM!StableView)
  BY CrashViews
<1>2. disk' = disk /\ faulted' = FALSE
  BY DEF Crash, BPM!Crash
<1>3. ImagesGrow'
  BY <1>1, <1>2 DEF ImagesGrow, Grows
<1>4. op'.step = "idle"
  BY <1>1 DEF Idle
<1>5. EndIsUsed'
  BY <1>4, NoEndIsUsed
<1>6. \A h \in Heap : RowsOf(h, View)' = DiskRows(h) /\ DiskRows(h)' = DiskRows(h)
                      /\ rows'[h] = DiskRows(h)
  BY <1>1 DEF RowsOf, DiskRows, Chain
<1>7. RowsExact'
  <2>1. ASSUME NEW h \in Heap
        PROVE  /\ RowsOf(h, View)' \subseteq rows'[h]
               /\ DiskRows(h)' \subseteq rows'[h]
    BY <1>6
  <2> QED BY <2>1 DEF RowsExact
<1>8. Abstract!Crash
  <2> DEFINE c == [h \in Heap |-> RowsOf(h, View)]
             s == [h \in Heap |-> DiskRows(h)]
  <2>1. c' = s
    BY <1>6
  <2>2. s' = s
    BY <1>6
  <2>3. BPM!StatusView = "up" /\ BPM!StatusView' = "crashed"
    BY DEF Crash, BPM!Crash, BPM!StatusView
  <2> QED BY <1>2, <2>1, <2>2, <2>3 DEF Abstract!Crash
<1> QED BY <1>3, <1>5, <1>7, <1>8 DEF Grows, Abstract!Next, AbstractStep

LEMMA OpenGrows ==
  ASSUME Reach, Linked, Grows, Reopen
  PROVE  Grows' /\ AbstractStep
<1>1. UNCHANGED <<disk, pages, first_page, rows, faulted, op>>
  BY DEF Reopen, BPM!Open, BPM!OpenFile, heapVars
<1>2. \A q \in PageId : View'[q] = View[q]
  BY <1>1, ViewFacts
<1>3. EndIsUsed'
  <2>1. View' = View
    BY <1>1 DEF View, BPM!StoreView, BPM!Cached
  <2> QED BY <1>1, <2>1 DEF Grows, EndIsUsed
<1>4. Grows' /\ Still
  BY <1>1, <1>3, SameGrows
<1>5. Abstract!Open
  <2>1. [h \in Heap |-> RowsOf(h, View)]' = [h \in Heap |-> RowsOf(h, View)]
    BY <1>4 DEF Still
  <2>2. [h \in Heap |-> DiskRows(h)]' = [h \in Heap |-> DiskRows(h)]
    BY <1>4 DEF Still
  <2>3. BPM!StatusView # "up" /\ BPM!StatusView' = "up"
    BY DEF Reopen, BPM!Open, BPM!StatusView
  <2> QED BY <1>1, <2>1, <2>2, <2>3 DEF Abstract!Open
<1> QED BY <1>4, <1>5 DEF Abstract!Next, AbstractStep

LEMMA StutterGrows ==
  ASSUME Reach, Linked, Grows, EndScan \/ UNCHANGED vars
  PROVE  Grows' /\ AbstractStep
<1>1. UNCHANGED <<disk, pages, first_page, rows, faulted, mode>>
  BY DEF EndScan, vars, poolVars, heapVars
<1>2. op' = op \/ (op.step = "scanned" /\ op' = Idle)
  BY DEF EndScan, Return, vars, heapVars
<1>3. EndIsUsed'
  <2>1. View' = View
    BY <1>1 DEF View, BPM!StoreView, BPM!Cached
  <2>2. Idle.step = "idle"
    BY DEF Idle
  <2> QED BY <1>2, <2>1, <2>2 DEF Grows, EndIsUsed
<1>4. Grows' /\ Still
  BY <1>1, <1>2, <1>3, SameGrows
<1> QED BY <1>1, <1>4, StillStutters DEF AbstractStep, Up

LEMMA InitGrows == Init => Grows /\ Abstract!Init
<1> SUFFICES ASSUME Init PROVE Grows /\ Abstract!Init
  OBVIOUS
<1>1. /\ \A q \in PageId : disk[q].data = ZeroedPage /\ pages[q] = NoFrame
      /\ op.step = "idle" /\ faulted = FALSE /\ mode = "open"
      /\ rows = [h \in Heap |-> {}]
      /\ \A h \in Heap : first_page[h] = NoPage
  BY DEF Init, Idle, BPM!Init, BPM!DiskInit, PageId
<1>2. ImagesGrow
  <2>1. Growing(ZeroedPage)
    BY ZeroedPageIsNoTable DEF Growing, ZeroedPage
  <2> QED BY <1>1, <2>1 DEF ImagesGrow
<1>3. \A h \in Heap : RowsOf(h, View) = {} /\ DiskRows(h) = {}
  <2>1. Linking(View) /\ Linking(BPM!StableView)
    BY InitInv, InitLinked, ViewsLag
  <2>2. From(NoPage, View) = {} /\ From(NoPage, BPM!StableView) = {}
    BY <2>1, FromNowhere
  <2> QED BY <1>1, <2>2 DEF RowsOf, DiskRows, Chain
<1>4. Grows
  BY <1>1, <1>2, <1>3 DEF Grows, EndIsUsed, RowsExact
<1>5. Abstract!Init
  <2>1. /\ [h \in Heap |-> RowsOf(h, View)] = [h \in Heap |-> {}]
        /\ [h \in Heap |-> DiskRows(h)] = [h \in Heap |-> {}]
        /\ BPM!StatusView = "up"
    BY <1>1, <1>3 DEF BPM!StatusView
  <2> QED BY <1>1, <2>1 DEF Abstract!Init
<1> QED BY <1>4, <1>5

\* While rows are only inserted: all that is known of the heaps.
Inserting == ForceInv /\ Reach /\ Linked /\ Rowed /\ Grows

LEMMA NextGrows ==
  TuplesFit /\ ~MayModify /\ Inserting /\ [Next]_vars => Grows' /\ AbstractStep
<1> SUFFICES ASSUME TuplesFit, ~MayModify, Inserting, [Next]_vars PROVE Grows' /\ AbstractStep
  OBVIOUS
<1> USE DEF Inserting
<1>1. ASSUME NEW h \in Heap, CreateHeap(h) PROVE Grows' /\ AbstractStep
  BY <1>1, CreateGrows
<1>2. ASSUME NEW h \in Heap,
             \/ Scan(h)
             \/ \E t \in Tuples : Insert(h, t)
             \/ \E r \in rows[h] : Delete(h, r)
             \/ \E r \in rows[h], t \in Tuples : Update(h, r, t)
      PROVE  Grows' /\ AbstractStep
  BY <1>2, BeginGrows
<1>3. CASE WalkPage \/ ExtendChain \/ FetchPrev \/ LinkPrev \/ Put \/ FlushRow
          \/ Acknowledge
  BY <1>3, WalkGrows, ExtendGrows, FetchPrevGrows, LinkGrows, PutGrows,
     FlushRowGrows, AckGrows
<1>4. CASE FetchVictim \/ Kill \/ FetchOld \/ OverwriteRow
  <2>1. op.step \in ModifySteps
    BY <1>4 DEF FetchVictim, Kill, FetchOld, OverwriteRow, ModifySteps
  <2> QED BY <2>1 DEF ForceInv, OnlyInserts
<1>5. CASE ScanPage \/ Throws \/ Close \/ Crash
  BY <1>5, ScanGrows, ThrowsGrows, CloseGrows, CrashGrows
<1>6. CASE EndScan \/ UNCHANGED vars \/ Reopen
  BY <1>6, StutterGrows, OpenGrows
<1> QED BY <1>1, <1>2, <1>3, <1>4, <1>5, <1>6 DEF Next

LEMMA NextInserting ==
  TuplesFit /\ ~MayModify /\ Inserting /\ [Next]_vars => Inserting'
  BY NextGrows, NextForced, NextReach, NextLinked, NextRowed DEF Inserting

LEMMA InitInserting == Init => Inserting
  BY InitGrows, InitForced, InitReach, InitLinked, InitRowed DEF Inserting

\* While rows are only inserted, the heaps over the pool implement the tables
\* that grow row by row.
THEOREM HeapsImplementTables == TuplesFit /\ ~MayModify => (Spec => ImplementsRowHeap)
<1> SUFFICES ASSUME TuplesFit, ~MayModify PROVE Spec => ImplementsRowHeap
  OBVIOUS
<1>1. Init => Inserting /\ Abstract!Init
  BY InitInserting, InitGrows
<1>2. Inserting /\ [Next]_vars => Inserting' /\ [Abstract!Next]_(Abstract!vars)
  BY NextGrows, NextInserting DEF AbstractStep
<1> QED BY <1>1, <1>2, PTL DEF Spec, ImplementsRowHeap, Abstract!Spec

\* Only a crash leaves the database crashed.
LEMMA OnlyCrashCrashes ==
  ASSUME [Next]_vars, mode # "crashed", mode' = "crashed"
  PROVE  Crash
<1>1. \A p : BPM!NewPage(p) \/ Fetch(p) \/ BPM!FlushPage(p) \/ BPM!FlushOne(p) => mode' = mode
  BY DEF BPM!NewPage, Fetch, BPM!FetchHit, BPM!FetchMiss, BPM!FlushPage, BPM!FlushOne
<1>2. \A p, d : BPM!Write(p, d) => mode' = mode
  BY DEF BPM!Write
<1>3. BPM!FlushFails \/ BPM!NewPageFails \/ BPM!EvictionFails => mode' = mode
  BY DEF BPM!FlushFails, BPM!NewPageFails, BPM!EvictionFails
<1>4. BPM!BeginClose \/ BPM!FlushAllFails \/ BPM!EndClose \/ BPM!Open => mode' # "crashed"
  BY DEF BPM!BeginClose, BPM!FlushAllFails, BPM!EndClose, BPM!Open
<1>5. ASSUME NEW h \in Heap,
             \/ CreateHeap(h) \/ Scan(h)
             \/ \E t \in Tuples : Insert(h, t)
             \/ \E r \in rows[h] : Delete(h, r)
             \/ \E r \in rows[h], t \in Tuples : Update(h, r, t)
      PROVE  FALSE
  BY <1>1, <1>5 DEF CreateHeap, Scan, Insert, Delete, Update, poolVars
<1>6. ASSUME WalkPage \/ ExtendChain \/ FetchPrev \/ LinkPrev \/ Put \/ FlushRow
             \/ Acknowledge
      PROVE  FALSE
  BY <1>1, <1>2, <1>3, <1>6 DEF WalkPage, ExtendChain, FetchPrev, LinkPrev, Put, FlushRow,
                                Acknowledge, poolVars
<1>7. ASSUME FetchVictim \/ Kill \/ FetchOld \/ OverwriteRow PROVE FALSE
  BY <1>1, <1>2, <1>7 DEF FetchVictim, Kill, FetchOld, OverwriteRow
<1>8. ASSUME ScanPage \/ EndScan \/ Throws \/ Close \/ Reopen \/ UNCHANGED vars PROVE FALSE
  BY <1>1, <1>3, <1>4, <1>8 DEF ScanPage, EndScan, Throws, Close, Reopen, vars, poolVars
<1> QED BY <1>5, <1>6, <1>7, <1>8 DEF Next

\* What is in the file of a heap is what was acknowledged and lies on the
\* pages that can be reached in it, and the row that is to be acknowledged.
LEMMA FileHasPrefix ==
  ASSUME ForceInv, Grows, ~faulted, NEW h \in Heap
  PROVE  /\ {r \in rows[h] : r.page \in Chain(h, BPM!StableView)} \subseteq DiskRows(h)
         /\ \A r \in DiskRows(h) : \/ r \in rows[h] /\ r.page \in Chain(h, BPM!StableView)
                                  \/ r \in Saved(h)
<1>1. DiskRows(h) \subseteq rows[h] \cup Saved(h)
  BY DEF Grows, RowsExact
<1>2. \A r \in DiskRows(h) : r.page \in Chain(h, BPM!StableView)
  BY RowsOfFacts DEF DiskRows
<1>3. ASSUME NEW r \in rows[h], r.page \in Chain(h, BPM!StableView)
      PROVE  r \in DiskRows(h)
  <2>1. r \in RowType /\ r.page \in PageId
    BY RowFacts DEF ForceInv
  <2>2. Has(BPM!StableView[r.page], r)
    BY <2>1, ViewFacts DEF ForceInv, Forced, Safe
  <2> QED BY <1>3, <2>1, <2>2, RowsOfFacts DEF DiskRows
<1> QED BY <1>1, <1>2, <1>3

\* While rows are only inserted, a crash that follows no failed write leaves of
\* every heap all rows that were acknowledged on the pages the file links, and
\* of other rows at most the one of the insertion that had forced its page and
\* not returned yet.  Rows on pages the file does not link are lost.
THEOREM CrashLeavesPrefix == TuplesFit /\ ~MayModify => (Spec => CrashKeepsPrefix)
<1> SUFFICES ASSUME TuplesFit, ~MayModify PROVE Spec => CrashKeepsPrefix
  OBVIOUS
<1> DEFINE Keeping == mode # "crashed" /\ mode' = "crashed" /\ ~faulted =>
             \A h \in Heap :
               LET kept == {r \in rows[h] : r.page \in Chain(h, BPM!StableView)}
               IN  /\ kept \subseteq rows'[h]
                   /\ \A r \in rows'[h] \ kept :
                        op.step = "ack" /\ op.heap = h /\ r = NewRow
<1>1. Inserting /\ [Next]_vars => Keeping
  <2> SUFFICES ASSUME Inserting, [Next]_vars, mode # "crashed", mode' = "crashed", ~faulted,
                      NEW h \in Heap
               PROVE  LET kept == {r \in rows[h] : r.page \in Chain(h, BPM!StableView)}
                      IN  /\ kept \subseteq rows'[h]
                          /\ \A r \in rows'[h] \ kept :
                               op.step = "ack" /\ op.heap = h /\ r = NewRow
    OBVIOUS
  <2>1. rows'[h] = DiskRows(h)
    BY OnlyCrashCrashes DEF Crash
  <2>2. \A r \in Saved(h) : op.step = "ack" /\ op.heap = h /\ r = NewRow
    BY DEF Saved
  <2> QED BY <2>1, <2>2, FileHasPrefix DEF Inserting
<1>2. Inserting /\ [Next]_vars => Inserting'
  BY NextInserting
<1> QED BY <1>1, <1>2, InitInserting, PTL DEF Spec, CrashKeepsPrefix

-----------------------------------------------------------------------------
(* A chain goes up, and skips none of its pages.                           *)

LEMMA FirstIsLeast ==
  ASSUME Inv, Linked, NEW h \in Heap, NEW p \in Chain(h, View)
  PROVE  first_page[h] \in Chain(h, View) /\ first_page[h] <= p
<1> DEFINE f == first_page[h]
           C == Chain(h, View)
           S == {q \in C : f <= q}
<1>1. /\ C \in SUBSET PageId /\ Shut(C, View) /\ f \in Link
      /\ f # NoPage => f \in C
      /\ \A T \in SUBSET PageId : f \in T \cup {NoPage} /\ Shut(T, View) => C \subseteq T
      /\ \A q \in C : Tabled(q)
  BY ViewsLag, ChainFacts, HeapOfPages
<1> HIDE DEF C, f
<1>2. f # NoPage
  <2>1. f = NoPage => C = {}
    <3>1. {} \in SUBSET PageId /\ Shut({}, View)
      BY DEF Shut
    <3> QED BY <1>1, <3>1
  <2> QED BY <2>1 DEF C
<1>3. S \in SUBSET PageId /\ f \in S
  <2>1. f \in C /\ f \in Int /\ f <= f
    BY <1>1, <1>2, PageIdFacts
  <2> QED BY <1>1, <2>1
<1>4. Shut(S, View)
  <2>1. ASSUME NEW q \in S, View[q].next_page_id # NoPage PROVE View[q].next_page_id \in S
    <3>1. q \in C /\ f <= q /\ View[q].next_page_id \in C
      BY <1>1, <2>1 DEF Shut
    <3>2. q < View[q].next_page_id
      BY <1>1, <2>1, <3>1 DEF Linked, PagesLinked, LinksAscend
    <3>3. f \in Int /\ q \in Int /\ View[q].next_page_id \in Int
      BY <1>1, <1>3, <3>1, PageIdFacts
    <3> QED BY <3>1, <3>2, <3>3
  <2> QED BY <2>1 DEF Shut
<1>5. C \subseteq S
  BY <1>1, <1>3, <1>4
<1> QED BY <1>1, <1>2, <1>5 DEF C, f

\* No page of a chain lies between one of its pages and the next.
LEMMA NoneBetween ==
  ASSUME Inv, Linked, NEW h \in Heap, NEW p \in Chain(h, View), NEW q \in Chain(h, View), p < q
  PROVE  View[p].next_page_id # NoPage /\ View[p].next_page_id <= q
<1> DEFINE C == Chain(h, View)
           n(a) == View[a].next_page_id
           Skips(a, c) == a < c /\ (n(a) = NoPage \/ c < n(a))
           V == {c \in C : \E a \in C : Skips(a, c)}
<1>1. /\ C \in SUBSET PageId /\ Shut(C, View)
      /\ \A a \in C : Tabled(a) /\ first_page[h] <= a
      /\ \A c \in C : c # first_page[h] => \E b \in C : n(b) = c
  <2>1. \A c \in C : c # first_page[h] => \E b \in C : View[b].next_page_id = c
    BY ViewsLag, ChainNames
  <2> QED BY <2>1, HeapOfPages, FirstIsLeast
<1>2. \A a \in C : n(a) # NoPage => a < n(a) /\ n(a) \in C
  BY <1>1 DEF Linked, PagesLinked, LinksAscend, Shut
<1>3. C \subseteq Nat /\ first_page[h] \in C
  BY <1>1, PageIdFacts, HeapAssumption, FirstIsLeast
<1> HIDE DEF C, n
<1>4. V = {}
  <2>1. SUFFICES ASSUME V # {} PROVE FALSE
    OBVIOUS
  <2>2. PICK c \in V : \A d \in V : c <= d
    <3>1. V \in SUBSET Nat
      BY <1>3
    <3> HIDE DEF V
    <3> QED BY <2>1, <3>1, LeastNatural
  <2>3. PICK a \in C : Skips(a, c)
    OBVIOUS
  <2>4. c # first_page[h]
    BY <1>1, <1>3, <2>3
  <2>5. PICK b \in C : n(b) = c
    BY <1>1, <2>4
  <2>6. NoPage \notin C
    BY <1>1, PageIdFacts
  <2>7. b < c
    BY <1>2, <2>5, <2>6
  <2>8. CASE b = a
    BY <1>3, <2>3, <2>5, <2>6, <2>8
  <2>9. CASE a < b
    <3>1. Skips(a, b)
      <4>1. n(a) # NoPage => n(a) \in Nat
        BY <1>2, <1>3
      <4>2. b \in Nat /\ c \in Nat
        BY <1>3
      <4>3. n(a) # NoPage => b < n(a)
        BY <2>3, <2>7, <4>1, <4>2
      <4> QED BY <2>9, <4>3
    <3>2. c <= b
      BY <2>2, <3>1
    <3> QED BY <1>3, <2>7, <3>2
  <2>10. CASE b < a
    <3>1. Skips(b, a)
      BY <2>3, <2>5, <2>10
    <3>2. c <= a
      BY <2>2, <3>1
    <3> QED BY <1>3, <2>3, <3>2
  <2>11. a \in Nat /\ b \in Nat
    BY <1>3
  <2> QED BY <2>8, <2>9, <2>10, <2>11
<1>5. n(p) # NoPage /\ ~(q < n(p))
  BY <1>4 DEF C
<1>6. n(p) \in Nat /\ q \in Nat
  BY <1>2, <1>3, <1>5 DEF C
<1>7. n(p) <= q
  BY <1>5, <1>6
<1> QED BY <1>5, <1>7 DEF n

-----------------------------------------------------------------------------
(* A scan goes along the rows in order.                                    *)

\* The rows of a heap up to slot i of page p.
UpTo(h, p, i) == {r \in rows[h] : r.page < p \/ (r.page = p /\ r.slot <= i)}

\* The rows to account for are the rows on the pages.
LEMMA RowsAreContents ==
  ASSUME Inserting, ~faulted, op.step \notin {"flush", "ack"}, NEW h \in Heap
  PROVE  rows[h] = RowsOf(h, View)
<1>1. RowsOf(h, View) \subseteq rows[h]
  BY NonePending DEF Inserting, Grows, RowsExact
<1>2. ASSUME NEW r \in rows[h] PROVE r \in RowsOf(h, View)
  <2>1. Placed(h, r) /\ r \in RowType
    BY RowFacts DEF Inserting, Rowed, RowsPlaced, Reach
  <2> QED BY <2>1, RowsOfFacts DEF Placed
<1> QED BY <1>1, <1>2

LEMMA RowAt ==
  ASSUME Inserting, ~faulted, op.step \notin {"flush", "ack"}, NEW h \in Heap, NEW r \in rows[h]
  PROVE  /\ r \in RowType /\ r.page \in Chain(h, View)
         /\ r.slot \in DOMAIN View[r.page].slots /\ r.slot \in Nat \ {0}
         /\ r = Row(r.page, r.slot, View[r.page].slots[r.slot].tuple)
<1>1. r \in RowsOf(h, View) /\ r \in RowType
  BY RowsAreContents, RowFacts DEF Inserting, Reach
<1>2. /\ r.page \in Chain(h, View) /\ Has(View[r.page], r)
      /\ r = Row(r.page, r.slot, r.tuple)
  BY <1>1, RowsOfFacts
<1>3. r.slot \in DOMAIN View[r.page].slots /\ r.tuple = View[r.page].slots[r.slot].tuple
  BY <1>2 DEF Has, IsLive
<1>4. View[r.page] \in TablePage
  BY <1>2, HeapOfPages DEF Inserting, Reach, Tabled
<1>5. View[r.page].slots \in Seq(SlotOf(Tuples))
  BY <1>4 DEF TablePage, PageOf
<1>6. r.slot \in Nat \ {0}
  BY <1>3, <1>5
<1> QED BY <1>1, <1>2, <1>3, <1>6

\* The next row of the page.
LEMMA NextRowOfPage ==
  ASSUME Inserting, ~faulted, op.step \notin {"flush", "ack"}, NEW h \in Heap, NEW p \in Chain(h, View),
         NEW i \in Nat, LiveAfter(View[p], i) # {},
         NEW j, j = FirstOf(LiveAfter(View[p], i)),
         NEW x, x = Row(p, j, View[p].slots[j].tuple)
  PROVE  /\ j \in Nat /\ x \in RowType /\ x \in rows[h]
         /\ x \notin UpTo(h, p, i) /\ UpTo(h, p, j) = UpTo(h, p, i) \cup {x}
<1> DEFINE L == LiveAfter(View[p], i)
<1>1. p \in PageId /\ View[p] \in TablePage
  BY HeapOfPages DEF Inserting, Reach, Tabled
<1>2. View[p].slots \in Seq(SlotOf(Tuples))
  BY <1>1 DEF TablePage, PageOf
<1>3. L \in SUBSET Nat
  BY <1>2 DEF LiveAfter, LiveSlots
<1>4. j \in L /\ \A k \in L : j <= k
  <2>1. \E k \in L : \A m \in L : k <= m
    BY <1>3, LeastNatural
  <2> HIDE DEF L
  <2> QED BY <2>1 DEF FirstOf, L
<1>5. j \in Nat /\ i < j /\ j \in LiveSlots(View[p])
  BY <1>3, <1>4 DEF LiveAfter
<1>6. x \in RowsOf(h, View) /\ x.page = p /\ x.slot = j
  BY <1>5, RowsOfFacts DEF Row
<1>7. x \in rows[h]
  BY <1>6, RowsAreContents
<1>8. x \in RowType
  BY <1>7, RowAt
<1>9. ASSUME NEW r \in rows[h], r.page = p, i < r.slot, r.slot <= j PROVE r = x
  <2>1. /\ r.slot \in DOMAIN View[p].slots /\ r.slot \in Nat
        /\ r = Row(p, r.slot, View[p].slots[r.slot].tuple)
    BY <1>9, RowAt
  <2>2. Has(View[p], r)
    <3>1. r \in RowsOf(h, View)
      BY RowsAreContents
    <3> QED BY <1>9, <3>1, RowsOfFacts
  <2>3. r.slot \in L
    BY <1>9, <2>1, <2>2 DEF LiveAfter, LiveSlots, Has, IsLive
  <2>4. r.slot = j
    BY <1>4, <1>5, <1>9, <2>1, <2>3
  <2> QED BY <2>1, <2>4
<1> HIDE DEF L
<1>10. x \notin UpTo(h, p, i)
  BY <1>1, <1>5, <1>6, PageIdFacts DEF UpTo
<1>11. UpTo(h, p, j) \subseteq UpTo(h, p, i) \cup {x}
  <2>1. ASSUME NEW r \in UpTo(h, p, j), r # x PROVE r \in UpTo(h, p, i)
    <3>1. r \in rows[h] /\ (r.page < p \/ (r.page = p /\ r.slot <= j))
      BY DEF UpTo
    <3>2. r.slot \in Nat
      BY <3>1, RowAt
    <3>3. r.page = p => r.slot <= i
      BY <1>5, <1>9, <2>1, <3>1, <3>2, PageIdFacts, <1>1
    <3> QED BY <3>1, <3>3 DEF UpTo
  <2> QED BY <2>1
<1>12. UpTo(h, p, i) \cup {x} \subseteq UpTo(h, p, j)
  <2>1. ASSUME NEW r \in UpTo(h, p, i) PROVE r \in UpTo(h, p, j)
    <3>1. r \in rows[h] /\ (r.page < p \/ (r.page = p /\ r.slot <= i))
      BY DEF UpTo
    <3>2. r.slot \in Nat
      BY <3>1, RowAt
    <3> QED BY <1>5, <3>1, <3>2 DEF UpTo
  <2>2. x \in UpTo(h, p, j)
    BY <1>5, <1>6, <1>7 DEF UpTo
  <2> QED BY <2>1, <2>2
<1> QED BY <1>5, <1>7, <1>8, <1>10, <1>11, <1>12

\* A page has no row left: the rows go on with the next page, or end; and a page
\* that had none at all is the last.
LEMMA PageIsDone ==
  ASSUME Inserting, ~faulted, op.step \notin {"flush", "ack"}, NEW h \in Heap, NEW p \in Chain(h, View),
         NEW i \in Nat, LiveAfter(View[p], i) = {},
         NEW n, n = View[p].next_page_id
  PROVE  /\ n # NoPage => n \in Chain(h, View) /\ UpTo(h, n, 0) = UpTo(h, p, i)
         /\ n = NoPage => UpTo(h, p, i) = rows[h]
         /\ i = 0 => n = NoPage
<1>1. /\ p \in PageId /\ Tabled(p) /\ Chain(h, View) \in SUBSET PageId
      /\ n # NoPage => n \in Chain(h, View)
  BY HeapOfPages DEF Inserting, Reach, Shut
<1>2. n # NoPage => p < n
  BY <1>1 DEF Inserting, Linked, PagesLinked, LinksAscend
<1>3. ASSUME NEW r \in rows[h]
      PROVE  /\ r.page \in PageId /\ r.slot \in Nat \ {0}
             /\ p < r.page => n # NoPage /\ n <= r.page
             /\ r.page = p => r.slot <= i
  <2>1. /\ r.page \in Chain(h, View) /\ r.slot \in Nat \ {0}
        /\ Has(View[r.page], r)
    BY RowAt, RowsAreContents, RowsOfFacts
  <2>2. r.page = p => r.slot \in LiveSlots(View[p])
    BY <2>1 DEF Has, IsLive, LiveSlots
  <2>3. r.page = p => r.slot <= i
    BY <2>1, <2>2 DEF LiveAfter
  <2>4. p < r.page => n # NoPage /\ n <= r.page
    BY <2>1, NoneBetween DEF Inserting, Reach
  <2> QED BY <1>1, <2>1, <2>3, <2>4
<1>4. ASSUME n # NoPage PROVE UpTo(h, n, 0) = UpTo(h, p, i)
  <2>1. n \in Int /\ p \in Int /\ p < n
    BY <1>1, <1>2, <1>4, PageIdFacts
  <2>2. ASSUME NEW r \in rows[h]
        PROVE  (r.page < n \/ (r.page = n /\ r.slot <= 0)) <=> (r.page < p \/ (r.page = p /\ r.slot <= i))
    <3>1. r.page \in Int
      BY <1>3, PageIdFacts
    <3> QED BY <1>3, <2>1, <3>1
  <2> QED BY <2>2 DEF UpTo
<1>5. ASSUME n = NoPage PROVE UpTo(h, p, i) = rows[h]
  <2>1. ASSUME NEW r \in rows[h] PROVE r.page < p \/ (r.page = p /\ r.slot <= i)
    <3>1. r.page \in Int /\ p \in Int
      BY <1>1, <1>3, PageIdFacts
    <3> QED BY <1>3, <1>5, <3>1
  <2> QED BY <2>1 DEF UpTo
<1>6. ASSUME i = 0 PROVE n = NoPage
  <2>1. View[p] \in TablePage /\ Growing(View[p])
    BY <1>1, ViewFacts DEF Tabled, Inserting, Grows, ImagesGrow
  <2>2. View[p].slots \in Seq(SlotOf(Tuples))
    BY <2>1 DEF TablePage, PageOf
  <2>3. \A k \in DOMAIN View[p].slots : k > 0 /\ k \in LiveSlots(View[p])
    BY <2>1, <2>2 DEF Growing, LiveSlots
  <2>4. DOMAIN View[p].slots = {}
    BY <1>6, <2>3 DEF LiveAfter
  <2>5. View[p].slots = <<>>
    <3>1. ASSUME NEW s \in Seq(SlotOf(Tuples)), DOMAIN s = {} PROVE s = <<>>
      <4>1. Len(s) = 0
        BY <3>1
      <4> QED BY <4>1
    <3> QED BY <2>2, <2>4, <3>1
  <2> QED BY <2>1, <2>5 DEF Growing
<1> QED BY <1>1, <1>4, <1>5, <1>6

\* What a scan has seen, up to slot i of page p: every row once.
Counted(h, p, i, seen) ==
  /\ p \in Chain(h, View) /\ i \in Nat /\ seen \in Seq(RowType)
  /\ {seen[k] : k \in DOMAIN seen} = UpTo(h, p, i)
  /\ IsFiniteSet(UpTo(h, p, i)) /\ Len(seen) = Cardinality(UpTo(h, p, i))

ScanOf(h, step, p, i, seen) ==
  /\ Counted(h, p, i, seen)
  /\ step \in {"begin", "nextPage"} => i = 0
  /\ step = "scanned" => UpTo(h, p, i) = rows[h]

Scanning ==
  op.step \in ScanSteps /\ ~faulted =>
    op.heap \in Heap /\ ScanOf(op.heap, op.step, op.page, op.slot, op.seen)

\* One row more has been seen.
LEMMA SeenOneMore ==
  ASSUME NEW T, NEW s \in Seq(T), NEW x \in T, NEW S, S = {s[k] : k \in DOMAIN s},
         x \notin S, IsFiniteSet(S), Len(s) = Cardinality(S)
  PROVE  /\ Append(s, x) \in Seq(T)
         /\ {Append(s, x)[k] : k \in DOMAIN Append(s, x)} = S \cup {x}
         /\ IsFiniteSet(S \cup {x}) /\ Len(Append(s, x)) = Cardinality(S \cup {x})
<1>1. PICK a : a = Append(s, x)
  OBVIOUS
<1>2. a \in Seq(T) /\ Len(a) = Len(s) + 1 /\ Len(s) \in Nat
  BY <1>1
<1>3. DOMAIN a = 1 .. Len(s) + 1 /\ DOMAIN s = 1 .. Len(s)
  BY <1>2
<1>4. \A k \in 1 .. Len(s) : a[k] = s[k]
  BY <1>1
<1>5. a[Len(s) + 1] = x
  BY <1>1
<1>6. {a[k] : k \in DOMAIN a} = S \cup {x}
  <2>1. ASSUME NEW k \in 1 .. Len(s) + 1 PROVE a[k] \in S \cup {x}
    <3>1. k \in 1 .. Len(s) \/ k = Len(s) + 1
      BY <1>2
    <3>2. ASSUME k \in 1 .. Len(s) PROVE a[k] \in S
      BY <1>3, <1>4, <3>2
    <3> QED BY <1>5, <3>1, <3>2
  <2>2. ASSUME NEW y \in S PROVE \E k \in 1 .. Len(s) + 1 : a[k] = y
    <3>1. PICK k \in 1 .. Len(s) : y = s[k]
      BY <1>3
    <3>2. k \in 1 .. Len(s) + 1
      BY <1>2
    <3>3. a[k] = y
      BY <1>4, <3>1
    <3> QED BY <3>2, <3>3
  <2>3. Len(s) + 1 \in 1 .. Len(s) + 1
    BY <1>2
  <2>4. {a[k] : k \in DOMAIN a} \subseteq S \cup {x}
    BY <1>3, <2>1
  <2>5. S \cup {x} \subseteq {a[k] : k \in DOMAIN a}
    BY <1>3, <1>5, <2>2, <2>3
  <2> QED BY <2>4, <2>5
<1>7. IsFiniteSet(S \cup {x}) /\ Cardinality(S \cup {x}) = Cardinality(S) + 1
  BY FS_AddElement
<1> QED BY <1>1, <1>2, <1>6, <1>7

\* Where neither the chains nor the rows change, nor does what was seen.
LEMMA CountStays ==
  ASSUME NEW h \in Heap, NEW p, NEW i, NEW seen, NEW step,
         Chain(h, View)' = Chain(h, View), rows' = rows, ScanOf(h, step, p, i, seen)
  PROVE  ScanOf(h, step, p, i, seen)'
<1>1. UpTo(h, p, i)' = UpTo(h, p, i)
  BY DEF UpTo
<1>2. Counted(h, p, i, seen)'
  BY <1>1 DEF ScanOf, Counted
<1> QED BY <1>1, <1>2 DEF ScanOf

LEMMA NotScanning ==
  ASSUME op.step \notin ScanSteps
  PROVE  Scanning
  BY DEF Scanning

LEMMA BeginScanning ==
  ASSUME Inserting, NEW h \in Heap, Scan(h)
  PROVE  Scanning'
<1> SUFFICES ASSUME ~faulted' PROVE Scanning'
  BY DEF Scanning
<1>1. /\ UNCHANGED <<poolVars, first_page, rows, faulted>> /\ first_page[h] # NoPage
      /\ op = Idle
      /\ op' = [step |-> "begin", heap |-> h, page |-> first_page[h], slot |-> 0, seen |-> <<>>]
  BY DEF Scan, Ready
<1>2. PICK f : f = first_page[h]
  OBVIOUS
<1>3. ~faulted /\ op.step \notin {"flush", "ack"}
  BY <1>1 DEF Idle
<1>4. f \in Chain(h, View)
  <2>1. Linking(View)
    BY ViewsLag DEF Inserting, Reach
  <2>2. f \in Link
    BY <1>2 DEF Inserting, Reach, Inv, CallInv
  <2> QED BY <1>1, <1>2, ViewsLag, ChainFacts DEF Inserting, Reach
<1>5. UpTo(h, f, 0) = {}
  <2>1. ASSUME NEW r \in rows[h] PROVE ~(r.page < f \/ (r.page = f /\ r.slot <= 0))
    <3>1. r.page \in Chain(h, View) /\ r.slot \in Nat \ {0}
      BY <1>3, RowAt
    <3>2. f <= r.page
      BY <1>2, <3>1, FirstIsLeast DEF Inserting, Reach
    <3>3. f \in Int /\ r.page \in Int
      BY <1>4, <3>1, HeapOfPages, PageIdFacts DEF Inserting, Reach
    <3> QED BY <3>1, <3>2, <3>3
  <2> QED BY <2>1 DEF UpTo
<1>6. ScanOf(h, "begin", f, 0, <<>>)
  <2>1. <<>> \in Seq(RowType) /\ DOMAIN <<>> = {} /\ Len(<<>>) = 0
    OBVIOUS
  <2>2. {<<>>[k] : k \in DOMAIN <<>>} = {}
    BY <2>1
  <2>3. IsFiniteSet({}) /\ Cardinality({}) = 0
    BY FS_EmptySet
  <2> QED BY <1>4, <1>5, <2>1, <2>2, <2>3 DEF ScanOf, Counted
<1>7. Chain(h, View)' = Chain(h, View)
  <2>1. View' = View
    BY <1>1 DEF poolVars, View, BPM!StoreView, BPM!Cached
  <2> QED BY <1>1, <2>1 DEF Chain
<1>8. ScanOf(h, "begin", f, 0, <<>>)'
  BY <1>1, <1>6, <1>7, CountStays
<1>9. /\ op'.heap = h /\ op'.step = "begin" /\ op'.page = f /\ op'.slot = 0 /\ op'.seen = <<>>
  BY <1>1, <1>2
<1> QED BY <1>8, <1>9 DEF Scanning

LEMMA ScanMoves ==
  ASSUME IsScan(op), NEW step, NEW p, NEW i, NEW seen
  PROVE  /\ op' = [op EXCEPT !.step = step] =>
              /\ op'.step = step /\ op'.heap = op.heap /\ op'.page = op.page
              /\ op'.slot = op.slot /\ op'.seen = op.seen
         /\ op' = [op EXCEPT !.step = step, !.page = p, !.slot = i] =>
              /\ op'.step = step /\ op'.heap = op.heap /\ op'.page = p
              /\ op'.slot = i /\ op'.seen = op.seen
         /\ op' = [op EXCEPT !.step = step, !.page = p, !.slot = i, !.seen = seen] =>
              /\ op'.step = step /\ op'.heap = op.heap /\ op'.page = p
              /\ op'.slot = i /\ op'.seen = seen
<1>1. DOMAIN op = {"step", "heap", "page", "slot", "seen"}
  BY DEF IsScan
<1> QED BY <1>1

\* What a step of a scan makes of its locals, by what is on the page.
Passes(h, step, p, i, seen, pg, live) ==
  /\ live # {} =>
       ScanOf(h, "advance", p, FirstOf(live),
              Append(seen, Row(p, FirstOf(live), pg.slots[FirstOf(live)].tuple)))
  /\ live = {} /\ step = "advance" /\ pg.next_page_id # NoPage =>
       ScanOf(h, "nextPage", pg.next_page_id, 0, seen)
  /\ live = {} /\ (step # "advance" \/ pg.next_page_id = NoPage) =>
       ScanOf(h, "scanned", p, i, seen)

LEMMA ScanPasses ==
  ASSUME Inserting, ~faulted, op.step \notin {"flush", "ack"}, NEW h \in Heap,
         NEW p, NEW i, NEW seen, NEW step \in {"begin", "advance", "nextPage"},
         ScanOf(h, step, p, i, seen),
         NEW pg, pg = View[p], NEW live, live = LiveAfter(pg, i)
  PROVE  Passes(h, step, p, i, seen, pg, live)
<1>1. /\ p \in Chain(h, View) /\ i \in Nat /\ seen \in Seq(RowType)
      /\ {seen[k] : k \in DOMAIN seen} = UpTo(h, p, i)
      /\ IsFiniteSet(UpTo(h, p, i)) /\ Len(seen) = Cardinality(UpTo(h, p, i))
      /\ step # "advance" => i = 0
  BY DEF ScanOf, Counted
<1>2. ASSUME live # {}
      PROVE  ScanOf(h, "advance", p, FirstOf(live),
                    Append(seen, Row(p, FirstOf(live), pg.slots[FirstOf(live)].tuple)))
  <2>1. PICK j, x : j = FirstOf(live) /\ x = Row(p, j, pg.slots[j].tuple)
    OBVIOUS
  <2>2. /\ j \in Nat /\ x \in RowType /\ x \notin UpTo(h, p, i)
        /\ UpTo(h, p, j) = UpTo(h, p, i) \cup {x}
    <3>1. /\ LiveAfter(View[p], i) # {} /\ j = FirstOf(LiveAfter(View[p], i))
          /\ x = Row(p, j, View[p].slots[j].tuple)
      BY <1>2, <2>1
    <3>2. p \in Chain(h, View) /\ i \in Nat
      BY <1>1
    <3> QED BY <3>1, <3>2, NextRowOfPage
  <2>3. PICK S : S = UpTo(h, p, i)
    OBVIOUS
  <2>4. PICK a : a = Append(seen, x)
    OBVIOUS
  <2>5. /\ a \in Seq(RowType) /\ {a[k] : k \in DOMAIN a} = S \cup {x}
        /\ IsFiniteSet(S \cup {x}) /\ Len(a) = Cardinality(S \cup {x})
    BY <1>1, <2>2, <2>3, <2>4, SeenOneMore
  <2>6. Counted(h, p, j, a)
    BY <1>1, <2>2, <2>3, <2>5 DEF Counted
  <2> QED BY <2>1, <2>4, <2>6 DEF ScanOf
<1>3. PICK n : n = pg.next_page_id
  OBVIOUS
<1>4. ASSUME live = {}
      PROVE  /\ n # NoPage => n \in Chain(h, View) /\ UpTo(h, n, 0) = UpTo(h, p, i)
             /\ n = NoPage => UpTo(h, p, i) = rows[h]
             /\ i = 0 => n = NoPage
  <2>1. LiveAfter(View[p], i) = {} /\ n = View[p].next_page_id
    BY <1>3, <1>4
  <2> QED BY <1>1, <2>1, PageIsDone
<1>5. ASSUME live = {}, n # NoPage PROVE ScanOf(h, "nextPage", n, 0, seen)
  BY <1>1, <1>4, <1>5 DEF ScanOf, Counted
<1>6. ASSUME live = {}, step # "advance" \/ n = NoPage PROVE ScanOf(h, "scanned", p, i, seen)
  BY <1>1, <1>4, <1>6 DEF ScanOf, Counted
<1>7. live = {} /\ step = "advance" /\ pg.next_page_id # NoPage =>
        ScanOf(h, "nextPage", pg.next_page_id, 0, seen)
  BY <1>3, <1>5
<1>8. live = {} /\ (step # "advance" \/ pg.next_page_id = NoPage) =>
        ScanOf(h, "scanned", p, i, seen)
  BY <1>3, <1>6
<1>9. live # {} =>
       ScanOf(h, "advance", p, FirstOf(live),
              Append(seen, Row(p, FirstOf(live), pg.slots[FirstOf(live)].tuple)))
  BY <1>2
<1>10. Passes(h, step, p, i, seen, pg, live)
  BY <1>7, <1>8, <1>9 DEF Passes
<1> QED BY <1>10

LEMMA PageScanning ==
  ASSUME Inserting, Scanning, ScanPage
  PROVE  Scanning'
<1> SUFFICES ASSUME ~faulted' PROVE Scanning'
  BY DEF Scanning
<1>1. /\ IsScan(op) /\ op.page \in PageId /\ op.step \in {"begin", "advance", "nextPage"}
      /\ Fetch(op.page) /\ UNCHANGED <<first_page, rows, faulted>>
  BY OpFacts DEF ScanPage, Inserting, Reach, Inv, ScanSteps, IsScan
<1>2. ~faulted /\ op.step \notin {"flush", "ack"} /\ op.step \in ScanSteps
  BY <1>1 DEF ScanSteps
<1>3. PICK h, step, p, i, seen :
        h = op.heap /\ step = op.step /\ p = op.page /\ i = op.slot /\ seen = op.seen
  OBVIOUS
<1>4. h \in Heap /\ ScanOf(h, step, p, i, seen)
  BY <1>2, <1>3 DEF Scanning
<1>5. Quietly /\ NothingLost
  BY <1>1, FetchQuiet DEF Inserting, Reach
<1>6. \A g \in Heap : Chain(g, View)' = Chain(g, View)
  BY <1>1, <1>5, PoolStepRows DEF Inserting, Rowed
<1>7. p < file_pages
  BY <1>2, <1>3 DEF Inserting, Reach, CallReach
<1>8. Fetched(p)
  BY <1>1, <1>2, <1>3, <1>7, FetchReach DEF Inserting, Reach
<1>9. PageRead(p) = View[p]
  <2>1. View'[p] = View[p]
    BY <1>1, <1>3, <1>5, QuietImages DEF Inserting, Grows
  <2> QED BY <1>1, <1>3, <1>8, <2>1, ViewFacts DEF Fetched, PageRead
<1>10. PICK pg, live : pg = View[p] /\ live = LiveAfter(pg, i)
  OBVIOUS
<1>11. Passes(h, step, p, i, seen, pg, live)
  <2>1. step \in {"begin", "advance", "nextPage"}
    BY <1>1, <1>3
  <2> QED BY <1>2, <1>4, <1>10, <2>1, ScanPasses
<1>12. ASSUME NEW st, NEW q, NEW k, NEW sn, ScanOf(h, st, q, k, sn),
              /\ op'.step = st /\ op'.heap = op.heap /\ op'.page = q
              /\ op'.slot = k /\ op'.seen = sn
       PROVE  Scanning'
  <2>1. ScanOf(h, st, q, k, sn)'
    BY <1>1, <1>4, <1>6, <1>12, CountStays
  <2>2. op'.heap = h
    BY <1>3, <1>12
  <2> QED BY <1>4, <1>12, <2>1, <2>2 DEF Scanning
<1>13. \/ /\ live # {} /\ Emit(p, FirstOf(live))
       \/ /\ live = {} /\ step = "advance" /\ pg.next_page_id # NoPage
          /\ op' = [op EXCEPT !.step = "nextPage", !.page = pg.next_page_id, !.slot = 0]
       \/ /\ live = {} /\ (step # "advance" \/ pg.next_page_id = NoPage)
          /\ op' = [op EXCEPT !.step = "scanned"]
  BY <1>3, <1>8, <1>9, <1>10 DEF ScanPage, Goto
<1>14. CASE live # {} /\ Emit(p, FirstOf(live))
  <2>1. PICK j, sn : j = FirstOf(live) /\ sn = Append(seen, Row(p, j, pg.slots[j].tuple))
    OBVIOUS
  <2>2. op' = [op EXCEPT !.step = "advance", !.page = p, !.slot = j, !.seen = sn]
    BY <1>3, <1>9, <1>10, <1>14, <2>1 DEF Emit
  <2>3. /\ op'.step = "advance" /\ op'.heap = op.heap /\ op'.page = p
        /\ op'.slot = j /\ op'.seen = sn
    BY <1>1, <2>2, ScanMoves
  <2> QED BY <1>11, <1>12, <1>14, <2>1, <2>3 DEF Passes
<1>15. CASE /\ live = {} /\ step = "advance" /\ pg.next_page_id # NoPage
            /\ op' = [op EXCEPT !.step = "nextPage", !.page = pg.next_page_id, !.slot = 0]
  <2>1. PICK n : n = pg.next_page_id
    OBVIOUS
  <2>2. /\ op'.step = "nextPage" /\ op'.heap = op.heap /\ op'.page = n
        /\ op'.slot = 0 /\ op'.seen = op.seen
    <3>1. op' = [op EXCEPT !.step = "nextPage", !.page = n, !.slot = 0]
      BY <1>15, <2>1
    <3>2. IsScan(op)
      BY <1>1
    <3> QED BY <3>1, <3>2, ScanMoves
  <2>3. ScanOf(h, "nextPage", n, 0, seen)
    <3>1. live = {} /\ step = "advance" /\ pg.next_page_id # NoPage
      BY <1>15
    <3>2. live = {} /\ step = "advance" /\ pg.next_page_id # NoPage =>
            ScanOf(h, "nextPage", pg.next_page_id, 0, seen)
      BY <1>11 DEF Passes
    <3> QED BY <2>1, <3>1, <3>2
  <2>4. op'.seen = seen
    BY <1>3, <2>2
  <2> QED BY <1>12, <2>2, <2>3, <2>4
<1>16. CASE /\ live = {} /\ (step # "advance" \/ pg.next_page_id = NoPage)
            /\ op' = [op EXCEPT !.step = "scanned"]
  <2>1. /\ op'.step = "scanned" /\ op'.heap = op.heap /\ op'.page = op.page
        /\ op'.slot = op.slot /\ op'.seen = op.seen
    BY <1>1, <1>16, ScanMoves
  <2> QED BY <1>3, <1>11, <1>12, <1>16, <2>1 DEF Passes
<1> QED BY <1>13, <1>14, <1>15, <1>16

\* No other step of a call begins or goes on with a scan.
LEMMA NextScanning ==
  TuplesFit /\ ~MayModify /\ Inserting /\ Scanning /\ [Next]_vars => Scanning'
<1> SUFFICES ASSUME TuplesFit, ~MayModify, Inserting, Scanning, [Next]_vars PROVE Scanning'
  OBVIOUS
<1>1. Idle.step \notin ScanSteps
  BY DEF Idle, ScanSteps
<1>2. ASSUME op' = Idle PROVE Scanning'
  BY <1>1, <1>2 DEF Scanning
<1>3. ASSUME NEW h \in Heap, CreateHeap(h) PROVE Scanning'
  BY <1>2, <1>3 DEF CreateHeap
<1>4. ASSUME NEW h \in Heap,
             \/ \E t \in Tuples : Insert(h, t)
             \/ \E r \in rows[h] : Delete(h, r)
             \/ \E r \in rows[h], t \in Tuples : Update(h, r, t)
      PROVE  Scanning'
  <2>1. op'.step \in {"walk", "fetchVictim", "fetchOld"}
    BY <1>4 DEF Insert, InsertCall, Delete, Update
  <2> QED BY <2>1 DEF Scanning, ScanSteps
<1>5. ASSUME WalkPage \/ ExtendChain \/ FetchPrev \/ LinkPrev \/ Put \/ FlushRow
      PROVE  Scanning'
  <2>1. op \in InsertOp
    BY <1>5, OpFacts DEF WalkPage, ExtendChain, FetchPrev, LinkPrev, Put, FlushRow,
       Inserting, Reach, Inv
  <2>2. "step" \in DOMAIN op
    BY <2>1 DEF InsertOp
  <2>3. op' = Idle \/ op'.step \in {"walk", "put", "flush", "ack", "fetchPrev", "link", "segv"}
    BY <1>5, <2>2 DEF WalkPage, ExtendChain, FetchPrev, LinkPrev, Put, FlushRow, Goto, Return
  <2> QED BY <1>2, <2>3 DEF Scanning, ScanSteps
<1>6. ASSUME Acknowledge PROVE Scanning'
  <2>1. op.replaces = {}
    BY <1>6 DEF Acknowledge, Inserting, ForceInv, OnlyInserts
  <2> QED BY <1>2, <1>6, <2>1 DEF Acknowledge, Return
<1>7. ASSUME FetchVictim \/ Kill \/ FetchOld \/ OverwriteRow PROVE Scanning'
  <2>1. op.step \in ModifySteps
    BY <1>7 DEF FetchVictim, Kill, FetchOld, OverwriteRow, ModifySteps
  <2> QED BY <2>1 DEF Inserting, ForceInv, OnlyInserts
<1>8. ASSUME EndScan \/ Throws \/ Close \/ Crash PROVE Scanning'
  BY <1>2, <1>8 DEF EndScan, Throws, Close, Crash, Return
<1>9. ASSUME UNCHANGED vars \/ Reopen PROVE Scanning'
  <2>1. UNCHANGED <<disk, pages, first_page, rows, faulted, op>>
    BY <1>9 DEF vars, poolVars, heapVars, Reopen, BPM!Open, BPM!OpenFile
  <2>2. View' = View
    BY <2>1 DEF View, BPM!StoreView, BPM!Cached
  <2> SUFFICES ASSUME op.step \in ScanSteps, ~faulted PROVE Scanning'
    BY <2>1 DEF Scanning
  <2>3. PICK h, step, p, i, seen :
          h = op.heap /\ step = op.step /\ p = op.page /\ i = op.slot /\ seen = op.seen
    OBVIOUS
  <2>4. h \in Heap /\ ScanOf(h, step, p, i, seen)
    BY <2>3 DEF Scanning
  <2>5. Chain(h, View)' = Chain(h, View)
    BY <2>1, <2>2 DEF Chain
  <2>6. ScanOf(h, step, p, i, seen)'
    BY <2>1, <2>4, <2>5, CountStays
  <2> QED BY <2>1, <2>3, <2>4, <2>6 DEF Scanning
<1> QED BY <1>3, <1>4, <1>5, <1>6, <1>7, <1>8, <1>9, BeginScanning, PageScanning DEF Next

LEMMA ScannedIsComplete == Scanning => ScanIsComplete
  BY DEF Scanning, ScanOf, Counted, ScanIsComplete, ScanSteps

\* A scan emits every row of its heap once, whatever its fetches evict.
THEOREM ScansAreComplete == TuplesFit /\ ~MayModify => (Spec => []ScanIsComplete)
<1> SUFFICES ASSUME TuplesFit, ~MayModify PROVE Spec => []ScanIsComplete
  OBVIOUS
<1>1. Init => Inserting /\ Scanning
  <2>1. Init => op.step = "idle"
    BY DEF Init, Idle
  <2> QED BY <2>1, InitInserting, NotScanning DEF ScanSteps
<1>2. Inserting /\ Scanning /\ [Next]_vars => Inserting' /\ Scanning'
  BY NextInserting, NextScanning
<1> QED BY <1>1, <1>2, ScannedIsComplete, PTL DEF Spec
=============================================================================
