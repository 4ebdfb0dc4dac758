-------------------------- MODULE BufferPoolProofs --------------------------
(***************************************************************************)
(* The buffer pool's invariants and the refinement of PageStore, for every *)
(* number of pages, pool size and set of contents, write errors and page   *)
(* deletion included.                                                      *)
(***************************************************************************)
EXTENDS BufferPool, SequenceTheorems, TLAPS

-----------------------------------------------------------------------------
(* Lists without repetitions.                                              *)

Elements(s) == {s[i] : i \in DOMAIN s}
NoRepeats(s) == \A i, j \in DOMAIN s : s[i] = s[j] => i = j

\* Pushing a new element to the front (lru_list_.push_front).
LEMMA PushFront ==
  ASSUME NEW S, NEW s \in Seq(S), NoRepeats(s), NEW p \in S, p \notin Elements(s)
  PROVE  /\ <<p>> \o s \in Seq(S)
         /\ NoRepeats(<<p>> \o s)
         /\ Elements(<<p>> \o s) = Elements(s) \cup {p}
<1> DEFINE t == <<p>> \o s
<1>1. t \in Seq(S) /\ Len(t) = Len(s) + 1
  OBVIOUS
<1>2. t[1] = p /\ \A i \in 2 .. Len(t) : t[i] = s[i - 1]
  OBVIOUS
<1>3. DOMAIN t = 1 .. Len(s) + 1 /\ DOMAIN s = 1 .. Len(s) /\ Len(s) \in Nat
  BY <1>1
<1> HIDE DEF t
<1>4. NoRepeats(t)
  <2> SUFFICES ASSUME NEW i \in DOMAIN t, NEW j \in DOMAIN t, t[i] = t[j]
               PROVE  i = j
    BY DEF NoRepeats
  <2>1. CASE i = 1 \/ j = 1
    BY <2>1, <1>1, <1>2, <1>3 DEF Elements
  <2>2. CASE i # 1 /\ j # 1
    <3>1. i - 1 \in DOMAIN s /\ j - 1 \in DOMAIN s
      BY <2>2, <1>3
    <3>2. s[i - 1] = s[j - 1]
      BY <2>2, <1>1, <1>2, <1>3
    <3> QED BY <3>1, <3>2, <1>3 DEF NoRepeats
  <2> QED BY <2>1, <2>2
<1>5. Elements(t) = Elements(s) \cup {p}
  <2>1. ASSUME NEW i \in DOMAIN t PROVE t[i] \in Elements(s) \cup {p}
    <3>1. CASE i = 1
      BY <3>1, <1>2
    <3>2. CASE i # 1
      <4>1. i - 1 \in DOMAIN s /\ t[i] = s[i - 1]
        BY <3>2, <1>1, <1>2, <1>3
      <4> QED BY <4>1 DEF Elements
    <3> QED BY <3>1, <3>2
  <2>2. p \in Elements(t)
    BY <1>2, <1>3 DEF Elements
  <2>3. ASSUME NEW i \in DOMAIN s PROVE s[i] \in Elements(t)
    <3>1. i + 1 \in DOMAIN t /\ t[i + 1] = s[i]
      BY <1>1, <1>2, <1>3
    <3> QED BY <3>1 DEF Elements
  <2> QED BY <2>1, <2>2, <2>3 DEF Elements
<1> QED BY <1>1, <1>4, <1>5 DEF t

\* Two sequences one behind the other: j is a and then b.
Joined(a, b, j) ==
  /\ Len(j) = Len(a) + Len(b)
  /\ \A i \in 1 .. Len(a) : j[i] = a[i]
  /\ \A i \in 1 .. Len(b) : j[Len(a) + i] = b[i]

LEMMA ConcatJoins ==
  ASSUME NEW S, NEW a \in Seq(S), NEW b \in Seq(S)
  PROVE  a \o b \in Seq(S) /\ Joined(a, b, a \o b)
<1>1. a \o b \in Seq(S) /\ Len(a \o b) = Len(a) + Len(b)
  OBVIOUS
<1>2. \A i \in 1 .. Len(a) : (a \o b)[i] = a[i]
  OBVIOUS
<1>3. \A i \in 1 .. Len(b) : (a \o b)[Len(a) + i] = b[i]
  OBVIOUS
<1> QED BY <1>1, <1>2, <1>3 DEF Joined

\* Taking the element at index k out (lru_list_.remove).
LEMMA TakeOut ==
  ASSUME NEW S, NEW s \in Seq(S), NoRepeats(s), NEW k \in DOMAIN s
  PROVE  LET t == SubSeq(s, 1, k - 1) \o SubSeq(s, k + 1, Len(s))
         IN  /\ t \in Seq(S) /\ NoRepeats(t) /\ Elements(t) = Elements(s) \ {s[k]}
             /\ Len(t) = Len(s) - 1
<1> DEFINE front == SubSeq(s, 1, k - 1)
           back == SubSeq(s, k + 1, Len(s))
           t == front \o back
<1>1. k \in 1 .. Len(s) /\ Len(s) \in Nat /\ DOMAIN s = 1 .. Len(s)
  OBVIOUS
<1>2. /\ front \in Seq(S) /\ Len(front) = k - 1
      /\ \A i \in 1 .. k - 1 : front[i] = s[i]
  BY <1>1
<1>3. /\ back \in Seq(S) /\ Len(back) = Len(s) - k
      /\ \A i \in 1 .. Len(s) - k : back[i] = s[k + i]
  BY <1>1
<1> HIDE DEF front, back
<1>4. t \in Seq(S) /\ Len(t) = Len(s) - 1 /\ DOMAIN t = 1 .. Len(s) - 1
  <2>1. t \in Seq(S) /\ Len(t) = Len(front) + Len(back)
    <3>1. front \in Seq(S) /\ back \in Seq(S)
      BY <1>2, <1>3
    <3> QED BY <3>1, ConcatProperties, Zenon
  <2>2. DOMAIN t = 1 .. Len(t)
    BY <2>1
  <2>3. Len(t) = Len(s) - 1
    BY <2>1, <1>1, <1>2, <1>3
  <2> HIDE DEF t
  <2> QED BY <2>1, <2>2, <2>3
<1>5. \A i \in DOMAIN t : t[i] = IF i < k THEN s[i] ELSE s[i + 1]
  <2> SUFFICES ASSUME NEW i \in DOMAIN t
               PROVE  t[i] = IF i < k THEN s[i] ELSE s[i + 1]
    OBVIOUS
  <2>1. CASE i < k
    <3>1. i \in 1 .. Len(front)
      <4> HIDE DEF t
      <4> QED BY <2>1, <1>1, <1>2, <1>4
    <3> QED BY <2>1, <3>1, <1>2, <1>3
  <2>2. CASE ~(i < k)
    <3>1. i - Len(front) \in 1 .. Len(back) /\ k + (i - Len(front)) = i + 1
      <4> HIDE DEF t
      <4> QED BY <2>2, <1>1, <1>2, <1>3, <1>4
    <3>2. t[i] = back[i - Len(front)]
      <4>1. PICK m, j : m = Len(front) /\ j = i - Len(front)
        OBVIOUS
      <4>2. m \in Nat /\ j \in 1 .. Len(back) /\ i = m + j
        <5> HIDE DEF t
        <5> QED BY <1>1, <1>2, <1>4, <3>1, <4>1
      <4>3. Joined(front, back, t)
        BY <1>2, <1>3, ConcatJoins
      <4>4. t[m + j] = back[j]
        <5> HIDE DEF t
        <5> QED BY <4>1, <4>2, <4>3 DEF Joined
      <4> QED BY <4>1, <4>2, <4>4
    <3> QED BY <2>2, <3>1, <3>2, <1>2, <1>3
  <2> QED BY <2>1, <2>2
<1> HIDE DEF t
<1>6. NoRepeats(t)
  <2> SUFFICES ASSUME NEW i \in DOMAIN t, NEW j \in DOMAIN t, t[i] = t[j]
               PROVE  i = j
    BY DEF NoRepeats
  <2> DEFINE at(n) == IF n < k THEN n ELSE n + 1
  <2>1. at(i) \in DOMAIN s /\ at(j) \in DOMAIN s
    BY <1>1, <1>4
  <2>2. s[at(i)] = s[at(j)]
    BY <1>5
  <2>3. at(i) = at(j)
    BY <2>1, <2>2 DEF NoRepeats
  <2> QED BY <2>3, <1>1, <1>4
<1>7. Elements(t) = Elements(s) \ {s[k]}
  <2>1. ASSUME NEW i \in DOMAIN t PROVE t[i] \in Elements(s) \ {s[k]}
    <3> DEFINE n == IF i < k THEN i ELSE i + 1
    <3>1. n \in DOMAIN s /\ n # k /\ t[i] = s[n]
      BY <1>1, <1>4, <1>5
    <3> QED BY <3>1, <1>1 DEF Elements, NoRepeats
  <2>2. ASSUME NEW i \in DOMAIN s, s[i] # s[k] PROVE s[i] \in Elements(t)
    <3> DEFINE n == IF i < k THEN i ELSE i - 1
    <3>1. n \in DOMAIN t /\ t[n] = s[i]
      BY <2>2, <1>1, <1>4, <1>5
    <3> QED BY <3>1 DEF Elements
  <2> QED BY <2>1, <2>2 DEF Elements
<1> QED BY <1>4, <1>6, <1>7 DEF t, front, back

\* Popping the last element (lru_list_.pop_back).
LEMMA PopBack ==
  ASSUME NEW S, NEW s \in Seq(S), NoRepeats(s), Len(s) > 0
  PROVE  LET t == SubSeq(s, 1, Len(s) - 1)
         IN  /\ t \in Seq(S) /\ NoRepeats(t)
             /\ Elements(t) = Elements(s) \ {s[Len(s)]}
<1> DEFINE t == SubSeq(s, 1, Len(s) - 1)
<1>1. Len(s) \in Nat \ {0} /\ DOMAIN s = 1 .. Len(s)
  OBVIOUS
<1>2. t \in Seq(S) /\ DOMAIN t = 1 .. Len(s) - 1
  BY <1>1
<1>3. \A i \in DOMAIN t : t[i] = s[i]
  BY <1>1, <1>2
<1> HIDE DEF t
<1>4. NoRepeats(t)
  BY <1>1, <1>2, <1>3 DEF NoRepeats
<1>5. Elements(t) = Elements(s) \ {s[Len(s)]}
  <2>1. ASSUME NEW i \in DOMAIN t PROVE t[i] \in Elements(s) \ {s[Len(s)]}
    BY <1>1, <1>2, <1>3 DEF Elements, NoRepeats
  <2>2. ASSUME NEW i \in DOMAIN s, s[i] # s[Len(s)] PROVE s[i] \in Elements(t)
    <3>1. i \in DOMAIN t /\ t[i] = s[i]
      BY <2>2, <1>1, <1>2, <1>3
    <3> QED BY <3>1 DEF Elements
  <2> QED BY <2>1, <2>2 DEF Elements
<1> QED BY <1>2, <1>4, <1>5 DEF t

-----------------------------------------------------------------------------
(* The list and the page table.                                            *)

Resident == {p \in PageId : Cached(p)}

\* LruIsPages in the words of the lemmas above.
LEMMA LruIsPagesIff == LruIsPages <=> NoRepeats(lru_list) /\ Elements(lru_list) = Resident
  BY DEF LruIsPages, NoRepeats, Elements, Resident

LEMMA LruIsPagesIffPrime ==
  LruIsPages' <=> NoRepeats(lru_list') /\ Elements(lru_list') = {p \in PageId : Cached(p)'}
  BY DEF LruIsPages, NoRepeats, Elements

LEMMA IndexOfResident ==
  ASSUME IInv, NEW p \in PageId, Cached(p)
  PROVE  IndexOf(p) \in DOMAIN lru_list /\ lru_list[IndexOf(p)] = p
<1>1. p \in Elements(lru_list)
  BY LruIsPagesIff DEF IInv, Resident
<1>2. \E i \in DOMAIN lru_list : lru_list[i] = p
  BY <1>1 DEF Elements
<1> QED BY <1>2 DEF IndexOf

LEMMA RemovedFacts ==
  ASSUME IInv, NEW p \in PageId, Cached(p)
  PROVE  /\ Removed(p) \in Seq(PageId)
         /\ NoRepeats(Removed(p))
         /\ Elements(Removed(p)) = Resident \ {p}
         /\ Len(Removed(p)) = Len(lru_list) - 1
<1>1. lru_list \in Seq(PageId) /\ NoRepeats(lru_list) /\ Elements(lru_list) = Resident
  BY LruIsPagesIff DEF IInv, TypeOK
<1>2. PICK k, s : k = IndexOf(p) /\ s = lru_list
  OBVIOUS
<1>3. k \in DOMAIN s /\ s[k] = p
  BY <1>2, IndexOfResident
<1>4. LET t == SubSeq(s, 1, k - 1) \o SubSeq(s, k + 1, Len(s))
      IN  /\ t \in Seq(PageId) /\ NoRepeats(t) /\ Elements(t) = Elements(s) \ {s[k]}
          /\ Len(t) = Len(s) - 1
  BY <1>1, <1>2, <1>3, TakeOut
<1>5. Removed(p) = SubSeq(s, 1, k - 1) \o SubSeq(s, k + 1, Len(s))
  BY <1>2 DEF Removed
<1> QED BY <1>1, <1>2, <1>3, <1>4, <1>5

\* What leaves the pool when FetchPage or NewPage(id) makes room, and what is
\* written: the back of the list, and only if it is dirty.
LEMMA EvictionFacts ==
  ASSUME IInv
  PROVE  /\ Victim \in Resident \cup {INVALID_PAGE_ID}
         /\ WrittenBack \in {Victim, INVALID_PAGE_ID}
         /\ WrittenBack \in PageId => WrittenBack = Victim /\ Dirty(Victim)
         /\ Victim \in PageId /\ WrittenBack # Victim => ~Dirty(Victim)
         /\ ListWithoutVictim \in Seq(PageId)
         /\ NoRepeats(ListWithoutVictim)
         /\ Elements(ListWithoutVictim) = Resident \ {Victim}
<1>1. lru_list \in Seq(PageId) /\ NoRepeats(lru_list) /\ Elements(lru_list) = Resident
  BY LruIsPagesIff DEF IInv, TypeOK
<1>2. INVALID_PAGE_ID \notin PageId
  BY DiskAssumption DEF INVALID_PAGE_ID, PageId
<1>3. Resident \subseteq PageId
  BY DEF Resident
<1>4. CASE Full
  <2>1. Len(lru_list) > 0 /\ Len(lru_list) \in DOMAIN lru_list
    BY <1>1, <1>4, BufferPoolAssumption DEF Full
  <2>2. Victim \in Resident
    BY <1>1, <1>4, <2>1 DEF Victim, Elements
  <2>3. /\ ListWithoutVictim \in Seq(PageId)
        /\ NoRepeats(ListWithoutVictim)
        /\ Elements(ListWithoutVictim) = Resident \ {Victim}
    BY <1>1, <1>4, <2>1, PopBack DEF ListWithoutVictim, Victim
  <2> QED BY <1>2, <1>3, <1>4, <2>2, <2>3 DEF WrittenBack
<1>5. CASE ~Full
  BY <1>1, <1>2, <1>3, <1>5 DEF WrittenBack, Victim, ListWithoutVictim
<1> QED BY <1>4, <1>5

\* The disk after the eviction: the victim's image is there, the file covers
\* it and still ends before the first id that was never allocated.
LEMMA DiskFacts ==
  ASSUME IInv
  PROVE  /\ DiskAfterEviction \in [PageId -> Frame]
         /\ \A q \in PageId : DiskAfterEviction[q] =
                                IF q = WrittenBack THEN pages[q] ELSE disk[q]
         /\ FilePagesAfter(WrittenBack) \in file_pages .. LastPage + 1
         /\ WrittenBack < FilePagesAfter(WrittenBack)
         /\ \A q \in PageId :
              q >= next_page_id /\ q >= file_pages /\ q # WrittenBack
                => q >= FilePagesAfter(WrittenBack)
         /\ WrittenBack \in PageId => WrittenBack < next_page_id
<1>1. /\ WrittenBack \in PageId \cup {INVALID_PAGE_ID}
      /\ WrittenBack \in PageId => Cached(WrittenBack)
      /\ INVALID_PAGE_ID \notin PageId
  BY EvictionFacts, DiskAssumption DEF Resident, INVALID_PAGE_ID, PageId
<1>2. WrittenBack \in PageId => WrittenBack < next_page_id
  BY <1>1 DEF IInv, TypeOK, NewIdsAreUnused, PageId
<1>3. FilePagesAfter(WrittenBack) \in file_pages .. LastPage + 1 /\ WrittenBack < FilePagesAfter(WrittenBack)
  BY <1>1, DiskAssumption DEF IInv, TypeOK, FilePagesAfter, Larger, PageId, INVALID_PAGE_ID
<1>4. \A q \in PageId : q >= next_page_id /\ q >= file_pages /\ q # WrittenBack
        => q >= FilePagesAfter(WrittenBack)
  BY <1>1, <1>2, DiskAssumption DEF IInv, TypeOK, FilePagesAfter, Larger, PageId, INVALID_PAGE_ID
<1>5. \A q \in PageId : DiskAfterEviction[q] = IF q = WrittenBack THEN pages[q] ELSE disk[q]
  BY <1>1 DEF DiskAfterEviction, DiskAfter
<1>6. DiskAfterEviction \in [PageId -> Frame]
  <2>1. CASE WrittenBack = INVALID_PAGE_ID
    BY <2>1 DEF DiskAfterEviction, IInv, TypeOK
  <2>2. CASE WrittenBack # INVALID_PAGE_ID
    <3>1. pages[WrittenBack] \in Frame
      BY <1>1, <2>2 DEF IInv, TypeOK, Cached
    <3> QED BY <2>2, <3>1 DEF DiskAfterEviction, DiskAfter, IInv, TypeOK
  <2> QED BY <2>1, <2>2
<1> QED BY <1>2, <1>3, <1>4, <1>5, <1>6

-----------------------------------------------------------------------------
(* Init and the actions that leave the list alone.                         *)

LEMMA FrameFacts ==
  /\ ZeroPage \in Frame
  /\ NoFrame \notin Frame
  /\ \A d \in Contents, b \in BOOLEAN : [data |-> d, dirty |-> b] \in Frame
  /\ \A f \in Frame : [f EXCEPT !.dirty = FALSE] \in Frame
  /\ \A f \in Frame : [f EXCEPT !.dirty = FALSE].data = f.data
  /\ \A f \in Frame : [f EXCEPT !.dirty = FALSE].dirty = FALSE
  BY ImageAssumption DEF Frame, Contents

LEMMA InitIInv == Init => IInv
<1> SUFFICES ASSUME Init PROVE IInv
  OBVIOUS
<1> USE DEF Init, DiskInit
<1>1. TypeOK
  BY FrameFacts, DiskAssumption DEF TypeOK, PageId
<1>2. \A p \in PageId : ~Cached(p)
  BY DEF Cached
<1>3. LruIsPages
  BY <1>2 DEF LruIsPages
<1>4. CleanMatchesDisk /\ NewIdsAreUnused /\ Strengthening
  BY <1>2, DiskAssumption DEF CleanMatchesDisk, NewIdsAreUnused, Strengthening, PageId
<1> QED BY <1>1, <1>3, <1>4 DEF IInv

\* Actions that change neither the list nor which pages are resident keep
\* LruIsPages.
LEMMA SameResidents ==
  ASSUME LruIsPages, lru_list' = lru_list, \A p \in PageId : Cached(p)' <=> Cached(p)
  PROVE  LruIsPages'
<1>1. {p \in PageId : Cached(p)'} = {p \in PageId : Cached(p)}
  OBVIOUS
<1> QED BY <1>1 DEF LruIsPages

LEMMA WriteStep ==
  ASSUME IInv, NEW p \in PageId, NEW d \in Data, Write(p, d)
  PROVE  IInv'
<1> USE DEF IInv, Write
<1>1. [data |-> d, dirty |-> TRUE] \in Frame
  BY FrameFacts DEF Contents
<1>2. TypeOK'
  BY <1>1 DEF TypeOK
<1>3. /\ pages'[p] = [data |-> d, dirty |-> TRUE]
      /\ \A q \in PageId \ {p} : pages'[q] = pages[q]
  BY DEF TypeOK
<1>4. \A q \in PageId : Cached(q)' <=> Cached(q)
  BY <1>1, <1>3, FrameFacts DEF Cached
<1>5. LruIsPages'
  BY <1>4, SameResidents
<1>6. CleanMatchesDisk'
  <2> SUFFICES ASSUME NEW q \in PageId, Cached(q)', ~Dirty(q)'
               PROVE  disk'[q].data = pages'[q].data
    BY DEF CleanMatchesDisk
  <2>1. q # p
    BY <1>1, <1>3, <1>4 DEF Dirty
  <2>2. q \notin unwritten /\ Cached(q) /\ ~Dirty(q)
    BY <2>1, <1>3, <1>4 DEF Dirty
  <2> QED BY <2>1, <2>2, <1>3 DEF CleanMatchesDisk
<1>7. NewIdsAreUnused'
  BY <1>4 DEF NewIdsAreUnused
<1>8. Strengthening'
  BY <1>4 DEF Strengthening
<1> QED BY <1>2, <1>5, <1>6, <1>7, <1>8

\* FlushPage and each step of FlushAllPages.
LEMMA FlushStep ==
  ASSUME IInv, NEW p \in PageId, FlushPage(p) \/ FlushOne(p)
  PROVE  IInv'
<1> USE DEF IInv
<1>1. /\ Dirty(p) /\ Cached(p) /\ pages[p] \in Frame
      /\ mode \in {"open", "closing"} /\ unwritten = {}
      /\ disk' = DiskAfter(p, pages[p])
      /\ file_pages' = FilePagesAfter(p)
      /\ failbit' = FALSE
      /\ pages' = [pages EXCEPT ![p].dirty = FALSE]
      /\ UNCHANGED <<next_page_id, lru_list, unwritten, mode>>
  BY DEF FlushPage, FlushOne, WritePage, Dirty, Cached, TypeOK, Strengthening
<1>2. /\ pages'[p] = [pages[p] EXCEPT !.dirty = FALSE]
      /\ \A q \in PageId \ {p} : pages'[q] = pages[q]
  BY <1>1 DEF TypeOK
<1>3. \A q \in PageId : disk'[q] = IF q = p THEN pages[p] ELSE disk[q]
  BY <1>1 DEF DiskAfter
<1>4. p < next_page_id
  BY <1>1 DEF NewIdsAreUnused, TypeOK, PageId
<1>5. /\ file_pages' \in file_pages .. LastPage + 1
      /\ \A q \in PageId : q >= file_pages' => q >= file_pages /\ q # p
      /\ \A q \in PageId : q >= next_page_id /\ q >= file_pages => q >= file_pages'
  BY <1>1, <1>4, DiskAssumption DEF TypeOK, FilePagesAfter, Larger, PageId
<1>6. \A q \in PageId : Cached(q)' <=> Cached(q)
  BY <1>1, <1>2, FrameFacts DEF Cached
<1>7. TypeOK'
  <2>1. disk' \in [PageId -> Frame]
    BY <1>1 DEF DiskAfter, TypeOK
  <2>2. pages' \in [PageId -> Frame \cup {NoFrame}]
    BY <1>1, <1>2, FrameFacts DEF TypeOK
  <2>3. file_pages' \in 0 .. LastPage + 1
    BY <1>5, DiskAssumption DEF TypeOK
  <2> QED BY <2>1, <2>2, <2>3, <1>1 DEF TypeOK
<1>8. LruIsPages'
  BY <1>1, <1>6, SameResidents
<1>9. CleanMatchesDisk'
  <2> SUFFICES ASSUME NEW q \in PageId, Cached(q)', ~Dirty(q)'
               PROVE  disk'[q].data = pages'[q].data
    BY DEF CleanMatchesDisk
  <2>1. CASE q = p
    BY <2>1, <1>1, <1>2, <1>3, FrameFacts
  <2>2. CASE q # p
    BY <2>2, <1>1, <1>2, <1>3, <1>6 DEF CleanMatchesDisk, Dirty
  <2> QED BY <2>1, <2>2
<1>10. NewIdsAreUnused'
  BY <1>1, <1>3, <1>4, <1>5, <1>6 DEF NewIdsAreUnused, TypeOK, PageId
<1>11. Strengthening'
  BY <1>1, <1>3, <1>5, <1>6, DiskAssumption DEF Strengthening, TypeOK, PageId
<1> QED BY <1>7, <1>8, <1>9, <1>10, <1>11

\* Steps that change only the stream, the frontier or the mode.
LEMMA QuietStep ==
  ASSUME IInv, FlushFails \/ NewPageFails \/ BeginClose \/ FlushAllFails \/ Open
  PROVE  IInv'
<1> USE DEF IInv
<1>1. /\ UNCHANGED <<disk, file_pages, pages, lru_list, unwritten>>
      /\ mode' \in {"open", "closing"}
      /\ mode' # "open" => unwritten = {}
      /\ failbit' \in BOOLEAN
      /\ next_page_id' \in FIRST_USABLE_PAGE_ID .. LastPage + 1
      /\ \A p \in PageId : p >= next_page_id' =>
           /\ p >= next_page_id \/ ~Cached(p)
           /\ p >= file_pages
  <2>1. CASE FlushFails \/ FlushAllFails \/ BeginClose
    BY <2>1, DiskAssumption
       DEF FlushFails, FlushAllFails, BeginClose, WriteError, TypeOK, NewIdsAreUnused, Strengthening, PageId
  <2>2. CASE NewPageFails
    BY <2>2, DiskAssumption DEF NewPageFails, WriteError, TypeOK, NewIdsAreUnused, Strengthening, PageId
  <2>3. CASE Open
    BY <2>3, DiskAssumption DEF Open, OpenFile, Larger, TypeOK, Strengthening, PageId
  <2> QED BY <2>1, <2>2, <2>3
<1>2. \A q \in PageId : (Cached(q)' <=> Cached(q)) /\ (Dirty(q)' <=> Dirty(q))
  BY <1>1 DEF Cached, Dirty
<1>3. TypeOK'
  BY <1>1 DEF TypeOK
<1>4. LruIsPages'
  BY <1>1, <1>2, SameResidents
<1>5. CleanMatchesDisk'
  BY <1>1, <1>2 DEF CleanMatchesDisk
<1>6. NewIdsAreUnused'
  BY <1>1, <1>2 DEF NewIdsAreUnused, Strengthening
<1>7. Strengthening'
  BY <1>1, <1>2 DEF Strengthening, TypeOK
<1> QED BY <1>3, <1>4, <1>5, <1>6, <1>7

\* An orderly close and a crash leave an empty pool.
LEMMA EmptyPoolStep ==
  ASSUME IInv, EndClose \/ Crash
  PROVE  IInv'
<1> USE DEF IInv
<1>1. /\ UNCHANGED <<disk, file_pages, next_page_id, failbit>>
      /\ pages' = [p \in PageId |-> NoFrame]
      /\ lru_list' = <<>>
      /\ unwritten' = {}
      /\ mode' \in {"closed", "crashed"}
  BY DEF EndClose, Crash, EmptyPool
<1>2. \A p \in PageId : ~Cached(p)'
  BY <1>1 DEF Cached
<1>3. TypeOK'
  BY <1>1 DEF TypeOK
<1>4. LruIsPages'
  BY <1>1, <1>2 DEF LruIsPages
<1>5. CleanMatchesDisk' /\ NewIdsAreUnused' /\ Strengthening'
  BY <1>1, <1>2 DEF CleanMatchesDisk, NewIdsAreUnused, Strengthening
<1> QED BY <1>3, <1>4, <1>5

-----------------------------------------------------------------------------
(* The actions that move pages in and out of the pool.                     *)

\* A list action keeps LruIsPages when it updates the list and the page table
\* to the same pages.
LEMMA ListStep ==
  ASSUME NEW R, R \subseteq PageId,
         NoRepeats(lru_list'), Elements(lru_list') = R,
         \A p \in PageId : Cached(p)' <=> p \in R
  PROVE  LruIsPages'
<1>1. {p \in PageId : Cached(p)'} = R
  OBVIOUS
<1> QED BY <1>1, LruIsPagesIffPrime

LEMMA FetchHitStep ==
  ASSUME IInv, NEW p \in PageId, FetchHit(p)
  PROVE  IInv'
<1> USE DEF IInv, FetchHit
<1>1. /\ Removed(p) \in Seq(PageId)
      /\ NoRepeats(Removed(p))
      /\ Elements(Removed(p)) = Resident \ {p}
  BY RemovedFacts
<1>2. /\ lru_list' \in Seq(PageId)
      /\ NoRepeats(lru_list')
      /\ Elements(lru_list') = (Resident \ {p}) \cup {p}
  BY <1>1, PushFront
<1>3. \A q \in PageId : Cached(q)' <=> q \in (Resident \ {p}) \cup {p}
  BY DEF Cached, Resident
<1>4. TypeOK'
  BY <1>2 DEF TypeOK
<1>5. LruIsPages'
  BY <1>2, <1>3, ListStep DEF Resident
<1>6. CleanMatchesDisk' /\ NewIdsAreUnused' /\ Strengthening'
  BY DEF CleanMatchesDisk, NewIdsAreUnused, Strengthening, Cached, Dirty
<1> QED BY <1>4, <1>5, <1>6

LEMMA DropStep ==
  ASSUME IInv, EvictionFails \/ \E p \in PageId : DeletePage(p)
  PROVE  IInv'
<1> USE DEF IInv
<1>1. PICK v \in PageId :
        /\ mode = "open" /\ unwritten = {}
        /\ pages' = [pages EXCEPT ![v] = NoFrame]
        /\ lru_list' \in Seq(PageId)
        /\ NoRepeats(lru_list')
        /\ Elements(lru_list') = Resident \ {v}
        /\ failbit' \in BOOLEAN
        /\ UNCHANGED <<disk, file_pages, next_page_id, unwritten, mode>>
  <2>1. CASE EvictionFails
    <3>1. Victim \in PageId
      BY <2>1, EvictionFacts DEF EvictionFails, Resident
    <3> QED BY <2>1, <3>1, EvictionFacts DEF EvictionFails, WriteError
  <2>2. CASE \E p \in PageId : DeletePage(p)
    BY <2>2, RemovedFacts DEF DeletePage, TypeOK
  <2> QED BY <2>1, <2>2
<1>2. pages'[v] = NoFrame /\ \A q \in PageId \ {v} : pages'[q] = pages[q]
  BY <1>1 DEF TypeOK
<1>3. \A q \in PageId : Cached(q)' <=> q \in Resident \ {v}
  BY <1>2 DEF Cached, Resident
<1>4. TypeOK'
  BY <1>1 DEF TypeOK
<1>5. LruIsPages'
  BY <1>1, <1>3, ListStep DEF Resident
<1>6. CleanMatchesDisk' /\ NewIdsAreUnused' /\ Strengthening'
  BY <1>1, <1>2, <1>3 DEF CleanMatchesDisk, NewIdsAreUnused, Strengthening, Cached, Dirty, Resident
<1> QED BY <1>4, <1>5, <1>6

LEMMA NewPageStep ==
  ASSUME IInv, NEW p \in PageId, NewPage(p)
  PROVE  IInv'
<1> USE DEF IInv
<1> DEFINE img == [data |-> Fresh, dirty |-> FALSE]
<1>1. /\ mode = "open" /\ unwritten = {} /\ p = next_page_id
      /\ next_page_id' = next_page_id + 1
      /\ disk' = DiskAfter(p, img)
      /\ file_pages' = FilePagesAfter(p)
      /\ failbit' = FALSE
      /\ pages' = [pages EXCEPT ![p] = img]
      /\ lru_list' = <<p>> \o lru_list
      /\ UNCHANGED <<unwritten, mode>>
  BY DEF NewPage
<1>2. img \in Frame /\ img # NoFrame /\ img.dirty = FALSE
  BY FrameFacts DEF Contents
<1> HIDE DEF img
<1>3. pages'[p] = img /\ \A q \in PageId \ {p} : pages'[q] = pages[q]
  BY <1>1 DEF TypeOK
<1>4. \A q \in PageId : disk'[q] = IF q = p THEN img ELSE disk[q]
  BY <1>1 DEF DiskAfter
<1>5. ~Cached(p) /\ p >= file_pages
  BY <1>1, DiskAssumption DEF NewIdsAreUnused, TypeOK, PageId
<1>6. /\ lru_list' \in Seq(PageId)
      /\ NoRepeats(lru_list')
      /\ Elements(lru_list') = Resident \cup {p}
  BY <1>1, <1>5, PushFront, LruIsPagesIff DEF TypeOK, Resident
<1>7. \A q \in PageId : Cached(q)' <=> q \in Resident \cup {p}
  BY <1>2, <1>3 DEF Cached, Resident
<1>8. file_pages' = p + 1 /\ p \in 0 .. LastPage
  BY <1>1, <1>5, DiskAssumption DEF FilePagesAfter, Larger, TypeOK, PageId
<1>9. TypeOK'
  <2>1. disk' \in [PageId -> Frame]
    BY <1>1, <1>2 DEF DiskAfter, TypeOK
  <2>2. pages' \in [PageId -> Frame \cup {NoFrame}]
    BY <1>1, <1>2 DEF TypeOK
  <2>3. /\ file_pages' \in 0 .. LastPage + 1
        /\ next_page_id' \in FIRST_USABLE_PAGE_ID .. LastPage + 1
    BY <1>1, <1>8, DiskAssumption DEF TypeOK
  <2> QED BY <2>1, <2>2, <2>3, <1>1, <1>6 DEF TypeOK
<1>10. LruIsPages'
  BY <1>6, <1>7, ListStep DEF Resident
<1>11. CleanMatchesDisk'
  BY <1>1, <1>3, <1>4, <1>7 DEF CleanMatchesDisk, Cached, Dirty, Resident
<1>12. NewIdsAreUnused'
  BY <1>1, <1>4, <1>5, <1>7, <1>8 DEF NewIdsAreUnused, TypeOK, PageId, Resident
<1>13. Strengthening'
  BY <1>1, <1>4, <1>5, <1>7, <1>8 DEF Strengthening, TypeOK, PageId, Resident
<1> QED BY <1>9, <1>10, <1>11, <1>12, <1>13

\* What FetchMiss and NewPageAt have in common: the victim leaves, written
\* back if dirty, and one page p may enter.
LEMMA ReplaceStep ==
  ASSUME IInv, NEW p \in PageId, ~Cached(p), mode = "open", unwritten = {},
         NEW img \in Frame, NEW enters \in BOOLEAN,
         disk' = DiskAfterEviction,
         file_pages' = FilePagesAfter(WrittenBack),
         failbit' \in BOOLEAN,
         pages' = [q \in PageId |-> IF q = p /\ enters THEN img
                                    ELSE IF q = Victim THEN NoFrame ELSE pages[q]],
         lru_list' = IF enters THEN <<p>> \o ListWithoutVictim ELSE ListWithoutVictim,
         enters => p < next_page_id,
         unwritten' = {} \/ (unwritten' = {p} /\ enters),
         unwritten' = {} /\ enters /\ ~img.dirty => img.data = disk'[p].data,
         UNCHANGED <<next_page_id, mode>>
  PROVE  IInv'
<1> USE DEF IInv
<1> DEFINE R == IF enters THEN (Resident \ {Victim}) \cup {p} ELSE Resident \ {Victim}
<1>1. p \notin Resident /\ p # Victim
  BY EvictionFacts, DiskAssumption DEF Resident, PageId, INVALID_PAGE_ID
<1>2. /\ lru_list' \in Seq(PageId)
      /\ NoRepeats(lru_list')
      /\ Elements(lru_list') = R
  <2>1. CASE enters
    BY <2>1, <1>1, EvictionFacts, PushFront
  <2>2. CASE ~enters
    BY <2>2, EvictionFacts
  <2> QED BY <2>1, <2>2
<1>3. /\ enters => pages'[p] = img
      /\ ~enters => pages'[p] = pages[p]
      /\ Victim \in PageId => pages'[Victim] = NoFrame
      /\ \A q \in PageId \ {p, Victim} : pages'[q] = pages[q]
  BY <1>1
<1>4. \A q \in PageId : Cached(q)' <=> q \in R
  <2> SUFFICES ASSUME NEW q \in PageId PROVE pages'[q] # NoFrame <=> q \in R
    BY DEF Cached
  <2>1. CASE q = p
    BY <2>1, <1>1, <1>3, FrameFacts DEF Cached, Resident
  <2>2. CASE q = Victim
    BY <2>2, <1>1, <1>3
  <2>3. CASE q # p /\ q # Victim
    BY <2>3, <1>3 DEF Cached, Resident
  <2> QED BY <2>1, <2>2, <2>3
<1>5. TypeOK'
  <2>1. pages' \in [PageId -> Frame \cup {NoFrame}]
    BY DEF TypeOK
  <2>2. file_pages' \in 0 .. LastPage + 1
    BY DiskFacts, DiskAssumption DEF TypeOK
  <2> QED BY <2>1, <2>2, <1>2, DiskFacts DEF TypeOK
<1>6. LruIsPages'
  <2>1. R \subseteq PageId
    BY DEF Resident
  <2> HIDE DEF R
  <2> QED BY <2>1, <1>2, <1>4, ListStep
<1>7. CleanMatchesDisk'
  <2> SUFFICES ASSUME NEW q \in PageId \ unwritten', Cached(q)', ~Dirty(q)'
               PROVE  disk'[q].data = pages'[q].data
    BY DEF CleanMatchesDisk
  <2>1. CASE q = p
    <3>1. enters
      BY <2>1, <1>1, <1>4
    <3>2. ~img.dirty
      BY <2>1, <3>1, <1>3, FrameFacts DEF Dirty, Cached
    <3> QED BY <2>1, <3>1, <3>2, <1>3
  <2>2. CASE q # p
    <3>1. q # Victim /\ Cached(q)
      BY <2>2, <1>4 DEF Resident
    <3>2. pages'[q] = pages[q] /\ ~Dirty(q)
      BY <2>2, <3>1, <1>3 DEF Dirty, Cached
    <3>3. disk'[q] = disk[q]
      BY <3>1, DiskFacts, EvictionFacts DEF Resident
    <3> QED BY <3>1, <3>2, <3>3 DEF CleanMatchesDisk
  <2> QED BY <2>1, <2>2
<1>8. NewIdsAreUnused'
  <2> SUFFICES ASSUME NEW q \in PageId, q >= next_page_id
               PROVE  ~Cached(q)' /\ q >= file_pages' /\ disk'[q] = ZeroPage
    BY DEF NewIdsAreUnused
  <2>1. ~Cached(q) /\ q >= file_pages /\ disk[q] = ZeroPage
    BY DEF NewIdsAreUnused
  <2>2. q # WrittenBack
    BY <2>1, EvictionFacts DEF Resident, Dirty
  <2>3. ~Cached(q)'
    BY <2>1, <1>4, DiskAssumption DEF Resident, TypeOK, PageId
  <2> QED BY <2>1, <2>2, <2>3, DiskFacts
<1>9. Strengthening'
  <2>1. \A q \in PageId : q >= file_pages' => disk'[q] = ZeroPage
    <3> SUFFICES ASSUME NEW q \in PageId, q >= file_pages' PROVE disk'[q] = ZeroPage
      OBVIOUS
    <3>1. q # WrittenBack /\ q >= file_pages
      BY DiskFacts, DiskAssumption DEF TypeOK, PageId
    <3> QED BY <3>1, DiskFacts DEF Strengthening
  <2>2. \A q \in unwritten' : Cached(q)'
    BY <1>4
  <2> QED BY <2>1, <2>2 DEF Strengthening
<1> QED BY <1>5, <1>6, <1>7, <1>8, <1>9

LEMMA FetchMissStep ==
  ASSUME IInv, NEW p \in PageId, FetchMiss(p)
  PROVE  IInv'
<1> DEFINE enters == Readable(p, WrittenBack)
           img == DiskAfterEviction[p]
<1>1. img \in Frame /\ enters \in BOOLEAN
  BY DiskFacts DEF Readable
<1>2. failbit' \in BOOLEAN
  BY DEF FetchMiss, FailbitAfterRead, FailbitAfter, IInv, TypeOK
<1>3. enters => p < next_page_id
  BY DiskAssumption DEF Readable, InRange, IInv, TypeOK, PageId
<1>4. img.data = disk'[p].data
  BY DEF FetchMiss
<1> HIDE DEF img
<1>5. /\ ~Cached(p) /\ mode = "open" /\ unwritten = {}
      /\ disk' = DiskAfterEviction
      /\ file_pages' = FilePagesAfter(WrittenBack)
      /\ pages' = [q \in PageId |-> IF q = p /\ enters THEN img
                                    ELSE IF q = Victim THEN NoFrame ELSE pages[q]]
      /\ lru_list' = IF enters THEN <<p>> \o ListWithoutVictim ELSE ListWithoutVictim
      /\ UNCHANGED <<next_page_id, unwritten, mode>>
  BY DEF FetchMiss, img
<1> HIDE DEF enters
<1> QED BY <1>1, <1>2, <1>3, <1>4, <1>5, ReplaceStep

LEMMA NewPageAtStep ==
  ASSUME IInv, NEW p \in PageId, NewPageAt(p)
  PROVE  IInv'
<1> DEFINE img == [data |-> Fresh, dirty |-> FALSE]
<1>1. img \in Frame
  BY FrameFacts DEF Contents
<1>2. failbit' \in BOOLEAN
  BY DEF NewPageAt, FailbitAfter, IInv, TypeOK
<1>3. p < next_page_id
  BY DiskAssumption DEF NewPageAt, IInv, TypeOK, PageId
<1>4. /\ ~Cached(p) /\ mode = "open" /\ unwritten = {}
      /\ disk' = DiskAfterEviction
      /\ file_pages' = FilePagesAfter(WrittenBack)
      /\ pages' = [q \in PageId |-> IF q = p /\ TRUE THEN img
                                    ELSE IF q = Victim THEN NoFrame ELSE pages[q]]
      /\ lru_list' = IF TRUE THEN <<p>> \o ListWithoutVictim ELSE ListWithoutVictim
      /\ unwritten' = {p}
      /\ UNCHANGED <<next_page_id, mode>>
  BY DEF NewPageAt
<1>5. {p} # {}
  OBVIOUS
<1> HIDE DEF img
<1> QED BY <1>1, <1>2, <1>3, <1>4, <1>5, ReplaceStep

-----------------------------------------------------------------------------
(* The invariance theorems.                                                *)

\* IInv holds initially and every action preserves it.
THEOREM Invariance == Spec => []IInv
<1>1. IInv /\ [Next]_vars => IInv'
  <2> SUFFICES ASSUME IInv, [Next]_vars PROVE IInv'
    OBVIOUS
  <2>1. CASE UNCHANGED vars
    BY <2>1 DEF vars, IInv, TypeOK, LruIsPages, CleanMatchesDisk, NewIdsAreUnused,
                Strengthening, Cached, Dirty
  <2>2. CASE \E p \in PageId : FetchHit(p)
    BY <2>2, FetchHitStep
  <2>3. CASE \E p \in PageId : FetchMiss(p)
    BY <2>3, FetchMissStep
  <2>4. CASE \E p \in PageId, d \in Data : Write(p, d)
    BY <2>4, WriteStep
  <2>5. CASE \E p \in PageId : FlushPage(p) \/ FlushOne(p)
    BY <2>5, FlushStep
  <2>6. CASE \E p \in PageId : NewPage(p)
    BY <2>6, NewPageStep
  <2>7. CASE \E p \in PageId : NewPageAt(p)
    BY <2>7, NewPageAtStep
  <2>8. CASE EvictionFails \/ \E p \in PageId : DeletePage(p)
    BY <2>8, DropStep
  <2>9. CASE FlushFails \/ NewPageFails \/ BeginClose \/ FlushAllFails \/ Open
    BY <2>9, QuietStep
  <2>10. CASE EndClose \/ Crash
    BY <2>10, EmptyPoolStep
  <2> QED BY <2>1, <2>2, <2>3, <2>4, <2>5, <2>6, <2>7, <2>8, <2>9, <2>10 DEF Next
<1> QED BY InitIInv, <1>1, PTL DEF Spec

\* Every variable keeps its type.
THEOREM TypeCorrect == Spec => []TypeOK
<1>1. IInv => TypeOK
  BY DEF IInv
<1> QED BY Invariance, <1>1, PTL

\* lru_list_ and pages_ always hold the same pages, without repetition.
THEOREM ListMatchesTable == Spec => []LruIsPages
<1>1. IInv => LruIsPages
  BY DEF IInv
<1> QED BY Invariance, <1>1, PTL

\* Dropping a page that is not marked dirty never loses data.
THEOREM CleanPagesAreOnDisk == Spec => []CleanMatchesDisk
<1>1. IInv => CleanMatchesDisk
  BY DEF IInv
<1> QED BY Invariance, <1>1, PTL

\* AllocatePage never returns the id of an existing page, across restarts too.
THEOREM AllocationIsFresh == Spec => []NewIdsAreUnused
<1>1. IInv => NewIdsAreUnused
  BY DEF IInv
<1> QED BY Invariance, <1>1, PTL

-----------------------------------------------------------------------------
(* The pool's size.                                                        *)

\* A page is over the bound by this step.
Overfills == Len(lru_list') > PoolSize /\ Len(lru_list') > Len(lru_list)

\* After an eviction there is room for one page, unless NewPage() overfilled
\* the pool before.
LEMMA RoomAfterEviction ==
  ASSUME IInv, NEW p \in PageId,
         lru_list' \in {ListWithoutVictim, <<p>> \o ListWithoutVictim}
  PROVE  ~Overfills
<1>1. lru_list \in Seq(PageId) /\ Len(lru_list) \in Nat
  BY DEF IInv, TypeOK
<1>2. PoolSize \in Nat \ {0}
  BY BufferPoolAssumption
<1>3. ListWithoutVictim \in Seq(PageId)
  BY EvictionFacts
<1>4. Len(lru_list') \in {Len(ListWithoutVictim), Len(ListWithoutVictim) + 1}
  BY <1>3
<1>5. CASE Full
  <2>1. Len(ListWithoutVictim) = Len(lru_list) - 1
    BY <1>1, <1>2, <1>5 DEF Full, ListWithoutVictim
  <2> QED BY <1>1, <1>3, <1>4, <2>1 DEF Overfills
<1>6. CASE ~Full
  <2>1. ListWithoutVictim = lru_list /\ Len(lru_list) < PoolSize
    BY <1>1, <1>2, <1>6 DEF Full, ListWithoutVictim
  <2> QED BY <1>1, <1>2, <1>4, <2>1 DEF Overfills
<1> QED BY <1>5, <1>6

\* Only NewPage() takes the pool beyond MAX_BUFFER_POOL_SIZE.
THEOREM OverfillingIsAllocation == Spec => OnlyNewPageOverfills
<1>1. IInv /\ [Next]_vars => [Overfills => \E p \in PageId : NewPage(p)]_vars
  <2> SUFFICES ASSUME IInv, Next, ~(\E p \in PageId : NewPage(p))
               PROVE  ~Overfills
    OBVIOUS
  <2>1. lru_list \in Seq(PageId) /\ Len(lru_list) \in Nat /\ PageId # {}
    BY DiskAssumption DEF IInv, TypeOK, PageId
  <2>2. CASE \E p \in PageId : FetchHit(p)
    <3> PICK p \in PageId : FetchHit(p)
      BY <2>2
    <3>1. lru_list' = <<p>> \o Removed(p) /\ Cached(p)
      BY DEF FetchHit
    <3>2. Len(lru_list') = Len(lru_list)
      BY <2>1, <3>1, RemovedFacts
    <3> QED BY <2>1, <3>2 DEF Overfills
  <2>3. CASE \E p \in PageId : FetchMiss(p) \/ NewPageAt(p)
    <3> PICK p \in PageId : FetchMiss(p) \/ NewPageAt(p)
      BY <2>3
    <3>1. lru_list' \in {ListWithoutVictim, <<p>> \o ListWithoutVictim}
      BY DEF FetchMiss, NewPageAt
    <3> QED BY <3>1, RoomAfterEviction
  <2>4. CASE EvictionFails
    <3>1. lru_list' = ListWithoutVictim
      BY <2>4 DEF EvictionFails
    <3> QED BY <2>1, <3>1, RoomAfterEviction
  <2>5. CASE \E p \in PageId : DeletePage(p)
    <3> PICK p \in PageId : DeletePage(p)
      BY <2>5
    <3>1. lru_list' = Removed(p) /\ Cached(p)
      BY DEF DeletePage
    <3>2. Len(lru_list') = Len(lru_list) - 1
      BY <3>1, RemovedFacts
    <3> QED BY <2>1, <3>2 DEF Overfills
  <2>6. CASE EndClose \/ Crash
    <3>1. lru_list' = <<>>
      BY <2>6 DEF EndClose, Crash, EmptyPool
    <3> QED BY <2>1, <3>1, BufferPoolAssumption DEF Overfills
  <2>7. CASE lru_list' = lru_list
    BY <2>1, <2>7 DEF Overfills
  <2>8. \/ \E p \in PageId :
             \/ FetchHit(p) \/ FetchMiss(p) \/ NewPageAt(p) \/ DeletePage(p)
        \/ EvictionFails \/ EndClose \/ Crash
        \/ lru_list' = lru_list
    BY DEF Next, Write, FlushPage, FlushOne, FlushFails, NewPageFails, BeginClose,
           FlushAllFails, Open
  <2> QED BY <2>2, <2>3, <2>4, <2>5, <2>6, <2>7, <2>8
<1>2. [Overfills => \E p \in PageId : NewPage(p)]_vars
        => [Len(lru_list') > PoolSize /\ Len(lru_list') > Len(lru_list)
              => \E p \in PageId : NewPage(p)]_vars
  BY DEF Overfills
<1> QED BY <1>1, <1>2, Invariance, PTL DEF Spec, OnlyNewPageOverfills

-----------------------------------------------------------------------------
(* Refinement: every call is a step of the store without a cache.          *)

LEMMA ViewsOfPages ==
  ASSUME NEW p \in PageId
  PROVE  /\ StoreView[p] = IF Cached(p) THEN pages[p].data ELSE disk[p].data
         /\ StableView[p] = disk[p].data
  BY DEF StoreView, StableView

\* A step that leaves each page's contents as they were, and writes back the
\* pages of S, persists S.
LEMMA PersistView ==
  ASSUME StatusView = "up", StatusView' = "up",
         NEW S \in SUBSET PageId,
         \A p \in PageId : StoreView'[p] = StoreView[p],
         \A p \in PageId : StableView'[p] = IF p \in S THEN StoreView[p] ELSE StableView[p]
  PROVE  Store!Next
<1>1. StoreView' = StoreView
  BY DEF StoreView
<1>2. StableView' = Store!Persisted(S)
  BY DEF StableView, Store!Persisted
<1>3. Store!Persist(S)
  BY <1>1, <1>2 DEF Store!Persist
<1> QED BY <1>3 DEF Store!Next

LEMMA FetchMissView ==
  ASSUME IInv, NEW p \in PageId, FetchMiss(p)
  PROVE  Store!Next
<1> DEFINE S == IF WrittenBack \in PageId THEN {WrittenBack} ELSE {}
<1>1. StatusView = "up" /\ StatusView' = "up"
  BY DEF FetchMiss, StatusView
<1>2. /\ Victim \in PageId => Cached(Victim)
      /\ WrittenBack \in PageId => WrittenBack = Victim
      /\ Victim \in PageId /\ WrittenBack # Victim => ~Dirty(Victim)
  <2>1. INVALID_PAGE_ID \notin PageId
    BY DiskAssumption DEF PageId, INVALID_PAGE_ID
  <2> QED BY <2>1, EvictionFacts DEF Resident
<1>3. \A q \in PageId : disk'[q] = IF q = WrittenBack THEN pages[q] ELSE disk[q]
  BY DiskFacts DEF FetchMiss
<1>4. ~Cached(p) /\ unwritten = {} /\ p # Victim /\ p # WrittenBack
  BY <1>2 DEF FetchMiss
<1>5. \A q \in PageId : StoreView'[q] = StoreView[q]
  <2> SUFFICES ASSUME NEW q \in PageId PROVE StoreView'[q] = StoreView[q]
    OBVIOUS
  <2>1. StoreView'[q] = IF Cached(q)' THEN pages'[q].data ELSE disk'[q].data
    BY DEF StoreView
  <2>2. pages'[q] = IF q = p /\ Readable(p, WrittenBack) THEN DiskAfterEviction[p]
                    ELSE IF q = Victim THEN NoFrame ELSE pages[q]
    BY DEF FetchMiss
  <2>3. CASE q = p
    <3>1. pages'[q] \in {disk[p], NoFrame}
      BY <2>2, <2>3, <1>4, DiskFacts DEF Cached
    <3>2. disk'[q] = disk[q]
      BY <2>3, <1>3, <1>4
    <3> QED BY <2>1, <2>3, <3>1, <3>2, <1>4, ViewsOfPages DEF Cached
  <2>4. CASE q = Victim
    <3>1. ~Cached(q)'
      BY <2>2, <2>4, <1>4 DEF Cached
    <3>2. disk'[q].data = pages[q].data
      BY <2>4, <1>2, <1>3, <1>4 DEF IInv, CleanMatchesDisk
    <3> QED BY <2>1, <2>4, <3>1, <3>2, <1>2, ViewsOfPages
  <2>5. CASE q # p /\ q # Victim
    <3>1. pages'[q] = pages[q] /\ disk'[q] = disk[q]
      BY <2>2, <2>5, <1>2, <1>3
    <3> QED BY <2>1, <3>1, ViewsOfPages DEF Cached
  <2> QED BY <2>3, <2>4, <2>5
<1>6. \A q \in PageId : StableView'[q] = IF q \in S THEN StoreView[q] ELSE StableView[q]
  BY <1>2, <1>3, ViewsOfPages DEF StableView
<1>7. S \in SUBSET PageId
  OBVIOUS
<1> HIDE DEF S
<1> QED BY <1>1, <1>5, <1>6, <1>7, PersistView

LEMMA NewPageAtView ==
  ASSUME IInv, NEW p \in PageId, NewPageAt(p)
  PROVE  Store!Next
<1> DEFINE S == IF WrittenBack \in PageId THEN {WrittenBack} ELSE {}
<1>1. StatusView = "up" /\ StatusView' = StatusView
  BY DEF NewPageAt, StatusView
<1>2. /\ Victim \in PageId => Cached(Victim)
      /\ WrittenBack \in PageId => WrittenBack = Victim
      /\ Victim \in PageId /\ WrittenBack # Victim => ~Dirty(Victim)
  <2>1. INVALID_PAGE_ID \notin PageId
    BY DiskAssumption DEF PageId, INVALID_PAGE_ID
  <2> QED BY <2>1, EvictionFacts DEF Resident
<1>3. \A q \in PageId : disk'[q] = IF q = WrittenBack THEN pages[q] ELSE disk[q]
  BY DiskFacts DEF NewPageAt
<1>4. ~Cached(p) /\ unwritten = {} /\ p # Victim /\ p # WrittenBack
  BY <1>2 DEF NewPageAt
<1>5. disk[p] = ZeroPage
  <2>1. p >= file_pages
    BY DiskFacts DEF NewPageAt, IInv, TypeOK, PageId
  <2> QED BY <2>1 DEF IInv, Strengthening
<1>6. StoreView[p] = Void
  BY <1>4, <1>5, ViewsOfPages, ImageAssumption
<1>7. \A q \in PageId : StoreView'[q] = IF q = p THEN Fresh ELSE StoreView[q]
  <2> SUFFICES ASSUME NEW q \in PageId
               PROVE  StoreView'[q] = IF q = p THEN Fresh ELSE StoreView[q]
    OBVIOUS
  <2>1. StoreView'[q] = IF Cached(q)' THEN pages'[q].data ELSE disk'[q].data
    BY DEF StoreView
  <2>2. pages'[q] = IF q = p THEN [data |-> Fresh, dirty |-> FALSE]
                    ELSE IF q = Victim THEN NoFrame ELSE pages[q]
    BY DEF NewPageAt
  <2>3. CASE q = p
    <3>1. pages'[q] = [data |-> Fresh, dirty |-> FALSE]
      BY <2>2, <2>3, <1>4
    <3>2. [data |-> Fresh, dirty |-> FALSE] # NoFrame
      BY FrameFacts DEF Contents
    <3>3. StoreView'[q] = Fresh
      BY <2>1, <3>1, <3>2 DEF Cached
    <3> QED BY <2>3, <3>3
  <2>4. CASE q = Victim
    <3>1. ~Cached(q)'
      BY <2>2, <2>4, <1>4 DEF Cached
    <3>2. disk'[q].data = pages[q].data
      BY <2>4, <1>2, <1>3, <1>4 DEF IInv, CleanMatchesDisk
    <3> QED BY <2>1, <2>4, <3>1, <3>2, <1>2, <1>4, ViewsOfPages
  <2>5. CASE q # p /\ q # Victim
    <3>1. pages'[q] = pages[q] /\ disk'[q] = disk[q]
      BY <2>2, <2>5, <1>2, <1>3
    <3> QED BY <2>1, <2>5, <3>1, ViewsOfPages DEF Cached
  <2> QED BY <2>3, <2>4, <2>5
<1>8. \A q \in PageId : StableView'[q] = IF q \in S THEN StoreView[q] ELSE StableView[q]
  BY <1>2, <1>3, ViewsOfPages DEF StableView
<1>9. S \in SUBSET PageId
  OBVIOUS
<1> HIDE DEF S
<1>10. StoreView' = [StoreView EXCEPT ![p] = Fresh]
  BY <1>7 DEF StoreView
<1>11. StableView' = Store!Persisted(S)
  BY <1>8 DEF StableView, Store!Persisted
<1>12. Store!Format(p, S)
  BY <1>1, <1>6, <1>10, <1>11 DEF Store!Format
<1> QED BY <1>9, <1>12 DEF Store!Next

LEMMA WriteView ==
  ASSUME IInv, NEW p \in PageId, NEW d \in Data, Write(p, d)
  PROVE  Store!Next
<1>1. /\ pages'[p] = [data |-> d, dirty |-> TRUE]
      /\ \A q \in PageId \ {p} : pages'[q] = pages[q]
      /\ disk' = disk
  BY DEF Write, IInv, TypeOK
<1>2. Cached(p)'
  BY <1>1, FrameFacts DEF Cached, Contents
<1>3. StoreView' = [StoreView EXCEPT ![p] = d]
  <2>1. \A q \in PageId : StoreView'[q] = IF q = p THEN d ELSE StoreView[q]
    <3> SUFFICES ASSUME NEW q \in PageId
                 PROVE  StoreView'[q] = IF q = p THEN d ELSE StoreView[q]
      OBVIOUS
    <3>1. StoreView'[q] = IF Cached(q)' THEN pages'[q].data ELSE disk'[q].data
      BY DEF StoreView
    <3> QED BY <3>1, <1>1, <1>2, ViewsOfPages DEF Cached
  <2> QED BY <2>1 DEF StoreView
<1>4. Store!Write(p, d)
  BY <1>1, <1>3 DEF Store!Write, StableView, StatusView, Write
<1> QED BY <1>4 DEF Store!Next

LEMMA FlushView ==
  ASSUME IInv, NEW p \in PageId, FlushPage(p) \/ FlushOne(p)
  PROVE  Store!Next
<1>1. /\ Cached(p) /\ pages[p] \in Frame
      /\ disk' = DiskAfter(p, pages[p])
      /\ pages' = [pages EXCEPT ![p].dirty = FALSE]
      /\ mode' = mode /\ StatusView = "up"
  BY DEF FlushPage, FlushOne, WritePage, Dirty, Cached, IInv, TypeOK, StatusView
<1>2. /\ pages'[p] = [pages[p] EXCEPT !.dirty = FALSE]
      /\ \A q \in PageId \ {p} : pages'[q] = pages[q]
  BY <1>1 DEF IInv, TypeOK
<1>3. Cached(p)' /\ pages'[p].data = pages[p].data
  BY <1>1, <1>2, FrameFacts DEF Cached
<1>4. \A q \in PageId : disk'[q] = IF q = p THEN pages[p] ELSE disk[q]
  BY <1>1 DEF DiskAfter
<1>5. \A q \in PageId : StoreView'[q] = StoreView[q]
  <2> SUFFICES ASSUME NEW q \in PageId PROVE StoreView'[q] = StoreView[q]
    OBVIOUS
  <2>1. StoreView'[q] = IF Cached(q)' THEN pages'[q].data ELSE disk'[q].data
    BY DEF StoreView
  <2>2. CASE q = p
    BY <2>1, <2>2, <1>1, <1>3, ViewsOfPages
  <2>3. CASE q # p
    BY <2>1, <2>3, <1>2, <1>4, ViewsOfPages DEF Cached
  <2> QED BY <2>2, <2>3
<1>6. \A q \in PageId : StableView'[q] = IF q \in {p} THEN StoreView[q] ELSE StableView[q]
  BY <1>1, <1>4, ViewsOfPages DEF StableView
<1>7. StatusView' = "up"
  BY <1>1 DEF StatusView
<1> QED BY <1>1, <1>5, <1>6, <1>7, PersistView

LEMMA NewPageView ==
  ASSUME IInv, NEW p \in PageId, NewPage(p)
  PROVE  Store!Next
<1> DEFINE img == [data |-> Fresh, dirty |-> FALSE]
<1>1. ~Cached(p) /\ disk[p] = ZeroPage
  BY DiskAssumption DEF NewPage, IInv, NewIdsAreUnused, TypeOK, PageId
<1>2. StoreView[p] = Void /\ StableView[p] = Void
  BY <1>1, ViewsOfPages, ImageAssumption
<1>3. img # NoFrame /\ img.data = Fresh
  BY FrameFacts DEF Contents
<1> HIDE DEF img
<1>4. /\ pages'[p] = img
      /\ \A q \in PageId \ {p} : pages'[q] = pages[q]
      /\ \A q \in PageId : disk'[q] = IF q = p THEN img ELSE disk[q]
      /\ mode' = mode /\ StatusView = "up"
  BY DEF NewPage, DiskAfter, IInv, TypeOK, StatusView, img
<1>5. StoreView' = [StoreView EXCEPT ![p] = Fresh]
  <2>1. \A q \in PageId : StoreView'[q] = IF q = p THEN Fresh ELSE StoreView[q]
    <3> SUFFICES ASSUME NEW q \in PageId
                 PROVE  StoreView'[q] = IF q = p THEN Fresh ELSE StoreView[q]
      OBVIOUS
    <3>1. StoreView'[q] = IF Cached(q)' THEN pages'[q].data ELSE disk'[q].data
      BY DEF StoreView
    <3> QED BY <3>1, <1>3, <1>4, ViewsOfPages DEF Cached
  <2> QED BY <2>1 DEF StoreView
<1>6. StableView' = [StableView EXCEPT ![p] = Fresh]
  BY <1>3, <1>4 DEF StableView
<1>7. Store!Allocate(p)
  BY <1>2, <1>4, <1>5, <1>6 DEF Store!Allocate, StatusView
<1> QED BY <1>7 DEF Store!Next

LEMMA DropView ==
  ASSUME IInv, EvictionFails \/ \E p \in PageId : DeletePage(p)
  PROVE  Store!Next
<1>1. PICK v \in PageId :
        /\ Cached(v)
        /\ pages' = [pages EXCEPT ![v] = NoFrame]
        /\ UNCHANGED <<disk, mode>>
        /\ WriteMayFail \/ MayDelete
        /\ StatusView = "up"
  <2>1. CASE EvictionFails
    <3>1. Victim \in PageId /\ Cached(Victim)
      BY <2>1, EvictionFacts DEF EvictionFails, Resident
    <3> QED BY <2>1, <3>1 DEF EvictionFails, WriteError, StatusView
  <2>2. CASE \E p \in PageId : DeletePage(p)
    BY <2>2 DEF DeletePage, StatusView
  <2> QED BY <2>1, <2>2
<1>2. pages'[v] = NoFrame /\ \A q \in PageId \ {v} : pages'[q] = pages[q]
  BY <1>1 DEF IInv, TypeOK
<1>3. StoreView' = [StoreView EXCEPT ![v] = StableView[v]]
  <2>1. \A q \in PageId : StoreView'[q] = IF q = v THEN StableView[v] ELSE StoreView[q]
    <3> SUFFICES ASSUME NEW q \in PageId
                 PROVE  StoreView'[q] = IF q = v THEN StableView[v] ELSE StoreView[q]
      OBVIOUS
    <3>1. StoreView'[q] = IF Cached(q)' THEN pages'[q].data ELSE disk'[q].data
      BY DEF StoreView
    <3> QED BY <3>1, <1>1, <1>2, ViewsOfPages DEF Cached
  <2> QED BY <2>1 DEF StoreView
<1>4. Store!Discard(v)
  BY <1>1, <1>3 DEF Store!Discard, StableView, StatusView
<1> QED BY <1>4 DEF Store!Next

LEMMA DownView ==
  ASSUME IInv, EndClose \/ Crash
  PROVE  Store!Next
<1>1. /\ disk' = disk
      /\ pages' = [p \in PageId |-> NoFrame]
      /\ StatusView = "up"
  BY DEF EndClose, Crash, EmptyPool, StatusView
<1>2. StoreView' = StableView /\ StableView' = StableView
  BY <1>1 DEF StoreView, StableView, Cached
<1>3. CASE Crash
  <2>1. StatusView' = "crashed"
    BY <1>3 DEF Crash, StatusView
  <2> QED BY <1>1, <1>2, <2>1 DEF Store!Next, Store!Crash
<1>4. CASE EndClose
  <2>1. StatusView' = "closed"
    BY <1>4 DEF EndClose, StatusView
  <2>2. \A p \in PageId : ~Dirty(p) /\ p \notin unwritten
    BY <1>4 DEF EndClose, IInv, Strengthening
  <2>3. StoreView = StableView
    BY <2>2 DEF IInv, CleanMatchesDisk, StoreView, StableView
  <2> QED BY <1>1, <1>2, <2>1, <2>3 DEF Store!Next, Store!Close
<1> QED BY <1>3, <1>4

LEMMA OpenView ==
  ASSUME IInv, Open
  PROVE  Store!Next
<1>1. /\ UNCHANGED <<disk, pages>>
      /\ StatusView # "up" /\ StatusView' = "up"
  BY DEF Open, OpenFile, StatusView
<1>2. UNCHANGED <<StoreView, StableView>>
  BY <1>1 DEF StoreView, StableView, Cached
<1> QED BY <1>1, <1>2 DEF Store!Next, Store!Open

LEMMA StutterView ==
  ASSUME UNCHANGED <<disk, pages>>, mode \in {"open", "closing"} <=> mode' \in {"open", "closing"},
         mode' = mode \/ mode \in {"open", "closing"}
  PROVE  UNCHANGED <<StoreView, StableView, StatusView>>
  BY DEF StoreView, StableView, StatusView, Cached

\* The buffer pool implements the store without a cache.
THEOREM PoolImplementsStore == Spec => ImplementsPageStore
<1>1. Init => Store!Init
  <2> SUFFICES ASSUME Init PROVE Store!Init
    OBVIOUS
  <2>1. StoreView = [p \in PageId |-> Void] /\ StableView = [p \in PageId |-> Void]
    BY ImageAssumption DEF Init, DiskInit, StoreView, StableView, Cached
  <2> QED BY <2>1 DEF Store!Init, Init, StatusView
<1>2. IInv /\ [Next]_vars => [Store!Next]_(Store!vars)
  <2> SUFFICES ASSUME IInv, [Next]_vars PROVE [Store!Next]_(Store!vars)
    OBVIOUS
  <2>1. CASE UNCHANGED vars
    BY <2>1, StutterView DEF vars, Store!vars
  <2>2. CASE \E p \in PageId : FetchHit(p)
    BY <2>2, StutterView DEF FetchHit, Store!vars
  <2>3. CASE \E p \in PageId : FetchMiss(p)
    BY <2>3, FetchMissView
  <2>4. CASE \E p \in PageId, d \in Data : Write(p, d)
    BY <2>4, WriteView
  <2>5. CASE \E p \in PageId : FlushPage(p) \/ FlushOne(p)
    BY <2>5, FlushView
  <2>6. CASE \E p \in PageId : NewPage(p)
    BY <2>6, NewPageView
  <2>7. CASE \E p \in PageId : NewPageAt(p)
    BY <2>7, NewPageAtView
  <2>8. CASE EvictionFails \/ \E p \in PageId : DeletePage(p)
    BY <2>8, DropView
  <2>9. CASE FlushFails \/ NewPageFails \/ BeginClose \/ FlushAllFails
    <3>1. /\ UNCHANGED <<disk, pages>>
          /\ mode \in {"open", "closing"} /\ mode' \in {"open", "closing"}
      BY <2>9 DEF FlushFails, NewPageFails, BeginClose, FlushAllFails, WriteError
    <3> QED BY <3>1, StutterView DEF Store!vars
  <2>10. CASE EndClose \/ Crash
    BY <2>10, DownView
  <2>11. CASE Open
    BY <2>11, OpenView
  <2> QED BY <2>1, <2>2, <2>3, <2>4, <2>5, <2>6, <2>7, <2>8, <2>9, <2>10, <2>11 DEF Next
<1> QED BY Invariance, <1>1, <1>2, PTL DEF Spec, ImplementsPageStore, Store!Spec
=============================================================================
