--------------------------- MODULE PageFillProofs ---------------------------
(***************************************************************************)
(* The layout of a page is never broken, for every page size and every set *)
(* of tuples that fit an empty page: no insertion of table_heap.cpp writes *)
(* over another tuple, over the slot directory or past the page.           *)
(***************************************************************************)
EXTENDS PageFill, LayoutProofs

\* What InsertTuple takes for granted of a page it just allocated.
TuplesFit == \A t \in Tuples : t.size <= MaxTuple

\* What makes the layout inductive: a slot is exactly as long as its tuple, and
\* a page without slots has all its space.
Exact ==
  /\ \A i \in DOMAIN page.slots : page.slots[i].tuple.size = page.slots[i].tuple_length
  /\ page.slots = <<>> => page.tuple_start_ptr = PAGE_SIZE

Inv == TypeOK /\ Exact /\ WellFormed(page)

\* The list of slots.
LEMMA Slots ==
  ASSUME Inv
  PROVE  /\ page.slots \in Seq(SlotOf(Tuples)) /\ Len(page.slots) \in Nat
         /\ DOMAIN page.slots = 1 .. Len(page.slots)
  BY PageFacts DEF Inv, TypeOK

LEMMA InsertStep ==
  ASSUME TuplesFit, Inv, NEW t \in Tuples, Insert(t)
  PROVE  Inv'
<1> DEFINE n == Len(page.slots)
<1>1. Takes(page, t)
  BY TuplesAssumption DEF TuplesFit, Takes, Insert, Inv, Exact
<1>2. /\ page' \in PageOf(Int, Tuples) /\ WellFormed(page')
      /\ DOMAIN page'.slots = 1 .. n + 1
      /\ page'.slots[n + 1].tuple_length = t.size
      /\ page'.slots[n + 1].tuple = t
      /\ \A i \in DOMAIN page.slots : page'.slots[i] = page.slots[i]
  BY <1>1, PutKeepsLayout DEF Insert, Inv, TypeOK
<1>3. Exact'
  <2>1. ASSUME NEW i \in 1 .. n + 1 PROVE page'.slots[i].tuple.size = page'.slots[i].tuple_length
    <3>1. CASE i = n + 1
      BY <3>1, <1>2
    <3>2. CASE i # n + 1
      BY <3>2, <1>2, Slots DEF Inv, Exact
    <3> QED BY <3>1, <3>2
  <2>2. 1 \in DOMAIN page'.slots
    BY <1>2, Slots
  <2>3. page'.slots # <<>>
    BY <2>2
  <2> QED BY <2>1, <2>3, <1>2 DEF Exact
<1> QED BY <1>2, <1>3 DEF Inv, TypeOK

\* Changing a slot that keeps its place and length keeps the invariant.
LEMMA SlotStep ==
  ASSUME Inv, NEW i \in DOMAIN page.slots,
         page' \in PageOf(Int, Tuples), WellFormed(page'),
         DOMAIN page'.slots = DOMAIN page.slots,
         page'.slots[i].tuple.size = page'.slots[i].tuple_length,
         \A j \in DOMAIN page.slots \ {i} : page'.slots[j] = page.slots[j]
  PROVE  Inv'
<1>1. \A j \in DOMAIN page.slots : page'.slots[j].tuple.size = page'.slots[j].tuple_length
  BY DEF Inv, Exact
<1>2. page'.slots # <<>>
  BY Slots
<1> QED BY <1>1, <1>2 DEF Inv, TypeOK, Exact

LEMMA DeleteStep ==
  ASSUME Inv, NEW i \in DOMAIN page.slots, Delete(i)
  PROVE  Inv'
<1>1. /\ page' \in PageOf(Int, Tuples) /\ WellFormed(page')
      /\ DOMAIN page'.slots = DOMAIN page.slots
      /\ page'.slots[i] = [page.slots[i] EXCEPT !.is_live = FALSE]
      /\ \A j \in DOMAIN page.slots \ {i} : page'.slots[j] = page.slots[j]
  BY MarkDeadKeepsLayout DEF Delete, Inv, TypeOK
<1>2. page.slots[i] \in SlotOf(Tuples)
  BY Slots
<1>3. page'.slots[i].tuple.size = page'.slots[i].tuple_length
  BY <1>1, <1>2 DEF SlotOf, Inv, Exact
<1> QED BY <1>1, <1>3, SlotStep

LEMMA UpdateStep ==
  ASSUME Inv, NEW i \in DOMAIN page.slots, NEW t \in Tuples, UpdateInPlace(i, t)
  PROVE  Inv'
<1>1. page.slots[i] \in SlotOf(Tuples) /\ page.slots[i].tuple_length = t.size
  BY Slots DEF UpdateInPlace, Inv, Exact
<1>2. t.size <= page.slots[i].tuple_length
  BY <1>1, TuplesAssumption
<1>3. /\ page' \in PageOf(Int, Tuples) /\ WellFormed(page')
      /\ DOMAIN page'.slots = DOMAIN page.slots
      /\ page'.slots[i] = [page.slots[i] EXCEPT !.tuple = t]
      /\ \A j \in DOMAIN page.slots \ {i} : page'.slots[j] = page.slots[j]
  BY <1>2, OverwriteKeepsLayout DEF UpdateInPlace, Inv, TypeOK
<1>4. page'.slots[i].tuple.size = page'.slots[i].tuple_length
  BY <1>1, <1>3 DEF SlotOf
<1> QED BY <1>3, <1>4, SlotStep

-----------------------------------------------------------------------------
(* The inductive invariant, and the two theorems that follow from it.      *)

LEMMA Induction == TuplesFit => (Spec => []Inv)
<1> SUFFICES ASSUME TuplesFit PROVE Spec => []Inv
  OBVIOUS
<1>1. Init => Inv
  <2>1. EmptyPage.slots = <<>> /\ EmptyPage.tuple_start_ptr = PAGE_SIZE
    BY DEF EmptyPage
  <2>2. EmptyPage \in PageOf(Int, Tuples) /\ WellFormed(EmptyPage)
    BY EmptyPageIsWellFormed DEF NoPage
  <2> QED BY <2>1, <2>2 DEF Init, Inv, TypeOK, Exact
<1>2. Inv /\ [Next]_page => Inv'
  <2> SUFFICES ASSUME Inv, [Next]_page PROVE Inv'
    OBVIOUS
  <2>1. CASE \E t \in Tuples : Insert(t)
    BY <2>1, InsertStep
  <2>2. CASE \E i \in DOMAIN page.slots : Delete(i)
    BY <2>2, DeleteStep
  <2>3. CASE \E i \in DOMAIN page.slots, t \in Tuples : UpdateInPlace(i, t)
    BY <2>3, UpdateStep
  <2>4. CASE UNCHANGED page
    BY <2>4 DEF Inv, TypeOK, Exact
  <2> QED BY <2>1, <2>2, <2>3, <2>4 DEF Next
<1> QED BY <1>1, <1>2, PTL DEF Spec

\* If every tuple fits an empty page, a page stays a page of the types of page.h.
THEOREM TypeCorrect == TuplesFit => (Spec => []TypeOK)
<1>1. Inv => TypeOK
  BY DEF Inv
<1> QED BY <1>1, Induction, PTL

\* If every tuple fits an empty page, every page keeps the layout of page.h
\* through any sequence of insertions, deletions and updates in place.
THEOREM LayoutInvariant == TuplesFit => (Spec => []LayoutHolds)
<1>1. Inv => LayoutHolds
  BY DEF Inv, LayoutHolds
<1> QED BY <1>1, Induction, PTL

\* What a step leaves of slot i.
KeepsSlot(i) ==
  /\ i \in DOMAIN page'.slots
  /\ page'.slots[i].tuple_offset = page.slots[i].tuple_offset
  /\ page'.slots[i].tuple_length = page.slots[i].tuple_length
  /\ page'.slots[i].is_live => page.slots[i].is_live

LEMMA InsertKeepsSlots ==
  ASSUME Inv, NEW t \in Tuples, Insert(t), NEW i \in DOMAIN page.slots
  PROVE  KeepsSlot(i)
<1> DEFINE slot == [tuple_offset |-> (page.tuple_start_ptr - t.size) % Word,
                    tuple_length |-> t.size, is_live |-> TRUE, tuple |-> t]
<1>1. page'.slots = Append(page.slots, slot)
  BY DEF Inv, TypeOK, PageOf, Insert, PutTuple
<1>2. i \in DOMAIN page'.slots /\ page'.slots[i] = page.slots[i]
  <2>1. page.slots \in Seq(SlotOf(Tuples)) /\ i \in 1 .. Len(page.slots)
    BY Slots
  <2> HIDE DEF slot
  <2> QED BY <1>1, <2>1
<1> QED BY <1>2 DEF KeepsSlot

LEMMA DeleteKeepsSlots ==
  ASSUME Inv, NEW k \in DOMAIN page.slots, Delete(k), NEW i \in DOMAIN page.slots
  PROVE  KeepsSlot(i)
<1>1. page'.slots = [page.slots EXCEPT ![k].is_live = FALSE]
  BY DEF Inv, TypeOK, PageOf, Delete, MarkDead
<1>2. page.slots[i] \in SlotOf(Tuples)
  BY Slots
<1> QED BY <1>1, <1>2, Slots DEF KeepsSlot, SlotOf

LEMMA UpdateKeepsSlots ==
  ASSUME Inv, NEW k \in DOMAIN page.slots, NEW t \in Tuples, UpdateInPlace(k, t),
         NEW i \in DOMAIN page.slots
  PROVE  KeepsSlot(i)
<1>1. page'.slots = [page.slots EXCEPT ![k].tuple = t]
  BY DEF Inv, TypeOK, PageOf, UpdateInPlace, Overwrite
<1>2. page.slots[i] \in SlotOf(Tuples)
  BY Slots
<1> QED BY <1>1, <1>2, Slots DEF KeepsSlot, SlotOf

\* If every tuple fits an empty page, a slot keeps its place and its length
\* whatever is inserted, deleted or updated around it, and once dead stays so.
THEOREM SlotsKeepPlace == TuplesFit => (Spec => SlotsAreStable)
<1>1. Inv /\ [Next]_page => [\A i \in DOMAIN page.slots : KeepsSlot(i)]_page
  <2> SUFFICES ASSUME Inv, Next PROVE \A i \in DOMAIN page.slots : KeepsSlot(i)
    OBVIOUS
  <2>1. CASE \E t \in Tuples : Insert(t)
    BY <2>1, InsertKeepsSlots
  <2>2. CASE \E k \in DOMAIN page.slots : Delete(k)
    BY <2>2, DeleteKeepsSlots
  <2>3. CASE \E k \in DOMAIN page.slots, t \in Tuples : UpdateInPlace(k, t)
    BY <2>3, UpdateKeepsSlots
  <2> QED BY <2>1, <2>2, <2>3 DEF Next
<1>2. [\A i \in DOMAIN page.slots : KeepsSlot(i)]_page
        => [\A i \in DOMAIN page.slots :
              /\ i \in DOMAIN page'.slots
              /\ page'.slots[i].tuple_offset = page.slots[i].tuple_offset
              /\ page'.slots[i].tuple_length = page.slots[i].tuple_length
              /\ page'.slots[i].is_live => page.slots[i].is_live]_page
  BY DEF KeepsSlot
<1> QED BY <1>1, <1>2, Induction, PTL DEF Spec, SlotsAreStable
=============================================================================
