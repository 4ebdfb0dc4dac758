---------------------------- MODULE LayoutProofs ----------------------------
(***************************************************************************)
(* What inserting a tuple, deleting a row and overwriting one leave of the *)
(* layout of a page, for every page size and all tuples: facts about the   *)
(* operators of SlottedPage that the proofs on pages and heaps cite.       *)
(***************************************************************************)
EXTENDS SlottedPage, TLAPS

\* Unsigned arithmetic that does not wrap is arithmetic.
LEMMA NoWrap == \A x \in 0 .. Word - 1 : x % Word = x
  BY LayoutAssumption

LEMMA EmptyPageIsWellFormed ==
  ASSUME NEW L, NEW T, NoPage \in L
  PROVE  EmptyPage \in PageOf(L, T) /\ WellFormed(EmptyPage)
  BY LayoutAssumption DEF EmptyPage, PageOf, WellFormed

\* The numbers of a page, and its list of slots.
LEMMA PageFacts ==
  ASSUME NEW L, NEW T, NEW pg \in PageOf(L, T), WellFormed(pg)
  PROVE  /\ pg.tuple_start_ptr \in Nat /\ pg.tuple_start_ptr <= PAGE_SIZE
         /\ pg.free_space_ptr = HEADER_SIZE + SLOT_SIZE * Len(pg.slots)
         /\ pg.free_space_ptr \in Nat
         /\ pg.free_space_ptr <= pg.tuple_start_ptr
         /\ pg.slots \in Seq(SlotOf(T)) /\ Len(pg.slots) \in Nat
         /\ DOMAIN pg.slots = 1 .. Len(pg.slots)
  BY LayoutAssumption DEF PageOf, WellFormed

\* A page that takes a tuple that fits an empty page: it has room, or it is
\* empty.
Takes(pg, t) ==
  /\ t.size \in Nat \ {0} /\ t.size <= MaxTuple
  /\ \/ HasRoom(pg, t)
     \/ pg.slots = <<>> /\ pg.tuple_start_ptr = PAGE_SIZE

\* The tuple lies between the slot directory and the first tuple.
LEMMA RoomIsRoom ==
  ASSUME NEW L, NEW T, NEW pg \in PageOf(L, T), WellFormed(pg), NEW t, Takes(pg, t)
  PROVE  pg.free_space_ptr + SLOT_SIZE <= pg.tuple_start_ptr - t.size
<1>1. t.size \in Nat \ {0} /\ t.size <= PAGE_SIZE - HEADER_SIZE - SLOT_SIZE
  BY DEF Takes, MaxTuple
<1>2. CASE HasRoom(pg, t)
  <2>1. (t.size + SLOT_SIZE) % Word = t.size + SLOT_SIZE
    <3>1. t.size + SLOT_SIZE \in 0 .. Word - 1
      BY <1>1, LayoutAssumption
    <3> QED BY <3>1, NoWrap
  <2>2. (pg.tuple_start_ptr - pg.free_space_ptr) % Word = pg.tuple_start_ptr - pg.free_space_ptr
    <3>1. pg.tuple_start_ptr - pg.free_space_ptr \in 0 .. Word - 1
      BY PageFacts, LayoutAssumption
    <3> QED BY <3>1, NoWrap
  <2>3. t.size + SLOT_SIZE <= pg.tuple_start_ptr - pg.free_space_ptr
    BY <1>2, <2>1, <2>2 DEF HasRoom, RequiredSpace, AvailSpace
  <2> QED BY <1>1, <2>3, PageFacts, LayoutAssumption
<1>3. CASE pg.slots = <<>> /\ pg.tuple_start_ptr = PAGE_SIZE
  <2>1. Len(pg.slots) = 0
    BY <1>3
  <2>2. pg.free_space_ptr = HEADER_SIZE
    BY <2>1, PageFacts, LayoutAssumption
  <2> QED BY <1>1, <1>3, <2>2, LayoutAssumption
<1> QED BY <1>2, <1>3 DEF Takes

\* Putting a tuple adds one slot, of its length, and keeps the others and the
\* layout.
LEMMA PutKeepsLayout ==
  ASSUME NEW L, NEW T, NEW pg \in PageOf(L, T), WellFormed(pg),
         NEW t \in T, Takes(pg, t)
  PROVE  /\ PutTuple(pg, t) \in PageOf(L, T)
         /\ WellFormed(PutTuple(pg, t))
         /\ DOMAIN PutTuple(pg, t).slots = 1 .. Len(pg.slots) + 1
         /\ PutTuple(pg, t).slots[Len(pg.slots) + 1].tuple_length = t.size
         /\ PutTuple(pg, t).slots[Len(pg.slots) + 1].tuple = t
         /\ \A i \in DOMAIN pg.slots : PutTuple(pg, t).slots[i] = pg.slots[i]
<1> DEFINE start == pg.tuple_start_ptr - t.size
           n == Len(pg.slots)
           slot == [tuple_offset |-> start, tuple_length |-> t.size,
                    is_live |-> TRUE, tuple |-> t]
           new == PutTuple(pg, t)
<1>1. /\ t.size \in Nat \ {0} /\ start \in Nat /\ start <= PAGE_SIZE
      /\ start < pg.tuple_start_ptr /\ start \in 0 .. Word - 1
      /\ pg.free_space_ptr + SLOT_SIZE <= start
      /\ start + t.size = pg.tuple_start_ptr
  BY RoomIsRoom, PageFacts, LayoutAssumption DEF Takes
<1>2. start % Word = start
  BY <1>1, NoWrap
<1>3. new = [pg EXCEPT !.slots = Append(pg.slots, slot),
                       !.free_space_ptr = pg.free_space_ptr + SLOT_SIZE,
                       !.tuple_start_ptr = start]
  BY <1>2 DEF PutTuple
<1>4. slot \in SlotOf(T)
  BY <1>1 DEF SlotOf
<1>5. /\ slot.tuple_offset = start /\ slot.tuple_length = t.size /\ slot.tuple = t
  OBVIOUS
<1> HIDE DEF slot
<1>6. /\ new.slots = Append(pg.slots, slot)
      /\ new.free_space_ptr = pg.free_space_ptr + SLOT_SIZE
      /\ new.tuple_start_ptr = start
  BY <1>3 DEF PageOf
<1>7. /\ new.slots \in Seq(SlotOf(T)) /\ Len(new.slots) = n + 1
      /\ DOMAIN new.slots = 1 .. n + 1
      /\ new.slots[n + 1] = slot
      /\ \A i \in 1 .. n : new.slots[i] = pg.slots[i]
  BY <1>4, <1>6, PageFacts
<1>8. new \in PageOf(L, T)
  <2>1. pg.free_space_ptr + SLOT_SIZE \in Nat
    BY PageFacts, LayoutAssumption
  <2> HIDE DEF new
  <2> QED BY <2>1, <1>1, <1>3, <1>6, <1>7 DEF PageOf
<1> HIDE DEF new
<1>10. WellFormed(new)
  <2>1. new.free_space_ptr = HEADER_SIZE + SLOT_SIZE * Len(new.slots)
    <3>1. SLOT_SIZE * (n + 1) = SLOT_SIZE * n + SLOT_SIZE
      BY PageFacts, LayoutAssumption
    <3>2. SLOT_SIZE * n \in Nat
      BY PageFacts, LayoutAssumption
    <3>3. new.free_space_ptr = (HEADER_SIZE + SLOT_SIZE * n) + SLOT_SIZE
      BY <1>6, PageFacts
    <3>4. new.free_space_ptr = HEADER_SIZE + SLOT_SIZE * (n + 1)
      BY <3>1, <3>2, <3>3, LayoutAssumption
    <3> QED BY <3>4, <1>7
  <2>2. new.free_space_ptr <= new.tuple_start_ptr /\ new.tuple_start_ptr <= PAGE_SIZE
    BY <1>1, <1>6
  <2>3. ASSUME NEW i \in 1 .. n + 1
        PROVE  /\ new.tuple_start_ptr <= new.slots[i].tuple_offset
               /\ new.slots[i].tuple_offset + new.slots[i].tuple_length <= PAGE_SIZE
               /\ new.slots[i].tuple.size <= new.slots[i].tuple_length
    <3>1. CASE i = n + 1
      <4>1. /\ new.slots[i].tuple_offset = start /\ new.slots[i].tuple_length = t.size
            /\ new.slots[i].tuple.size = t.size
        BY <3>1, <1>5, <1>7
      <4>2. start + t.size <= PAGE_SIZE
        BY <1>1, PageFacts
      <4> QED BY <4>1, <4>2, <1>1, <1>6
    <3>2. CASE i # n + 1
      <4>1. i \in DOMAIN pg.slots /\ new.slots[i] = pg.slots[i] /\ pg.slots[i] \in SlotOf(T)
        BY <3>2, <1>7, PageFacts
      <4>2. /\ pg.tuple_start_ptr <= pg.slots[i].tuple_offset
            /\ pg.slots[i].tuple_offset + pg.slots[i].tuple_length <= PAGE_SIZE
            /\ pg.slots[i].tuple.size <= pg.slots[i].tuple_length
        BY <4>1 DEF WellFormed
      <4>3. pg.slots[i].tuple_offset \in Nat
        BY <4>1 DEF SlotOf
      <4> QED BY <4>1, <4>2, <4>3, <1>1, <1>6, PageFacts
    <3> QED BY <3>1, <3>2
  <2>4. ASSUME NEW i \in 1 .. n + 1, NEW j \in 1 .. n + 1, i < j
        PROVE  new.slots[j].tuple_offset + new.slots[j].tuple_length
                 <= new.slots[i].tuple_offset
    <3>1. i \in DOMAIN pg.slots /\ new.slots[i] = pg.slots[i]
      BY <2>4, <1>7, PageFacts
    <3>2. CASE j = n + 1
      <4>1. pg.tuple_start_ptr <= pg.slots[i].tuple_offset
        BY <3>1 DEF WellFormed
      <4> QED BY <3>1, <3>2, <4>1, <1>1, <1>5, <1>7
    <3>3. CASE j # n + 1
      <4>1. j \in DOMAIN pg.slots /\ new.slots[j] = pg.slots[j]
        BY <3>3, <1>7, PageFacts
      <4> QED BY <2>4, <3>1, <4>1 DEF WellFormed
    <3> QED BY <3>2, <3>3
  <2> QED BY <2>1, <2>2, <2>3, <2>4, <1>7 DEF WellFormed
<1>11. DOMAIN pg.slots = 1 .. n
  BY PageFacts
<1> QED BY <1>5, <1>7, <1>8, <1>10, <1>11 DEF new

\* Replacing a slot by one of the same place and length, with a tuple that is
\* not longer, keeps the layout.
LEMMA SlotKeepsLayout ==
  ASSUME NEW L, NEW T, NEW pg \in PageOf(L, T), WellFormed(pg),
         NEW i \in DOMAIN pg.slots, NEW slot \in SlotOf(T),
         slot.tuple_offset = pg.slots[i].tuple_offset,
         slot.tuple_length = pg.slots[i].tuple_length,
         slot.tuple.size <= slot.tuple_length
  PROVE  LET new == [pg EXCEPT !.slots[i] = slot]
         IN  /\ new \in PageOf(L, T) /\ WellFormed(new)
             /\ DOMAIN new.slots = DOMAIN pg.slots
             /\ new.slots[i] = slot
             /\ \A j \in DOMAIN pg.slots \ {i} : new.slots[j] = pg.slots[j]
<1> DEFINE n == Len(pg.slots)
           new == [pg EXCEPT !.slots[i] = slot]
<1>1. /\ new.slots = [pg.slots EXCEPT ![i] = slot]
      /\ new.free_space_ptr = pg.free_space_ptr
      /\ new.tuple_start_ptr = pg.tuple_start_ptr
  BY DEF PageOf
<1>2. /\ new.slots \in Seq(SlotOf(T)) /\ Len(new.slots) = n
      /\ DOMAIN new.slots = DOMAIN pg.slots
      /\ new.slots[i] = slot
      /\ \A j \in DOMAIN pg.slots \ {i} : new.slots[j] = pg.slots[j]
  BY <1>1, PageFacts
<1>3. new \in PageOf(L, T)
  BY <1>1, <1>2 DEF PageOf
<1> HIDE DEF new
<1>5. WellFormed(new)
  <2>1. \A j \in DOMAIN pg.slots :
          /\ new.slots[j].tuple_offset = pg.slots[j].tuple_offset
          /\ new.slots[j].tuple_length = pg.slots[j].tuple_length
          /\ new.slots[j].tuple.size <= new.slots[j].tuple_length
    <3> TAKE j \in DOMAIN pg.slots
    <3>1. CASE j = i
      BY <3>1, <1>2
    <3>2. CASE j # i
      BY <3>2, <1>2 DEF WellFormed
    <3> QED BY <3>1, <3>2
  <2> QED BY <2>1, <1>1, <1>2 DEF WellFormed
<1> QED BY <1>2, <1>3, <1>5 DEF new

\* A slot that dies.
LEMMA MarkDeadKeepsLayout ==
  ASSUME NEW L, NEW T, NEW pg \in PageOf(L, T), WellFormed(pg), NEW i \in DOMAIN pg.slots
  PROVE  /\ MarkDead(pg, i) \in PageOf(L, T) /\ WellFormed(MarkDead(pg, i))
         /\ DOMAIN MarkDead(pg, i).slots = DOMAIN pg.slots
         /\ MarkDead(pg, i).slots[i] = [pg.slots[i] EXCEPT !.is_live = FALSE]
         /\ \A j \in DOMAIN pg.slots \ {i} : MarkDead(pg, i).slots[j] = pg.slots[j]
<1> DEFINE slot == [pg.slots[i] EXCEPT !.is_live = FALSE]
<1>1. pg.slots[i] \in SlotOf(T)
  BY PageFacts
<1>2. /\ slot \in SlotOf(T)
      /\ slot.tuple_offset = pg.slots[i].tuple_offset
      /\ slot.tuple_length = pg.slots[i].tuple_length
      /\ slot.tuple.size <= slot.tuple_length
  BY <1>1 DEF SlotOf, WellFormed
<1>3. MarkDead(pg, i) = [pg EXCEPT !.slots[i] = slot]
  BY DEF MarkDead
<1> HIDE DEF slot
<1>4. LET new == [pg EXCEPT !.slots[i] = slot]
      IN  /\ new \in PageOf(L, T) /\ WellFormed(new)
          /\ DOMAIN new.slots = DOMAIN pg.slots
          /\ new.slots[i] = slot
          /\ \A j \in DOMAIN pg.slots \ {i} : new.slots[j] = pg.slots[j]
  BY <1>2, SlotKeepsLayout
<1> QED BY <1>3, <1>4 DEF slot

\* A slot whose tuple is overwritten by one of its length.
LEMMA OverwriteKeepsLayout ==
  ASSUME NEW L, NEW T, NEW pg \in PageOf(L, T), WellFormed(pg), NEW i \in DOMAIN pg.slots,
         NEW t \in T, t.size <= pg.slots[i].tuple_length
  PROVE  /\ Overwrite(pg, i, t) \in PageOf(L, T) /\ WellFormed(Overwrite(pg, i, t))
         /\ DOMAIN Overwrite(pg, i, t).slots = DOMAIN pg.slots
         /\ Overwrite(pg, i, t).slots[i] = [pg.slots[i] EXCEPT !.tuple = t]
         /\ \A j \in DOMAIN pg.slots \ {i} : Overwrite(pg, i, t).slots[j] = pg.slots[j]
<1> DEFINE slot == [pg.slots[i] EXCEPT !.tuple = t]
<1>1. pg.slots[i] \in SlotOf(T)
  BY PageFacts
<1>2. /\ slot \in SlotOf(T)
      /\ slot.tuple_offset = pg.slots[i].tuple_offset
      /\ slot.tuple_length = pg.slots[i].tuple_length
      /\ slot.tuple.size <= slot.tuple_length
  BY <1>1 DEF SlotOf
<1>3. Overwrite(pg, i, t) = [pg EXCEPT !.slots[i] = slot]
  BY DEF Overwrite
<1> HIDE DEF slot
<1>4. LET new == [pg EXCEPT !.slots[i] = slot]
      IN  /\ new \in PageOf(L, T) /\ WellFormed(new)
          /\ DOMAIN new.slots = DOMAIN pg.slots
          /\ new.slots[i] = slot
          /\ \A j \in DOMAIN pg.slots \ {i} : new.slots[j] = pg.slots[j]
  BY <1>2, SlotKeepsLayout
<1> QED BY <1>3, <1>4 DEF slot
=============================================================================
