---------------------------- MODULE SlottedPage ----------------------------
(***************************************************************************)
(* src/storage/page.h: the layout of a page, and what InsertTuple does to  *)
(* it.  The bytes of a tuple are kept in its slot: that they are its own,  *)
(* and nobody else's, is what WellFormed says of the offsets.              *)
(***************************************************************************)
EXTENDS Integers, Sequences

CONSTANTS
  PAGE_SIZE,    \* 4096
  HEADER_SIZE,  \* sizeof(PageHeader), 28
  SLOT_SIZE,    \* sizeof(SlotDirectory), 8
  Word          \* 2^32, the range of the uint32_t offsets

ASSUME LayoutAssumption ==
  /\ PAGE_SIZE \in Nat /\ HEADER_SIZE \in Nat /\ SLOT_SIZE \in Nat \ {0}
  /\ HEADER_SIZE + SLOT_SIZE <= PAGE_SIZE
  /\ Word \in Nat /\ PAGE_SIZE < Word

NoPage == -1   \* INVALID_PAGE_ID

\* Page::NewPage of a table page.
EmptyPage ==
  [page_type       |-> "TABLE_PAGE",
   next_page_id    |-> NoPage,
   prev_page_id    |-> NoPage,
   free_space_ptr  |-> HEADER_SIZE,
   tuple_start_ptr |-> PAGE_SIZE,
   slots           |-> <<>>]

\* Slots and table pages, of tuples T and with links L.
SlotOf(T) == [tuple_offset : Nat, tuple_length : Nat, is_live : BOOLEAN, tuple : T]
PageOf(L, T) ==
  [page_type : {"TABLE_PAGE"}, next_page_id : L, prev_page_id : L,
   free_space_ptr : Nat, tuple_start_ptr : 0 .. Word - 1, slots : Seq(SlotOf(T))]

\* What fits an empty page.
MaxTuple == PAGE_SIZE - HEADER_SIZE - SLOT_SIZE

\* A page of zero bytes: its links are page 0, not INVALID_PAGE_ID.
ZeroedPage ==
  [page_type       |-> "INVALID_PAGE",
   next_page_id    |-> 0,
   prev_page_id    |-> 0,
   free_space_ptr  |-> 0,
   tuple_start_ptr |-> 0,
   slots           |-> <<>>]

\* The subtraction and the sum are unsigned.
AvailSpace(pg) == (pg.tuple_start_ptr - pg.free_space_ptr) % Word

\* Mutation: the slot is not counted.
SpaceOfTuple(t) == t.size

RequiredSpace(t) == (t.size + SLOT_SIZE) % Word
HasRoom(pg, t) == RequiredSpace(t) <= AvailSpace(pg)

\* Mutation: tuple_start_ptr stays where it was.
PutTupleAgain(pg, t) ==
  [pg EXCEPT
     !.slots = Append(@, [tuple_offset |-> pg.tuple_start_ptr - t.size,
                          tuple_length |-> t.size,
                          is_live |-> TRUE, tuple |-> t]),
     !.free_space_ptr = @ + SLOT_SIZE]

\* Mutation: the tuple ends where free space starts.
PutTupleBelow(pg, t) ==
  LET start == pg.free_space_ptr - t.size
  IN  [pg EXCEPT
         !.slots = Append(@, [tuple_offset |-> start, tuple_length |-> t.size,
                              is_live |-> TRUE, tuple |-> t]),
         !.free_space_ptr = @ + SLOT_SIZE]

PutTuple(pg, t) ==
  LET start == (pg.tuple_start_ptr - t.size) % Word
  IN  [pg EXCEPT
         !.slots = Append(@, [tuple_offset |-> start, tuple_length |-> t.size,
                              is_live |-> TRUE, tuple |-> t]),
         !.free_space_ptr = @ + SLOT_SIZE,
         !.tuple_start_ptr = start]

\* GetSlotDirectory is null beyond num_slots; slots count from 1 here.
IsLive(pg, i) == i \in DOMAIN pg.slots /\ pg.slots[i].is_live
LiveSlots(pg) == {i \in DOMAIN pg.slots : pg.slots[i].is_live}

\* Mutation: the slot is taken out of the directory.
TakeOut(pg, i) ==
  [pg EXCEPT !.slots = SubSeq(@, 1, i - 1) \o SubSeq(@, i + 1, Len(@))]

MarkDead(pg, i) == [pg EXCEPT !.slots[i].is_live = FALSE]
Overwrite(pg, i, t) == [pg EXCEPT !.slots[i].tuple = t]

-----------------------------------------------------------------------------
\* The layout page.h draws: the slot directory ends where free space starts,
\* the tuples start where it ends, and every tuple lies in a stretch of the
\* page that neither the directory nor another tuple reaches.
WellFormed(pg) ==
  /\ pg.free_space_ptr = HEADER_SIZE + SLOT_SIZE * Len(pg.slots)
  /\ pg.free_space_ptr <= pg.tuple_start_ptr
  /\ pg.tuple_start_ptr <= PAGE_SIZE
  /\ \A i \in DOMAIN pg.slots :
       /\ pg.tuple_start_ptr <= pg.slots[i].tuple_offset
       /\ pg.slots[i].tuple_offset + pg.slots[i].tuple_length <= PAGE_SIZE
       /\ pg.slots[i].tuple.size <= pg.slots[i].tuple_length
  /\ \A i, j \in DOMAIN pg.slots :
       i < j => pg.slots[j].tuple_offset + pg.slots[j].tuple_length
                  <= pg.slots[i].tuple_offset
=============================================================================
