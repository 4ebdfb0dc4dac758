------------------------------ MODULE PageFill ------------------------------
(***************************************************************************)
(* The life of one table page: what TableHeap does to its bytes between    *)
(* Page::NewPage and whatever comes, for the layout's real sizes.          *)
(***************************************************************************)
EXTENDS SlottedPage

CONSTANT Tuples   \* tuples callers insert, records with a `size'

ASSUME TuplesAssumption == \A t \in Tuples : t.size \in 1 .. Word - 1

VARIABLE page

Init == page = EmptyPage

\* InsertTuple stops at this page because it has room or because it is new; a
\* new page is not asked for room.
Insert(t) ==
  /\ HasRoom(page, t) \/ page.slots = <<>>
  /\ page' = PutTuple(page, t)

Delete(i) ==
  /\ IsLive(page, i)
  /\ page' = MarkDead(page, i)

\* UpdateTuple copies a tuple of the same size over the old one.
UpdateInPlace(i, t) ==
  /\ IsLive(page, i)
  /\ page.slots[i].tuple.size = t.size
  /\ page' = Overwrite(page, i, t)

Next ==
  \/ \E t \in Tuples : Insert(t)
  \/ \E i \in DOMAIN page.slots : Delete(i)
  \/ \E i \in DOMAIN page.slots, t \in Tuples : UpdateInPlace(i, t)

Spec == Init /\ [][Next]_page

-----------------------------------------------------------------------------
\* The type invariant.
TypeOK == page \in PageOf(Int, Tuples)

\* Tuples never overlap each other, the slot directory or the page's end.
LayoutHolds == WellFormed(page)

\* A slot keeps its place and its length for good, so that a row id means the
\* same row until the row is deleted, and a deleted row stays deleted.
SlotsAreStable ==
  [][\A i \in DOMAIN page.slots :
       /\ i \in DOMAIN page'.slots
       /\ page'.slots[i].tuple_offset = page.slots[i].tuple_offset
       /\ page'.slots[i].tuple_length = page.slots[i].tuple_length
       /\ page'.slots[i].is_live => page.slots[i].is_live]_page
=============================================================================
