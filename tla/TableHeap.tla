----------------------------- MODULE TableHeap -----------------------------
(***************************************************************************)
(* src/table/table_heap.cpp over the buffer pool.                          *)
(*                                                                         *)
(* A call of TableHeap is a sequence of steps, one for each call it makes  *)
(* of the buffer pool, so that every fetch may evict and the process may   *)
(* die between any two.  `op' is the call in progress with its locals.     *)
(* `rows' is a ghost: the rows whose insertion was acknowledged and that   *)
(* no acknowledged deletion removed.                                       *)
(***************************************************************************)
EXTENDS SlottedPage, FiniteSets

CONSTANTS
  Heap,          \* table heaps sharing the pool
  Tuples,        \* tuples callers insert, records with a `size'
  LastPage, FIRST_USABLE_PAGE_ID, NoFrame, PoolSize, WriteMayFail,
  MayModify,     \* callers delete and update rows
  MayCrash       \* the process may die

VARIABLES
  disk, file_pages, next_page_id, failbit, pages, lru_list, unwritten, mode,
  first_page,    \* first_page_id_ of every heap
  op,            \* the call in progress
  result,        \* what the last call returned
  rows,          \* ghost: the rows to account for
  faulted        \* ghost: a write failed since the file was last recovered

poolVars == <<disk, file_pages, next_page_id, failbit,
              pages, lru_list, unwritten, mode>>
heapVars == <<first_page, op, result, rows, faulted>>
vars == <<poolVars, heapVars>>

Link == (0 .. LastPage) \cup {NoPage}
TablePage == PageOf(Link, Tuples)

ASSUME HeapAssumption ==
  /\ LastPage \in Nat /\ FIRST_USABLE_PAGE_ID \in 0 .. LastPage
  /\ PoolSize \in Nat \ {0}
  /\ \A t \in Tuples : t.size \in 1 .. Word - 1
  /\ NoFrame \notin [data : TablePage \cup {ZeroedPage}, dirty : BOOLEAN]

BPM == INSTANCE BufferPool WITH
  Data <- TablePage \ {EmptyPage},
  Fresh <- EmptyPage,
  Void <- ZeroedPage,
  ZeroPage <- [data |-> ZeroedPage, dirty |-> FALSE],
  MayDelete <- FALSE

PageId == BPM!PageId
Cached(p) == BPM!Cached(p)
Page(p) == pages[p].data

Idle == [step |-> "idle"]

Init ==
  /\ BPM!Init
  /\ first_page = [h \in Heap |-> NoPage]
  /\ op = Idle
  /\ result = "none"
  /\ rows = [h \in Heap |-> {}]
  /\ faulted = FALSE

-----------------------------------------------------------------------------
(* Shape of every call.                                                    *)

Ready(h) == mode = "open" /\ op = Idle /\ first_page[h] # NoPage

\* FetchPage, whether it returned a page, and the page it returned.
Fetch(p) == BPM!FetchHit(p) \/ BPM!FetchMiss(p)
Fetched(p) == pages'[p] # NoFrame
PageRead(p) == pages'[p].data

Return(r) == op' = Idle /\ result' = r

Goto(step) == op' = [op EXCEPT !.step = step] /\ UNCHANGED result

Row(p, i, t) == [page |-> p, slot |-> i, tuple |-> t]

\* A new table gets its first page from CreateTable.
CreateHeap(h) ==
  /\ mode = "open" /\ op = Idle /\ first_page[h] = NoPage
  /\ \E p \in PageId :
       BPM!NewPage(p) /\ first_page' = [first_page EXCEPT ![h] = p]
  /\ UNCHANGED <<op, result, rows, faulted>>

-----------------------------------------------------------------------------
(* InsertTuple                                                             *)

\* Bound: there is a page left should the walk need a new one.
SpaceLeft == next_page_id <= LastPage

\* Locals of InsertTuple; `replaces' is the row UpdateTuple deletes after it.
InsertCall(h, t, replaces) ==
  [step |-> "walk", heap |-> h, tuple |-> t, replaces |-> replaces,
   page |-> first_page[h], prev |-> NoPage]

Insert(h, t) ==
  /\ Ready(h)
  /\ SpaceLeft
  /\ op' = InsertCall(h, t, {})
  /\ result' = "none"
  /\ UNCHANGED <<poolVars, first_page, rows, faulted>>

WalkPage ==
  /\ op.step = "walk" /\ op.page # NoPage
  /\ Fetch(op.page)
  /\ \/ ~Fetched(op.page) /\ Return("refused")
     \/ /\ Fetched(op.page)
        /\ IF HasRoom(PageRead(op.page), op.tuple) THEN Goto("put")
           ELSE /\ op' = [op EXCEPT !.prev = op.page,
                                    !.page = PageRead(op.page).next_page_id]
                /\ UNCHANGED result
  /\ UNCHANGED <<first_page, rows, faulted>>

\* The chain has ended: a new page, pushed to the front of the pool.
ExtendChain ==
  /\ op.step = "walk" /\ op.page = NoPage
  /\ \E p \in PageId :
       /\ BPM!NewPage(p)
       /\ op' = [op EXCEPT !.step = "fetchPrev", !.page = p]
  /\ UNCHANGED <<first_page, result, rows, faulted>>

\* A failed fetch here dereferences a null pointer.
FetchPrev ==
  /\ op.step = "fetchPrev"
  /\ Fetch(op.prev)
  /\ Goto(IF Fetched(op.prev) THEN "link" ELSE "segv")
  /\ UNCHANGED <<first_page, rows, faulted>>

\* Mutation: the page is linked to itself.
LinkToSelf ==
  /\ op.step = "link"
  /\ BPM!Write(op.prev, [Page(op.prev) EXCEPT !.next_page_id = op.prev])
  /\ Goto("put")
  /\ UNCHANGED <<first_page, rows, faulted>>

\* Both links are set; only the page of the first is marked dirty here.
LinkPrev ==
  /\ op.step = "link"
  /\ BPM!Write(op.prev, [Page(op.prev) EXCEPT !.next_page_id = op.page])
  /\ Goto("put")
  /\ UNCHANGED <<first_page, rows, faulted>>

IsNewPage == op.prev # NoPage /\ Page(op.page).slots = <<>>

\* The space check is not repeated on a new page.
Put ==
  /\ op.step = "put"
  /\ LET pg == IF IsNewPage THEN [Page(op.page) EXCEPT !.prev_page_id = op.prev]
               ELSE Page(op.page)
     IN  BPM!Write(op.page, PutTuple(pg, op.tuple))
  /\ Goto("flush")
  /\ UNCHANGED <<first_page, rows, faulted>>

\* What FlushPage returns is ignored.
FlushRow ==
  /\ op.step = "flush"
  /\ \/ BPM!FlushPage(op.page) /\ UNCHANGED faulted
     \/ BPM!FlushFails /\ faulted' = TRUE
  /\ Goto("ack")
  /\ UNCHANGED <<first_page, rows>>

\* The row an insertion has put down.
NewRow == Row(op.page, Len(Page(op.page).slots), op.tuple)

\* InsertTuple returns true, to its caller or to UpdateTuple, which goes on.
Acknowledge ==
  /\ op.step = "ack"
  /\ rows' = [rows EXCEPT ![op.heap] = @ \cup {NewRow}]
  /\ \/ op.replaces = {} /\ Return("done")
     \/ \E r \in op.replaces :
          /\ op' = [step |-> "fetchVictim", heap |-> op.heap, row |-> r]
          /\ UNCHANGED result
  /\ UNCHANGED <<poolVars, first_page, faulted>>

-----------------------------------------------------------------------------
(* DeleteTuple                                                             *)

Delete(h, r) ==
  /\ MayModify
  /\ Ready(h)
  /\ op' = [step |-> "fetchVictim", heap |-> h, row |-> r]
  /\ result' = "none"
  /\ UNCHANGED <<poolVars, first_page, rows, faulted>>

FetchVictim ==
  /\ op.step = "fetchVictim"
  /\ Fetch(op.row.page)
  /\ \/ /\ Fetched(op.row.page) /\ IsLive(PageRead(op.row.page), op.row.slot)
        /\ Goto("kill")
     \/ /\ ~(Fetched(op.row.page) /\ IsLive(PageRead(op.row.page), op.row.slot))
        /\ Return("refused")
  /\ UNCHANGED <<first_page, rows, faulted>>

\* The slot changes in memory and SetDirtyPage is not called.
Kill ==
  /\ op.step = "kill"
  /\ Cached(op.row.page)
  /\ pages' = [pages EXCEPT ![op.row.page].data = MarkDead(@, op.row.slot)]
  /\ rows' = [rows EXCEPT ![op.heap] = @ \ {op.row}]
  /\ Return("done")
  /\ UNCHANGED <<disk, file_pages, next_page_id, failbit, lru_list, unwritten,
                 mode, first_page, faulted>>

-----------------------------------------------------------------------------
(* UpdateTuple: in place, or by inserting the new row and then deleting.   *)

Update(h, r, t) ==
  /\ MayModify
  /\ Ready(h)
  /\ SpaceLeft
  /\ op' = [step |-> "fetchOld", heap |-> h, row |-> r, tuple |-> t]
  /\ result' = "none"
  /\ UNCHANGED <<poolVars, first_page, rows, faulted>>

FetchOld ==
  /\ op.step = "fetchOld"
  /\ Fetch(op.row.page)
  /\ LET found == /\ Fetched(op.row.page)
                  /\ IsLive(PageRead(op.row.page), op.row.slot)
     IN  \/ ~found /\ Return("refused")
         \/ /\ found
            /\ IF PageRead(op.row.page).slots[op.row.slot].tuple.size = op.tuple.size
               THEN Goto("overwrite")
               ELSE /\ op' = InsertCall(op.heap, op.tuple, {op.row})
                    /\ UNCHANGED result
  /\ UNCHANGED <<first_page, rows, faulted>>

\* Marked dirty, not flushed.
OverwriteRow ==
  /\ op.step = "overwrite"
  /\ BPM!Write(op.row.page, Overwrite(Page(op.row.page), op.row.slot, op.tuple))
  /\ rows' = [rows EXCEPT ![op.heap] =
                (@ \ {op.row}) \cup {Row(op.row.page, op.row.slot, op.tuple)}]
  /\ Return("done")
  /\ UNCHANGED <<first_page, faulted>>

-----------------------------------------------------------------------------
(* begin() and operator++ as SeqScan drives them; `seen' is what it emits. *)

Scan(h) ==
  /\ Ready(h)
  /\ op' = [step |-> "begin", heap |-> h, page |-> first_page[h], slot |-> 0,
            seen |-> <<>>]
  /\ result' = "none"
  /\ UNCHANGED <<poolVars, first_page, rows, faulted>>

\* Mutation: one slot is skipped.
LiveAfterNext(pg, i) == {j \in LiveSlots(pg) : j > i + 1}

\* First live slot after i, once the page of p has been fetched.
LiveAfter(pg, i) == {j \in LiveSlots(pg) : j > i}
FirstOf(S) == CHOOSE i \in S : \A j \in S : i <= j

Emit(p, i) ==
  op' = [op EXCEPT !.step = "advance", !.page = p, !.slot = i,
                   !.seen = Append(@, Row(p, i, PageRead(p).slots[i].tuple))]

\* A page without a live row ends the scan, except the page it advances from;
\* so does a fetch that fails.
ScanPage ==
  /\ op.step \in {"begin", "advance", "nextPage"}
  /\ Fetch(op.page)
  /\ IF ~Fetched(op.page) THEN Goto("scanned")
     ELSE LET live == LiveAfter(PageRead(op.page), op.slot)
              next == PageRead(op.page).next_page_id
          IN  \/ /\ live # {}
                 /\ Emit(op.page, FirstOf(live))
                 /\ UNCHANGED result
              \/ /\ live = {} /\ op.step = "advance" /\ next # NoPage
                 /\ op' = [op EXCEPT !.step = "nextPage", !.page = next, !.slot = 0]
                 /\ UNCHANGED result
              \/ /\ live = {} /\ (op.step # "advance" \/ next = NoPage)
                 /\ Goto("scanned")
  /\ UNCHANGED <<first_page, rows, faulted>>

EndScan ==
  /\ op.step = "scanned"
  /\ Return("done")
  /\ UNCHANGED <<poolVars, first_page, rows, faulted>>

-----------------------------------------------------------------------------
(* A write the disk refuses throws out of the call, except in FlushPage.   *)

Throws ==
  /\ \/ /\ op.step = "walk" /\ op.page = NoPage
        /\ BPM!NewPageFails
     \/ /\ \/ op.step \in {"walk", "begin", "advance", "nextPage"}
              /\ op.page # NoPage /\ ~Cached(op.page)
           \/ op.step = "fetchPrev" /\ ~Cached(op.prev)
           \/ op.step \in {"fetchVictim", "fetchOld"} /\ ~Cached(op.row.page)
        /\ BPM!EvictionFails
  /\ Return("threw")
  /\ faulted' = TRUE
  /\ UNCHANGED <<first_page, rows>>

-----------------------------------------------------------------------------
(* Rows the file holds for a heap, along its chain.                        *)

\* A set of pages with those that its pages name as the next.
Onward(S, at) == S \cup ({at[p].next_page_id : p \in S} \ {NoPage})

\* The pages reached from page p, in view `at' of the pages' contents.
From(p, at) ==
  LET reached[S \in SUBSET PageId] ==
        IF Onward(S, at) = S THEN S ELSE reached[Onward(S, at)]
  IN  PageId \cap reached[{p} \ {NoPage}]

Chain(h, at) == From(first_page[h], at)

RowsOf(h, at) ==
  UNION {{Row(p, i, at[p].slots[i].tuple) : i \in LiveSlots(at[p])} :
           p \in Chain(h, at)}

View == BPM!StoreView
DiskRows(h) == RowsOf(h, BPM!StableView)

-----------------------------------------------------------------------------
(* Close, crash, reopen.                                                   *)

Close ==
  /\ op = Idle
  /\ \/ BPM!BeginClose /\ UNCHANGED faulted
     \/ \E p \in PageId : BPM!FlushOne(p) /\ UNCHANGED faulted
     \/ BPM!FlushAllFails /\ faulted' = TRUE
     \/ BPM!EndClose /\ UNCHANGED faulted
  /\ UNCHANGED <<first_page, op, result, rows>>

\* After a crash the rows to account for are those the file still holds.
Crash ==
  /\ MayCrash \/ op.step = "segv"
  /\ BPM!Crash
  /\ rows' = [h \in Heap |-> DiskRows(h)]
  /\ faulted' = FALSE
  /\ op' = Idle
  /\ result' = "none"
  /\ UNCHANGED first_page

Reopen ==
  /\ BPM!Open
  /\ UNCHANGED heapVars

-----------------------------------------------------------------------------
Next ==
  \/ \E h \in Heap :
       \/ CreateHeap(h)
       \/ Scan(h)
       \/ \E t \in Tuples : Insert(h, t)
       \/ \E r \in rows[h] : Delete(h, r)
       \/ \E r \in rows[h], t \in Tuples : Update(h, r, t)
  \/ WalkPage
  \/ ExtendChain
  \/ FetchPrev
  \/ LinkPrev
  \/ Put
  \/ FlushRow
  \/ Acknowledge
  \/ FetchVictim
  \/ Kill
  \/ FetchOld
  \/ OverwriteRow
  \/ ScanPage
  \/ EndScan
  \/ Throws
  \/ Close
  \/ Crash
  \/ Reopen

Spec == Init /\ [][Next]_vars

\* A call of the heap is a loop that runs to its end.
Running ==
  \/ WalkPage \/ ExtendChain \/ FetchPrev \/ LinkPrev \/ Put \/ FlushRow
  \/ Acknowledge \/ FetchVictim \/ Kill \/ FetchOld \/ OverwriteRow \/ ScanPage \/ EndScan
  \/ Throws
FairSpec == Spec /\ WF_vars(Running)

-----------------------------------------------------------------------------
(* Properties                                                              *)

\* The type invariant of the heaps' own variables; the pool's are BufferPool's.
TypeOK ==
  /\ first_page \in [Heap -> Link]
  /\ result \in {"none", "done", "refused", "threw"}
  /\ DOMAIN rows = Heap
  /\ op.step \in {"idle", "walk", "fetchPrev", "link", "put", "flush", "ack", "segv",
                  "fetchVictim", "kill", "fetchOld", "overwrite",
                  "begin", "advance", "nextPage", "scanned"}

\* No pin protects a page, so this does: the frames a call of the heap still
\* has pointers to when it writes to them are resident.  InsertTuple holds the
\* new page while it fetches its predecessor; that fetch is always a hit,
\* whatever the pool's size, since NewPage() evicts nothing.
HeldPagesAreResident ==
  /\ op.step = "fetchPrev" => Cached(op.prev)
  /\ op.step \in {"put", "flush", "ack", "fetchPrev", "link"} => Cached(op.page)
  /\ op.step = "link" => Cached(op.prev)
  /\ op.step \in {"kill", "overwrite"} => Cached(op.row.page)

\* Every page of a heap keeps the layout of page.h, in memory and on disk.
PagesWellFormed ==
  \A p \in PageId : \A pg \in {View[p], disk[p].data} :
    pg.page_type = "TABLE_PAGE" => WellFormed(pg)

\* The heaps' chains never meet, and never leave the pages that exist, in the
\* file alone as well as in the running process: what a crash leaves can be
\* walked.
ChainsAreSound ==
  \A at \in {View, BPM!StableView} :
    /\ \A h \in Heap : \A p \in Chain(h, at) : at[p].page_type = "TABLE_PAGE"
    /\ \A p \in PageId : at[p].page_type = "TABLE_PAGE" =>
         /\ at[p].next_page_id # NoPage => p < at[p].next_page_id
         /\ at[p].next_page_id < file_pages
    /\ \A g, h \in Heap : g # h => Chain(g, at) \cap Chain(h, at) = {}
    /\ \A p, q \in PageId :
         /\ at[p].page_type = "TABLE_PAGE" /\ at[q].page_type = "TABLE_PAGE"
         /\ at[p].next_page_id = at[q].next_page_id /\ at[p].next_page_id # NoPage
         => p = q

\* While rows are only inserted, the heaps are tables that grow row by row:
\* no fetch, eviction, flush, extension of a chain or allocation for another
\* heap adds, moves or takes a row, whatever a crash leaves is a part of what
\* was there, and an orderly close leaves all of it.
Abstract == INSTANCE RowHeap WITH
  contents <- [h \in Heap |-> RowsOf(h, View)],
  stable <- [h \in Heap |-> DiskRows(h)],
  status <- BPM!StatusView,
  faulty <- faulted
ImplementsRowHeap == Abstract!Spec

\* A scan emits every row of its heap once, whatever its fetches evict.
ScanIsComplete ==
  op.step = "scanned" /\ ~faulted =>
    /\ {op.seen[i] : i \in DOMAIN op.seen} = rows[op.heap]
    /\ Len(op.seen) = Cardinality(rows[op.heap])

\* The force policy: the bytes of an acknowledged row are in its page in the
\* file at once, whether or not the page can be reached.
AckedRowsAreForced ==
  ~faulted => \A h \in Heap : \A r \in rows[h] :
    LET pg == disk[r.page].data
    IN  IsLive(pg, r.slot) /\ pg.slots[r.slot].tuple = r.tuple

\* Without write errors a heap refuses no row.
InsertsSucceed ==
  [][op.step = "walk" /\ ~faulted => result' # "refused"]_vars

\* A crash may cut pages off the end of a heap, since the link to a page is not
\* forced; on the pages that stay, every acknowledged row is there, and of the
\* others none but the one whose insertion had forced its page and was to
\* return true.
CrashKeepsPrefix ==
  [][mode # "crashed" /\ mode' = "crashed" /\ ~faulted =>
       \A h \in Heap :
         LET kept == {r \in rows[h] : r.page \in Chain(h, BPM!StableView)}
         IN  /\ kept \subseteq rows'[h]
             /\ \A r \in rows'[h] \ kept :
                  op.step = "ack" /\ op.heap = h /\ r = NewRow]_vars

\* Unless a write failed, deleting and updating rows loses no other row.
RowsAreKept ==
  op = Idle /\ mode = "open" /\ ~faulted =>
    \A h \in Heap : rows[h] \subseteq RowsOf(h, View)

\* Every call returns, unless the process dies or the database is closed.
CallsReturn == op # Idle ~> op = Idle

\* table_heap.h:52: DeleteTuple "marks the tuple as deleted", and
\* buffer_pool.h:30: what was modified "must be written back to disk before
\* eviction".  A deleted row does not come back.
DeletedRowsStayDeleted ==
  op = Idle /\ mode = "open" => \A h \in Heap : RowsOf(h, View) \subseteq rows[h]
=============================================================================
