----------------------------- MODULE BufferPool -----------------------------
(***************************************************************************)
(* src/buffer/buffer_pool.cpp over src/storage/disk_manager.cpp.           *)
(*                                                                         *)
(* One action per call of BufferPoolManager; the program is single-        *)
(* threaded, so a call is a step, except that the process may die between  *)
(* the writes of a close.  Write stands for a caller that modifies a page  *)
(* through the pointer it holds and marks it with SetDirtyPage.  A frame   *)
(* is the image of a page: its contents and the is_dirty flag of its       *)
(* header, which travels to the disk and back with the rest of the page.   *)
(***************************************************************************)
EXTENDS DiskManager, Sequences

CONSTANTS
  Data,           \* contents a caller can give a page
  Fresh,          \* contents of a page Page::NewPage has formatted
  Void,           \* contents of a zero-filled page
  NoFrame,        \* entry of a page that is not resident
  PoolSize,       \* MAX_BUFFER_POOL_SIZE
  WriteMayFail,   \* the operating system may refuse a write
  MayDelete       \* somebody calls DeletePage (nobody in src/ does)

ASSUME BufferPoolAssumption ==
  /\ PoolSize \in Nat \ {0}
  /\ Fresh # Void
  /\ Fresh \notin Data
  /\ Void \notin Data
  /\ WriteMayFail \in BOOLEAN
  /\ MayDelete \in BOOLEAN

Contents == Data \cup {Fresh, Void}
Frame == [data : Contents, dirty : BOOLEAN]

ASSUME ImageAssumption ==
  /\ ZeroPage = [data |-> Void, dirty |-> FALSE]
  /\ NoFrame \notin Frame

VARIABLES
  pages,       \* pages_: page id -> frame, NoFrame when not resident
  lru_list,    \* lru_list_: ids of the resident pages, most recent first
  unwritten,   \* system pages NewPage(id) formatted and no caller wrote yet
  mode         \* "open", "closing" (inside Close), "closed" or "crashed"

poolVars == <<pages, lru_list, unwritten>>
vars == <<disk, file_pages, next_page_id, failbit,
          pages, lru_list, unwritten, mode>>

Cached(p) == pages[p] # NoFrame
Dirty(p) == Cached(p) /\ pages[p].dirty

Init ==
  /\ DiskInit
  /\ pages = [p \in PageId |-> NoFrame]
  /\ lru_list = <<>>
  /\ unwritten = {}
  /\ mode = "open"

-----------------------------------------------------------------------------
(* Helpers on the list and on eviction.                                    *)

IndexOf(p) == CHOOSE i \in DOMAIN lru_list : lru_list[i] = p

\* Mutation: the list is not touched.
NotRemoved(p) == lru_list

\* lru_list_.remove
Removed(p) ==
  SubSeq(lru_list, 1, IndexOf(p) - 1)
    \o SubSeq(lru_list, IndexOf(p) + 1, Len(lru_list))

\* Mutation: one page more than there is room for.
FullTooLate == Len(lru_list) > PoolSize

Full == Len(lru_list) >= PoolSize

\* The page that leaves to make room, if the pool is full: the list's back.
Victim == IF Full THEN lru_list[Len(lru_list)] ELSE INVALID_PAGE_ID
ListWithoutVictim ==
  IF Full THEN SubSeq(lru_list, 1, Len(lru_list) - 1) ELSE lru_list

\* Mutation: victims are never written back.
NeverWrittenBack == INVALID_PAGE_ID

\* The page that is written back before it leaves, if it is dirty.
WrittenBack ==
  IF Full /\ Dirty(Victim) THEN Victim ELSE INVALID_PAGE_ID

DiskAfterEviction ==
  IF WrittenBack = INVALID_PAGE_ID THEN disk
  ELSE DiskAfter(WrittenBack, pages[WrittenBack])

-----------------------------------------------------------------------------
(* FetchPage                                                               *)

FetchHit(p) ==
  /\ mode = "open"
  /\ unwritten \subseteq {p}
  /\ Cached(p)
  /\ lru_list' = <<p>> \o Removed(p)
  /\ UNCHANGED <<disk, file_pages, next_page_id, failbit,
                 pages, unwritten, mode>>

\* The victim has left by the time the read is found to fail.
FetchMiss(p) ==
  /\ mode = "open"
  /\ unwritten = {}
  /\ ~Cached(p)
  /\ disk' = DiskAfterEviction
  /\ file_pages' = FilePagesAfter(WrittenBack)
  /\ failbit' = FailbitAfterRead(p, WrittenBack)
  /\ pages' = [q \in PageId |->
                 IF q = p /\ Readable(p, WrittenBack) THEN DiskAfterEviction[p]
                 ELSE IF q = Victim THEN NoFrame ELSE pages[q]]
  /\ lru_list' = IF Readable(p, WrittenBack)
                 THEN <<p>> \o ListWithoutVictim
                 ELSE ListWithoutVictim
  /\ UNCHANGED <<next_page_id, unwritten, mode>>

\* The write-back throws after the victim was erased: its contents are gone.
EvictionFails ==
  /\ mode = "open"
  /\ unwritten = {}
  /\ WriteMayFail
  /\ WrittenBack # INVALID_PAGE_ID
  /\ WriteError
  /\ pages' = [pages EXCEPT ![Victim] = NoFrame]
  /\ lru_list' = ListWithoutVictim
  /\ UNCHANGED <<next_page_id, unwritten, mode>>

-----------------------------------------------------------------------------
(* A caller writes to a page it fetched and calls SetDirtyPage(id, true).  *)

\* Mutation: the page is not marked, as in DeleteTuple.
WriteUnmarked(p, d) ==
  /\ mode = "open"
  /\ unwritten \subseteq {p}
  /\ Cached(p)
  /\ pages' = [pages EXCEPT ![p].data = d]
  /\ unwritten' = {}
  /\ UNCHANGED <<disk, file_pages, next_page_id, failbit, lru_list, mode>>

Write(p, d) ==
  /\ mode = "open"
  /\ unwritten \subseteq {p}
  /\ Cached(p)
  /\ pages' = [pages EXCEPT ![p] = [data |-> d, dirty |-> TRUE]]
  /\ unwritten' = {}
  /\ UNCHANGED <<disk, file_pages, next_page_id, failbit, lru_list, mode>>

-----------------------------------------------------------------------------
(* FlushPage: the image goes out while its own is_dirty is still set.      *)

\* Mutation: the write is left to eviction.
FlushPageLater(p) ==
  /\ mode = "open"
  /\ unwritten = {}
  /\ Dirty(p)
  /\ UNCHANGED vars

FlushPage(p) ==
  /\ mode = "open"
  /\ unwritten = {}
  /\ Dirty(p)
  /\ WritePage(p, pages[p])
  /\ pages' = [pages EXCEPT ![p].dirty = FALSE]
  /\ UNCHANGED <<next_page_id, lru_list, unwritten, mode>>

FlushFails ==
  /\ mode = "open"
  /\ unwritten = {}
  /\ WriteMayFail
  /\ \E p \in PageId : Dirty(p)
  /\ WriteError
  /\ UNCHANGED <<next_page_id, pages, lru_list, unwritten, mode>>

-----------------------------------------------------------------------------
(* NewPage(): allocates, writes the empty page at once, evicts nothing.    *)

\* Mutation: NewPage() makes room, as the other calls do.
NewPageEvicts(p) ==
  /\ mode = "open"
  /\ unwritten = {}
  /\ p = next_page_id
  /\ next_page_id' = next_page_id + 1
  /\ disk' = [DiskAfterEviction EXCEPT ![p] = [data |-> Fresh, dirty |-> FALSE]]
  /\ file_pages' = FilePagesAfter(p)
  /\ failbit' = FALSE
  /\ pages' = [q \in PageId |->
                 IF q = p THEN [data |-> Fresh, dirty |-> FALSE]
                 ELSE IF q = Victim THEN NoFrame ELSE pages[q]]
  /\ lru_list' = <<p>> \o ListWithoutVictim
  /\ UNCHANGED <<unwritten, mode>>

NewPage(p) ==
  /\ mode = "open"
  /\ unwritten = {}
  /\ p = next_page_id            \* bound: p \in PageId
  /\ next_page_id' = next_page_id + 1
  /\ disk' = DiskAfter(p, [data |-> Fresh, dirty |-> FALSE])
  /\ file_pages' = FilePagesAfter(p)
  /\ failbit' = FALSE
  /\ pages' = [pages EXCEPT ![p] = [data |-> Fresh, dirty |-> FALSE]]
  /\ lru_list' = <<p>> \o lru_list
  /\ UNCHANGED <<unwritten, mode>>

\* The id stays allocated when the write throws.
NewPageFails ==
  /\ mode = "open"
  /\ unwritten = {}
  /\ WriteMayFail
  /\ next_page_id \in PageId
  /\ next_page_id' = next_page_id + 1
  /\ WriteError
  /\ UNCHANGED <<pages, lru_list, unwritten, mode>>

\* NewPage(id): only the catalog calls it, on a database that has no such
\* page, and its next call writes to the page.
NewPageAt(p) ==
  /\ mode = "open"
  /\ unwritten = {}
  /\ p < FIRST_USABLE_PAGE_ID
  /\ p >= FilePagesAfter(WrittenBack)
  /\ ~Cached(p)
  /\ disk' = DiskAfterEviction
  /\ file_pages' = FilePagesAfter(WrittenBack)
  /\ failbit' = FailbitAfter(WrittenBack)
  /\ pages' = [q \in PageId |->
                 IF q = p THEN [data |-> Fresh, dirty |-> FALSE]
                 ELSE IF q = Victim THEN NoFrame ELSE pages[q]]
  /\ lru_list' = <<p>> \o ListWithoutVictim
  /\ unwritten' = {p}
  /\ UNCHANGED <<next_page_id, mode>>

-----------------------------------------------------------------------------
(* DeletePage drops the frame, dirty or not; DeallocatePage does nothing.  *)

DeletePage(p) ==
  /\ mode = "open"
  /\ unwritten = {}
  /\ MayDelete
  /\ Cached(p)
  /\ pages' = [pages EXCEPT ![p] = NoFrame]
  /\ lru_list' = Removed(p)
  /\ UNCHANGED <<disk, file_pages, next_page_id, failbit, unwritten, mode>>

-----------------------------------------------------------------------------
(* Close: FlushAllPages, one write per step in the order of an unordered   *)
(* map, then the destructor; a failed write abandons the close.            *)

BeginClose ==
  /\ mode = "open"
  /\ unwritten = {}
  /\ mode' = "closing"
  /\ UNCHANGED <<disk, file_pages, next_page_id, failbit,
                 pages, lru_list, unwritten>>

FlushOne(p) ==
  /\ mode = "closing"
  /\ Dirty(p)
  /\ WritePage(p, pages[p])
  /\ pages' = [pages EXCEPT ![p].dirty = FALSE]
  /\ UNCHANGED <<next_page_id, lru_list, unwritten, mode>>

FlushAllFails ==
  /\ mode = "closing"
  /\ WriteMayFail
  /\ \E p \in PageId : Dirty(p)
  /\ WriteError
  /\ mode' = "open"
  /\ UNCHANGED <<next_page_id, pages, lru_list, unwritten>>

EmptyPool ==
  /\ pages' = [p \in PageId |-> NoFrame]
  /\ lru_list' = <<>>
  /\ unwritten' = {}

\* Mutation: the pool is destroyed before every dirty page is written.
EndCloseEarly ==
  /\ mode = "closing"
  /\ EmptyPool
  /\ mode' = "closed"
  /\ UNCHANGED <<disk, file_pages, next_page_id, failbit>>

EndClose ==
  /\ mode = "closing"
  /\ \A p \in PageId : ~Dirty(p)
  /\ EmptyPool
  /\ mode' = "closed"
  /\ UNCHANGED <<disk, file_pages, next_page_id, failbit>>

Crash ==
  /\ mode \in {"open", "closing"}
  /\ EmptyPool
  /\ mode' = "crashed"
  /\ UNCHANGED <<disk, file_pages, next_page_id, failbit>>

\* USE opens the file again with a new pool.
Open ==
  /\ mode \in {"closed", "crashed"}
  /\ OpenFile
  /\ mode' = "open"
  /\ UNCHANGED <<pages, lru_list, unwritten>>

-----------------------------------------------------------------------------
Next ==
  \/ \E p \in PageId :
       \/ FetchHit(p)
       \/ FetchMiss(p)
       \/ \E d \in Data : Write(p, d)
       \/ FlushPage(p)
       \/ NewPage(p)
       \/ NewPageAt(p)
       \/ DeletePage(p)
       \/ FlushOne(p)
  \/ EvictionFails
  \/ FlushFails
  \/ NewPageFails
  \/ BeginClose
  \/ FlushAllFails
  \/ EndClose
  \/ Crash
  \/ Open

Spec == Init /\ [][Next]_vars

-----------------------------------------------------------------------------
(* Properties                                                              *)

\* The type invariant.
TypeOK ==
  /\ disk \in [PageId -> Frame]
  /\ file_pages \in 0 .. LastPage + 1
  /\ next_page_id \in FIRST_USABLE_PAGE_ID .. LastPage + 1
  /\ failbit \in BOOLEAN
  /\ pages \in [PageId -> Frame \cup {NoFrame}]
  /\ lru_list \in Seq(PageId)
  /\ unwritten \in SUBSET PageId
  /\ mode \in {"open", "closing", "closed", "crashed"}

\* The replacement list and the page table describe the same pages: every
\* resident page can be chosen as a victim, exactly once, and no victim is a
\* page that already left (buffer_pool.cpp keeps them in two containers that
\* six functions update separately).
LruIsPages ==
  /\ \A i, j \in DOMAIN lru_list : lru_list[i] = lru_list[j] => i = j
  /\ {lru_list[i] : i \in DOMAIN lru_list} = {p \in PageId : Cached(p)}

\* A resident page that is not marked dirty can be dropped: the disk has the
\* same contents.  It is what makes it safe that FetchPage and the destructor
\* write back dirty victims only.
CleanMatchesDisk ==
  \A p \in PageId \ unwritten :
    Cached(p) /\ ~Dirty(p) => disk[p].data = pages[p].data

\* The frontier the constructor computes from the file's length, and that
\* AllocatePage moves, never hands out a page that is on disk or in memory.
NewIdsAreUnused ==
  \A p \in PageId : p >= next_page_id =>
    ~Cached(p) /\ p >= file_pages /\ disk[p] = ZeroPage

\* Only NewPage() takes the pool beyond its size, since it does not evict; no
\* other call does.
OnlyNewPageOverfills ==
  [][Len(lru_list') > PoolSize /\ Len(lru_list') > Len(lru_list)
       => \E p \in PageId : NewPage(p)]_vars

\* What else the invariance proofs need: the file has no data beyond its end,
\* a pool that is not open is empty, and the one page NewPage(id) formatted is
\* resident and of a pool that is open.
Strengthening ==
  /\ \A p \in PageId : p >= file_pages => disk[p] = ZeroPage
  /\ mode \in {"closed", "crashed"} => \A p \in PageId : ~Cached(p)
  /\ mode # "open" => unwritten = {}
  /\ \A p \in unwritten : Cached(p)

IInv ==
  TypeOK /\ LruIsPages /\ CleanMatchesDisk /\ NewIdsAreUnused /\ Strengthening

\* The pool behaves as a store without a cache: reads see the last write, an
\* orderly close keeps everything and a crash keeps what was written back.
StoreView ==
  [p \in PageId |-> IF Cached(p) THEN pages[p].data ELSE disk[p].data]
StableView == [p \in PageId |-> disk[p].data]
StatusView == IF mode \in {"open", "closing"} THEN "up" ELSE mode

Store == INSTANCE PageStore WITH
  Page <- PageId,
  MayDiscard <- WriteMayFail \/ MayDelete,
  store <- StoreView,
  stable <- StableView,
  status <- StatusView
ImplementsPageStore == Store!Spec
=============================================================================
