# venus-db in TLA+

TLA+ modules that model venus-db, TLC configurations that check them on small
instances, and TLAPS proofs of what holds for every instance.  Paths are those
of the repository: `src/` is its source directory, `docs/`, `README.md` and
`tests/` lie beside it.  `PROJECT.json` maps every definition to the lines it
translates.

venus-db is a single-threaded SQL shell over one file per database.  Nothing
runs concurrently, and `docs/notes.v1.md:16` leaves concurrency and ACID out.
What makes it hard is that everything is cached: any fetch may evict a page
some caller still has a pointer to, what is on disk when the process dies is
decided by who called `SetDirtyPage` and `FlushPage` in which order, and ids are
recomputed from what a restart finds.  The models are about that.

## 1. Inventory

| component | code | state | operations |
|---|---|---|---|
| disk manager | `src/storage/disk_manager.*` | the file, its length, `next_page_id_`, the failed state of the stream | open, `ReadPage`, `WritePage`, `AllocatePage`, `DeallocatePage` (does nothing) |
| buffer pool | `src/buffer/buffer_pool.*` | `pages_` (page table), `lru_list_`, `is_dirty` inside every page | `FetchPage`, `NewPage()`, `NewPage(id)`, `SetDirtyPage`, `FlushPage`, `FlushAllPages`, `DeletePage` |
| slotted page | `src/storage/page.h` | header, slot directory, tuples | `NewPage`, `GetSlotDirectory`, the arithmetic in the table heap |
| table heap | `src/table/table_heap.*` | `first_page_id_`, the chain of pages | `InsertTuple`, `DeleteTuple`, `UpdateTuple`, `GetTuple`, iterator |
| catalog | `src/catalog/catalog.*` | rows of `master_tables`, `master_columns`; next ids | boot, `CreateTable`, `DropTable`, `GetTableRef`, `GetTables`, `LoadMaxIds` |
| session | `src/network`, `src/engine`, `src/database`, `DatabaseOpExecutor` | line buffer, open database and the objects on it, executor, the files | USE, EXIT, CREATE/DROP DATABASE, end of input |
| query execution | `src/binder`, `src/planner`, `src/executor` | operator tree, cursor, output, collected rows | bind, plan, `Open`/`Next`/`Close`, the driver loop |
| parser | `src/parser/parser.*`, `ast.h` | text, tokens, position, tree | `tokenize`, `Parse` and its rules |
| tuples, schemas | `src/storage/tuple.*`, `src/catalog/schema.h`, `src/common/types.h` | bytes of a row, columns and offsets | conversion of literals, serialize, read at offsets, projection |
| index | `src/index` | none: the files are empty | none |
| printing, tests, build | `src/utils`, `tests`, `CMakeLists.txt` | none | output only |

### How they interact

```
network --callback--> engine: parser -> binder -> planner -> executor
   ^                    |                  |                    |
   | stop callback      | use callback     v                    v
   +---- database manager <---------    catalog -------> table heap
              |  creates and deletes                        |
              +----> disk manager <------ buffer pool <-----+
```

All arrows are calls.  Two of them go upwards: USE and EXIT are executed by the
engine and reach the `DatabaseManager` through callbacks, which delete or
replace the engine that is executing and the network that called it.  The
catalog keeps its tables in two table heaps, in the same pool as the users'.

### What is hard, and what makes it correct

* **Buffer pool.**  Table and list are two containers that six functions
  update; `is_dirty` is inside the page and goes to the file with it; a victim
  is erased before it is written.  Correct: the pool is a store without a cache.
* **Disk manager.**  The frontier is derived from the file's length, and a short
  read leaves the stream failed.  Correct: no page id is handed out twice.
* **Slotted page.**  Unsigned subtraction; two regions growing towards each
  other.  Correct: regions never meet, and slots never move.
* **Table heap.**  Pointers without pins, a new page whose predecessor is
  fetched again, a row forced to disk and a link that is not.  Correct:
  acknowledged rows are read, scanned, on disk, and only cut off at the end by a
  crash; no write goes through a pointer to a page that left.
* **Catalog.**  A CREATE TABLE is many insertions, restart recounts ids, and what
  becomes of a deletion depends on whether its page was marked before.  Correct: ids
  are new until a table is dropped, names unique until a deletion is forgotten, and a
  close or crash in between keeps what a lookup found.
* **Session.**  Objects deleted under the function that uses them, a `Close`
  that may fail, files unlinked while open.  Correct: a statement runs on the
  database last used, and leaving it saves it.
* **Query execution.**  An operator that returns true without output; the driver
  reads a variable nothing set; a status that the next insertion overwrites.
  Correct: SELECT returns what was inserted, a bulk INSERT leaves a prefix of its
  rows, success is only said of what was done, every statement is answered.
* **Tuples.**  Bytes written with one function's arithmetic and read with
  another's; CHAR columns that are cut, filled with zeros and read up to the
  first zero.  Correct: what is read is what was kept of the literal.
* **Parser.**  Signs and dots that are part of a number or not, lookahead and
  optional separators.  Correct: no token could have been longer, what the
  grammar writes is understood, and little else is accepted.

`PROJECT.json` lists the hazards one by one, at their lines, with the properties
that would catch each going wrong, or the reason why none does.

## 2. Modules

| module | models | EXTENDS / INSTANCE |
|---|---|---|
| `DiskManager` | the file and the stream, as effects the pool composes | |
| `PageStore` | abstract: a store of pages without a cache | |
| `BufferPool` | every call of `BufferPoolManager`, close, crash, open | extends `DiskManager`; refines `PageStore` |
| `SlottedPage` | page layout and what an insertion does to it | |
| `PageFill` | the life of one page under the table heap | extends `SlottedPage` |
| `RowHeap` | abstract: tables as sets of rows that grow, crash and recover | |
| `TableHeap` | heaps sharing one pool, one step per call of the pool | extends `SlottedPage`; instantiates `BufferPool`; refines `RowHeap` |
| `Catalog` | system tables row by row, ids, restart | |
| `Session` | REPL, dispatch, life cycle of the open database | |
| `Tuple` | the bytes of a row: literals, serialization, offsets, projection | |
| `Query` | binder, planner, operators, driver, one `Next` a step | extends `Tuple` |
| `Tokenizer` | `tokenize`, one token or blank a step | |
| `Parser` | `Parse` over the tokens, one check of a token a step | extends `Tokenizer` |
| `MC*` | values of the constants for TLC | |
| `LayoutProofs` | lemmas on the operators of `SlottedPage` | extends `SlottedPage` |
| `BufferPoolProofs`, `PageFillProofs`, `TableHeapProofs`, `CatalogProofs`, `SessionProofs`, `QueryProofs`, `ParserProofs` | theorems of the module they are named after | extend it |

### How they correspond to the code

**`DiskManager`, `BufferPool`.**  A frame is `[data, dirty]` and so is an image on
disk, since `is_dirty` is a field of the page header: `FlushPage` writes the image
while the flag is still set, and `FetchMiss` brings that flag back.  The program
is single-threaded, so a call of the pool is one action, with two exceptions: a
close is one action per written page, so that the process may die between them,
and a refused write has an action of its own (`EvictionFails`, `FlushFails`,
`NewPageFails`, `FlushAllFails`), because the code leaves different debris at each.
`FetchMiss` contains the read's failure (page out of range, file too short,
stream already failed).  `NewPage` does not evict, as in the code; `NewPageAt`,
the overload with an id, does, and is guarded by what its only caller, the
catalog's boot, does: it formats a page the file does not have and writes to it
next.  `unwritten` says that this caller is between the two.  `DeletePage` has no
caller in `src/` and is an action under the constant `MayDelete`.

**`SlottedPage`, `PageFill`.**  Offsets are computed modulo `Word`, the range of
`uint32_t`.  The bytes of a tuple stay with its slot; `WellFormed` is what makes
that a fair picture.  Slots count from 1, in the code from 0.

**`TableHeap`.**  `op` is the call in progress with its locals: the step, the page
the walk is at and its predecessor, the row to delete, and what a scan emitted.
Between two steps the pool only does what the heap makes it do, but every fetch
may evict any page, the disk may refuse, and the process may die.  `UpdateTuple`
with a new size is an `InsertTuple` followed by a `DeleteTuple`, as in the code.
The write that forces a row's page (`FlushRow`) and the return of `InsertTuple`
(`Acknowledge`) are two steps: a crash between them leaves a row in the file that
nobody was told of.  `DeleteTuple` (`Kill`) changes the frame without
`SetDirtyPage`.  `rows` and `faulted` are ghosts: rows to account for, which an
acknowledgement adds, and whether a write failed.

**`Catalog`.**  A heap is the sequence of its rows, `RowsPerPage` to a page, each
with `live` (in memory) and `saved` (in the file).  `TableHeap` shows what an
insertion, a deletion, an eviction and a crash do; `Catalog` takes each as one
step.  `dirty` has the pages that are marked.  The mark is a byte of the page and
is still set in every image that is written, so that it is clear from a page's
first flush on, and set again as soon as the page was read back: `Evict` and `Down`
(a close or a crash) leave the page marked.  A deletion marks no page.  What becomes of a DROP
TABLE therefore depends on the page: on one that was read from the file and not
flushed since, the next flush, eviction or close saves the deletion; on one that
was flushed it is forgotten, unless a later row on the page saves it.  The ghost
`history` notes what spoils a catalog for good: a deletion that was forgotten (`revived`),
a page cut off with its link (`cut`), a new table whose id a row in use has (`reused`); and
that a table was dropped at all (`drop`).  `made` has the tables whose CREATE returned
and whose DROP has not begun.  `hole` is the file in which page 1 was never written,
which a crash during boot can leave.  A name is what the CHAR column keeps of it
(`Stored`).

**`Session`.**  `pool` stands for the three objects of an open database.  It is
`attached` until the directory entry it was opened by is unlinked.  `network`
says which `NetworkManager` the manager's pointer refers to: the one whose
`Start` is running, or the one that `InitializeExecutor` made later.

`RowHeap` sees of it what a scan that goes on through dead pages would find
(`contents`) and what the next process would find (`stable`); its steps add one
row, make rows stable in any order, or, where a write was refused, take rows back.

**`Tuple`, `Query`.**  A byte is a pair, either a character or the k-th byte of a
number, so that a column read at another offset, or as another type, is not what
was written.  A literal says what `stoi`, `stof` and the CHAR copy make of it.
The literals a row was inserted from are kept beside its bytes as a ghost
(`given`), and SELECT is compared with them.  `out` is the driver's local variable
and starts with any value: nothing initializes it.  One action is one round of
the loop in `ExecutePlan`.  CREATE TABLE stores a table with the columns the heap
took, and answers what the last insertion said, as `CatalogManager::CreateTable`
does.

**`Tokenizer`, `Parser`.**  A text is a sequence of characters, of which a keyword
is one; the tokens that come out go into the parser in the same behaviour.  `at`
is the place in the code where the current token is looked at, `ast` the tree with
positions instead of names.  `Statements` are shapes of trees, and `Written` is how the
grammar of the repository's README writes one; `IsStatement` says which shapes have a
text, for lists of any length, and a run checks some of them.

## 3. Runs

| run | instance | shows |
|---|---|---|
| `buffer_pool` | 3 pages, one of them a system page, 2 frames, 2 contents; write errors, deletions, closes, crashes | the table and the list agree, clean pages equal the disk's, ids are fresh, only `NewPage()` overfills the pool, and the pool implements `PageStore` |
| `page_fill` | the real 4096, 28 and 8 bytes, six sizes of rows | layout, and slots that never move or revive |
| `heap` | 2 heaps, 4 pages of two rows each, 2 frames; write errors, crashes | pages keep their layout; chains are disjoint and can be walked, in memory and in the file; acknowledged rows are scanned once each and forced; no insertion is refused before a write is; a crash cuts off at a page boundary and adds the row of the interrupted insertion at most; the heaps implement `RowHeap` |
| `heap_modify` | 1 heap, 3 pages of one long or two short rows, **1 frame**; deletes and updates | no write through a stale pointer, no lost row, every call returns |
| `heap_deleted_back` | as `heap`, with deletes and without faults | a deleted row is back after a close and a reopening (violation) |
| `catalog` | 3 user names, one too long for its column; 2 rows a page; drops of one of them and of `master_columns`, evictions, crashes, restarts | fresh ids until a drop, unique names until a deletion is forgotten, tables found with their own columns, restarts, a catalog that is made once and for good |
| `catalog_ids` | as `catalog`, without drops of system tables | an id in use is given out after a drop, a second CREATE that dies, and a restart (violation) |
| `session` | 2 databases, 2 changes each; write errors, kills | no statement on the wrong or a deleted database, leaving saves, EXIT ends a session that did not switch |
| `session_exit` | as `session`, without write errors | EXIT does not end a session that did (violation) |
| `query` | 2 table names, 2 schemas of all three types, statements that are good or bad in one way each, three literals; refusals, exceptions, scans that break off, any content of `out` | SELECT returns what was inserted, cut as the columns cut it; a bulk INSERT leaves a prefix, and all if it says so; CREATE TABLE tells of its last column; every statement is answered |
| `query_bulk` | as `query`, without errors | a good bulk INSERT may be answered with failure (violation) |
| `parser` | the texts of every statement up to 3 columns and 3 rows and of every sequence one token away, and all short texts over two alphabets | no token could be longer; understood as written; nothing accepted but what the grammar writes, up to separators; parsing ends, unless stuck in CREATE TABLE |

### Bounds, and why they are enough

* *Pool.*  Two frames and three pages: every fetch may be a hit, a miss with room
  or a miss with a victim, dirty or clean, in any order.  What a larger pool adds
  is proved rather than checked.  Contents are only compared, so two suffice.
* *Heap.*  A page holds two rows, so three rows extend a chain, and two heaps
  compete for four pages: one of them can have three, so that links between
  pages that are not the first occur.  With a single frame every fetch of another page
  evicts, which is the hardest case for a pointer without a pin.  `Insert` starts
  only while a page is left (`SpaceLeft`): the file's end is a bound of the model.
* *Catalog.*  The system tables fill the first page of both heaps, so every user
  table is on a later one, and the columns of the second open a third page; `MaxRows` and
  `LastPage` stop CREATE TABLE, not the statement in progress.  There is room for two
  tables' pages, with crashes in any step.  System tables of one column
  stand for those of five and seven.  One user's table and one system table are
  dropped (`Droppable`), at any time and as often as they are there, and the others
  keep theirs around them.  Tables without columns, which the parser
  lets through, are left out (`ColumnCount`).
* *Session.*  Two databases are needed for a switch and two changes for one
  before and one after a save.
* *Query.*  One row or none is there when an INSERT starts (`MaxRows`); a bulk
  INSERT adds two, of which the second may be bad, so that there is one before and
  one after.  The two schemas put columns of one name at different offsets.  Column
  widths of 2, 1 and 3 bytes stand for 4, 4 and 32: a literal of three characters
  is cut, one of none is all zeros.
* *Parser.*  Lists of up to three have a first, an inner and a last element; one
  edit reaches every check of a token with every token type.  Six characters
  of `0 . - a` hold two numbers with all that can stand between them.

Deadlock is checked in all runs but two: a page that is full may have nothing
left to do, and `Parse` returns.  Symmetry is used for contents in `buffer_pool`
and for heaps in `heap`, runs without liveness.

### Fairness

`TableHeap`, `Session`, `Query` and `Parser` state weak fairness of the steps of a
call in progress (`Running`, `Execute`, `Step`, `Next`): one thread executes a
function, and nothing else can keep it from its next step.  Nothing that a user
or the environment does is fair: no statement need be typed, no input need end,
and neither crash nor restart need happen.

## 4. Proofs

All theorems hold for every value of the constants, from the assumptions on
constants that the modules state (`DiskAssumption`, `ImageAssumption`,
`BufferPoolAssumption`, `LayoutAssumption`, `TuplesAssumption`, `HeapAssumption`,
`CatalogAssumption`, `SessionAssumption`, `TupleAssumption`, `QueryAssumption`, `TextsAssumption`,
`StatementsAssumption`).
Further hypotheses are part of a theorem's statement.

### The pool: `BufferPoolProofs`

For every number of pages and frames, every set of contents, with and without
write errors and deletions:

* `Invariance`: `Spec => []IInv`, and from it `TypeCorrect`, `ListMatchesTable`
  (`LruIsPages`), `CleanPagesAreOnDisk` (`CleanMatchesDisk`), `AllocationIsFresh`
  (`NewIdsAreUnused`).
* `OverfillingIsAllocation`: `Spec => OnlyNewPageOverfills`, from the same invariant.
* `PoolImplementsStore`: `Spec => ImplementsPageStore`.

`IInv` is the conjunction of those four with `Strengthening`.  None of them is
inductive alone: that a fetched page equals the disk's needs the list and table
to agree on who was evicted; that `NewPage()` does not hit a resident page needs
the frontier; that the frontier survives a restart needs that the file has
nothing beyond its length; and `NewPage(id)` leaves one page that is clean and not
on disk, which `unwritten` excepts until its caller writes.  The proof has a
lemma per kind of step (`FetchMissStep`, `NewPageStep`, ...), on facts about lists
without repetition (`PushFront`, `TakeOut`, `PopBack`).  The refinement maps a
resident page to its frame and any other to its image on disk; each kind of step
has a lemma that names the action of `PageStore` it is, or that it is a stutter.

What the refinement says about errors: where the system refuses no write and
nobody calls `DeletePage`, `MayDiscard` is false and the abstract store never loses
a page while it is up.  A refused write-back loses its victim (`Discard`).

### The page: `LayoutProofs`, `PageFillProofs`

`LayoutInvariant`: for every page size and every set of tuples that fit an empty
page (`TuplesFit`), tuples never overlap each other, the slot directory or the
end of the page, for any sequence of insertions, deletions and updates in place.
`TuplesFit` is needed: `InsertTuple` does not check a new page for room.  It
holds for tables of up to `MAX_COLUMNS` (64) columns, whose widest row has 2052
bytes; but nothing in the code enforces that bound.  `Exact` is what makes the
layout inductive: a slot is as long as its tuple, so that the size an update in
place compares is the size of the slot.  `SlotsKeepPlace`: under the same
assumption, a slot keeps its offset and length for good and a dead slot never
becomes live (`SlotsAreStable`).  What an insertion, a deletion and an update do
to a page of any size are the lemmas of `LayoutProofs`, which the heap's proofs
cite as well.

### The heap's pages and the file: `TableHeapProofs`

All under `TuplesFit`, for every number of heaps and pages and every pool size
from one frame on, with failing writes, crashes and restarts at any step:

* `WritesAreToResidentPages` (`HeldPagesAreResident`): no call writes through a
  pointer to a page that has left the pool.  The pool has no pins; what saves the
  code is the order of its calls.  `NewPage()` does not evict, and the fetch of the
  predecessor behind it finds that page resident, since the walk was at it in the
  step before.  The invariant is `PoolInv` (images are sound, and the list has every
  page of the pool), `CallInv` (the locals of a call have the types of its step) and
  `Locals` (what the call saw of its page still holds at its next step).
* `PagesKeepLayout` (`PagesWellFormed`): no page of any heap loses its layout, in
  the pool or in the file.  `Locals` carries that there was room.
* `AckedRowsAreInTheFile` (`AckedRowsAreForced`): where rows are only inserted
  (`~MayModify`), every acknowledged row is in the file, until a write fails.
  `Safe` makes it inductive: the row is in the file's image *and* in the frame, if
  there is one, since any later write of the frame replaces the image; and images
  of a page only gain slots (`Keeps`).  Of a row that was put and not acknowledged yet,
  `RowIsPut` says that it is in the frame, and in the file once its page was flushed.
* `NoInsertIsRefused` (`InsertsSucceed`): an insertion is refused only after a
  write was, although rows were deleted and the process died before.  Every page
  that can be named - by a heap, a link, a row, a local - has a number below the
  file's length (`PoolReach`, `HeapReach`, `CallReach`), and the stream is good.  That
  a page gets its link only after it is in the file is what the force policy is
  for; a page whose predecessor's link was lost stays below the length too.

### The heap's chains, rows and scans: `TableHeapProofs`

Under `TuplesFit` as well, with deletes, updates, failing writes and crashes:

* `ChainsStaySound` (`ChainsAreSound`): no two heaps share a page, no link leads back
  and every page of a chain exists, in the process and in the file alone.
  `Linked` is inductive: a page has the links in the file that it has in the
  pool, or none (`FileFollows`, from the dirty flags); links ascend and no two lead to
  one page (`LinksAscend`, `LinksApart`); first pages are nobody's successors
  (`FirstPages`); and the page that `ExtendChain` formatted has no name yet when
  `LinkPrev` gives it one (`EndIsFree`).
* `NoRowIsLost` (`RowsAreKept`): until a write fails, a row that was inserted and not
  deleted is on its heap's chain.  `Rowed` adds to it where each step of an
  insertion is on the chain (`OnChain`) and that the row a call deletes or
  overwrites is its heap's (`CallsRows`).

A chain is the fixed point of `Onward`, reached by a recursive function (`From`).
What it is for every number of pages is `Least`: the smallest set with the first
page in it and closed under links.  The library's induction rules take an operator,
which no prover here can instantiate, so `WalkIsLeast` argues over a counterexample
that leaves out the fewest pages (`LeastNatural`).

Where rows are only inserted (`~MayModify`; with deletions the refinement is
false, since a deleted row comes back, which `heap_deleted_back` shows):

* `HeapsImplementTables` (`ImplementsRowHeap`): the heaps over the pool implement the
  tables of `RowHeap`.  `Grows` says that the file's image of a page has the first
  slots of the frame's and a page with a link has a row (`ImagesGrow`), that a page
  about to get a link has one as well (`EndIsUsed`), and that a heap has its acknowledged rows and the one just
  put (`Pending`), no others (`RowsExact`).  With `ForceInv`, `Reach`, `Linked` and `Rowed` that is
  `Inserting`.  There is a lemma per kind of step: `Put` is `Add`; evictions, flushes
  and links are `Persist` or nothing; a refused write is `Discard`, since it may take
  the end of a chain with the frame it drops.
* `CrashLeavesPrefix` (`CrashKeepsPrefix`): a crash that follows no failed write leaves
  of a heap all acknowledged rows of the pages that the file links.  Of other rows
  it leaves one at most, that of an insertion that died between the write of its
  page and its return: the file has no more than the frames (`FileHasPrefix`), and
  what the frames have beyond the acknowledged rows is the row just put; that one is
  in the file only once it was flushed (`Saved`).
* `ScansAreComplete` (`ScanIsComplete`): a scan emits every row once.  `Scanning` says
  that what was seen is what is on the chain up to the iterator's slot (`UpTo`),
  and has as many members as were emitted.  It rests on `ImagesGrow`: an iterator
  stops at a page without rows, which only the last page is.

### The catalog: `CatalogProofs`

For any numbers of names, columns and rows to a page, with drops of any table,
evictions, and crashes and restarts at any step:

* `IdsStayNew` (`NextIdsAreNew`).  `Numbered` is the strengthening: until a drop, the
  i-th row of a system table has id i - 1 and all rows are live and saved, also
  after a crash that cut rows off behind an unsaved link.  A restart counts
  what an iterator emits; that it emits all of them needs that every page before
  the last has a live row, which is the arithmetic of `PageOf` (`PageFacts`).
* `BootLasts` (`BootIsForGood`): `~hole` with a row in `master_columns` is stable.
  `Structure` relates it to the mode: an open catalog has both, a boot fills the
  one before the other, and a walk of the file from its first page never comes back
  empty when there was a row.
* `NamesStayUnique` (`NamesAreUnique`).  Until a deletion is forgotten with its page
  (`revived`), and for names that a CHAR column neither cuts down nor cuts others down to
  (`Fits`).  CREATE TABLE looks a name up with an iterator,
  and an iterator stops at a page without live rows; so two live rows may have one
  name, and `Names` says that the first is then `Hidden` behind such a page and stays
  so, since a page that is full and dead is not filled again.  The hypothesis
  `NoName \notin Name` is about `hole`: a row of `master_columns` that lies in
  `master_tables` must not pass for a table.  Its bytes there are a column's, and the
  `NoName` of `Catalog` stands for them.
* `MadeTablesAreFound` (`TablesAreFound`).  Tables are found where the code's own defects
  have not struck: so far no deletion was forgotten, no page cut off, no id
  in use given out again and page 1 not lost; at the moment no page is without live
  rows; and the name fits.  Creations, drops, evictions, crashes and restarts are
  free otherwise, and a drop after a restart, whose deletion is saved, is among them.
  `Tables` carries, while nothing but drops happened (`Calm`), that no two
  live rows of `master_tables` have one id (`OwnIds`) and that every made table has its
  row and exactly the live columns with its id (`MadeHaveRows`, `HasRows`,
  `LiveColumns`); ids are not places any more once the count after a restart has
  come out lower.  The columns of a table whose CREATE died have an id as well, and
  it is no other table's, unless that is in use when it is given out, which is
  what `reused` notes.
* `TablesOutliveRestarts` (`RestartKeepsTables`).  Of every close and crash that forgets
  no deletion while page 1 is in place, whatever was dropped, cut off or forgotten before.  `Links` makes it
  inductive: once there is a second page, the link to it is in the file or its page
  is marked (`FirstLink`), and a made table, or one whose CREATE is about to return, that
  has rows on the second page has the link in the file (`MadeAreLinked`, `OpIsLinked`),
  because CREATE flushed the first page when it ended.

### The session: `SessionProofs`

For any databases: `StatementsUseTheOpenDatabase` (`BoundToWhatIsOpen`),
`PromptHasEngine` (`EngineIsThere`) and `LeavingADatabaseSaves` (`LeavingSaves`), with
`OpenHasPool`, `OpeningIsUnbound` (between the halves of USE the executor has
nothing), `RoomForChange` and `PoolIsKnown` (a pool the flags do not know of is there
only after a failure) to make them inductive.

### Statements: `QueryProofs`

For any statements of any number of rows and columns, and a heap that refuses or
throws at any row.  Of the statements only what the parser sees to is assumed
(`QueryAssumption`): lists are lists, a column has one of the three types, a table
that is created has a name, and no character of a literal is the zero byte.

* `BulkLeavesPrefix` (`BulkIsPrefix`) and `BulkSuccessIsAll` (`BulkInsertsAll`).  `Bulk` says
  that a statement whose cursor is at row k has given the table the first k - 1 of
  its rows (`Gave`); `TableIsThere`, that what the binder found is still there, and
  `Tables`, that a table's place does not change under the statement.
* `RowsReadBack`: for every schema and all literals that go with it, `Serialize` makes
  a row as long as `TotalSize` says, and `GetValue` reads from each column what the
  conversion kept of its literal.  This is the round trip between two functions
  that compute offsets separately.  Sizes and flattened columns are
  recursive; `TotalFacts` and `FlatPieces` give their steps, from which the offset of
  a column is the length of all before it, and `Filled` that a CHAR column has a zero
  byte where the reader stops, which needs `Keep` to leave one.
* `QueriesAreTyped` (`TypeOK`, and `RowsAreBytes` of `QueryProofs`): a table has one row for
  each row that was given, as long as its columns need (`TypeOK`), and the row is what
  `Serialize` makes of the given literals (`RowsAreBytes`).  `Typed` adds that a table has a row for each of them (`Kept`) and that
  what the binder checked of the number of values is still so (`RowsFit`).
* `SelectsAreTables` (`SelectIsTable`): an answer of SELECT or SHOW TABLES is, read back,
  the rows that were inserted, or the first of them where the scan broke off.
  `Selecting` says that the rows collected are those before the cursor, cut to the
  columns asked for; a projected row is serialized again, under the output schema,
  so that `RowsReadBack` is used twice.
* `CreatesTellLast` (`CreateTellsLast`): `Creating` relates the table that was stored to
  the status that the last insertion left.

### Texts and statements: `ParserProofs`

`TokensAreTheLongest` (`TokensAreLongest`): for every set of texts, of any length, tokenize
gives the longest tokens there are, all of them and in order, and refuses a text
exactly where no token starts.  Of a text only that it is a sequence of
strings is assumed (`TextsAssumption`).  The argument has three parts:

* What the slices are.  A token is defined on a sequence of characters (`Decimal`,
  `Negative`, `Quoted`, ...); the lemmas up to `TokenSlice` say when the slice between two
  positions is one, in terms of the text's own positions (`TokenTo`), and `FirstTells`
  and `TokenIs` what the first character leaves of the kinds of token.
* Where the longest one ends.  For each kind there is a lemma that the end the
  code's loops come to (`Run`, `RunIsLongest`) is the last end (`Ends`): `NumberEnds`,
  `MinusDigitEnds`, `MinusDotEnds`, `QuotedEnds`, ...  This is where a sign and a dot matter.
* What is left.  `Rest` gives the reference tokens from a position on; that such a
  function exists, and that it is sequences, is argued from the end of the text
  backwards (`ReaderExists`, `RestFacts`, with `GreatestNumber` on the positions where it would
  fail).  The invariant `ReadInv` says that the tokens so far, followed by those from the
  position on, are the reference's; each step of tokenize has a lemma that it reads
  on (`Goes`), and the parser's rules leave text and tokens alone (`RulesRead`).

`AcceptedStatementsAreWellFormed` (`AcceptedIsWellFormed`), for every set of texts: what Parse
accepts was written, up to the token where it stopped, as the grammar writes the
tree it gives, separators aside, and the tree has all the names and literals up to
there, in their order.  `StatementsAreUnderstood` (`UnderstoodAsWritten`), for every set of
statements of the grammar besides, with lists of any length (`IsStatement`): a text that
is one of them is accepted, and its tree is that statement's.  Neither follows from
the other: the first is about texts that the grammar need not have, the second says
that none of its texts is refused or read as another statement.

* What the grammar writes.  `Written` puts lists behind each other (`FlattenSeq`), which is a
  fold; a function on the natural numbers stands in for it (`IsFlat`), so that one more
  column, value or row is one more step (`CreatedFacts`, `AskedFacts`, `GivenFacts`,
  `ValuesFacts`), and `WrittenTable`, `WrittenSelect` and `WrittenInsert` say that a whole statement is
  such a list and what ends it.
* What has been read.  `ParsedInv` has, for each rule, what the grammar writes for the tree
  that is built so far: the tokens before the current one are that, separators aside,
  and their names and literals are the tree's (`So`).  It needs the unfinished pieces too:
  a column whose type is read and whose key is not, a row that is still open.  Each
  rule has a lemma that it keeps this; `WellFormed` reads the property off.
* What is still to come.  `FollowsInv` says of every statement that the text may be that the
  rule that looks is one that reads it, with its separators, and that the tree is a
  part of its lists (`Follows`).  It is inductive because a rule at such a place sees what
  comes next and nothing else (`Sees`): the list goes on or ends as the statement's does
  (`ColumnsSee`, `SelectSees`, `LiteralsSee`, `NextSetSees`), and so no rule lacks a token (`Finds`,
  `RefuseFollows`).  It is stated for a text that was read to its end, since tokenize may
  refuse a text behind the last token of a statement.

### What only TLC shows

* All liveness, and what needs fairness: `CallsReturn`, `ExitEnds`, `QueriesReturn`,
  `ParsingEnds`.  ENABLED is out of the provers' reach.
* `ImplementsRowHeap`, `CrashKeepsPrefix` and `ScanIsComplete` are proved where rows are
  only inserted.  With deletions the first is false, and so is that a scan is
  complete: it ends at a page whose rows were all deleted.

No module uses RECURSIVE.

## 5. Where the code and what is said of it differ

Shown by a run that violates the statement:

* `heap_deleted_back`: `DeleteTuple` does not mark its page dirty, so a row that was
  inserted and deleted is back when the database is closed and opened
  (`table_heap.cpp:166`).
* `catalog_ids`: `LoadMaxIds` counts rows.  After a DROP TABLE the count can be an id in
  use: the run creates and drops a table, dies in a second CREATE, whose row takes
  the deletion to the file with its page, and starts again (`catalog.cpp:231`).
* `session_exit`: EXIT after a second USE stops another network object
  (`database_manager.cpp:42`).
* `query_bulk`: the driver reads a variable a bulk INSERT does not set
  (`operators.h:232`).

Met while modelling, and part of the models' behaviour:

* `NewPage()` does not evict, so the pool grows past `MAX_BUFFER_POOL_SIZE` (`OnlyNewPageOverfills`
  says that no other call does), and nothing shrinks it again.
* A write-back that fails has already dropped its victim (`EvictionFails`), and a
  short read leaves the stream failed until the next write (`failbit`).
* `disk_manager.h:8` describes a force policy: rows are forced, links between pages
  are not, so a crash can cut pages off a heap (`CrashKeepsPrefix`).
* `begin()` and `operator++` look at one page and give up if it has no live row, so
  that a scan misses rows behind it (`table_heap.cpp:280`, `:335`; `ScanPage`), though
  `table_heap.h:5` speaks of "iteration over the entire table".  The catalog's
  lookups do too, and no longer find the tables behind it (`NoPageIsDead` in `Catalog`).
* A table name longer than its CHAR column is stored cut down and is not found
  again, so that the table can be created twice (`Stored`; `table_heap.cpp:131`), though
  `catalog.cpp:169` has "only one table entry".
* A deletion is saved or forgotten by what happened to its page before
  (`Evict`, `Down` in `Catalog`): forgotten in the process that flushed the page and did
  not read it back, saved after a restart.
* `UpdateTuple` with another size moves the row to another slot.
* A crash while the system tables are made can leave page 1 a page of zeros; rows
  of `master_columns` then land in `master_tables` (`hole`).
* `SELECT id, id` throws, since a schema does not take a column twice.
* CREATE TABLE overwrites `status` with every insertion (`catalog.cpp:116`): a column
  or the table's own row that the heap refuses is forgotten when the last column
  is taken, and the answer is success.  `CreateTellsLast` states what is left of it.
* A scan that a refused fetch ends is a SELECT answered with success and a part of
  the table (`table_heap.cpp:307`); `SelectIsTable` says it is a prefix.
* Nothing enforces `MAX_COLUMNS` (`config.h:17`), which `TuplesFit` rests on.
* `5-5` is read as two literals, since a minus before a digit always begins a number.
  Negative numbers and `.5`, which the comment at `parser.cpp:12` lists as open, are
  read as numbers.
* Identifiers keep their case, though `parser.cpp:14` speaks of lower case.
* CREATE TABLE loops on a token that neither begins nor separates columns
  (`Stuck` in `Parser`), and what follows a SELECT's table name is ignored.
* `README.md:9` speaks of LRU-K; the list is a plain LRU.

## 6. What is not modelled

* Statements on the system tables themselves, except that DROP TABLE takes them
  (`Catalog`).  PRIMARY KEY is parsed and stored; nothing reads it.
* Lookups in the catalog that a failing disk cuts short: `Query` takes the catalog's
  answer to be complete, and `Catalog` has a disk that does not fail.
* Keywords are one character of a text and names one character of a row:
  the comparison of strings is C++'s.
* The bytes of a torn page: a write happens or is refused.  What `stoi` and `stof`
  make of a literal is given with the literal.
* `std::filesystem` and streams, except as the disk manager and the session use
  them.  Catalog and pool are not composed row by row: `Catalog` takes from `TableHeap`
  what each call does.
* HELP and all printing; the index, which has no code.

## 7. Plan

Done, in the order of what the rest depends on: the storage stack
(`DiskManager`, `BufferPool`, `SlottedPage`, `TableHeap`), `Catalog`, `Session`, `Query` over
`Tuple`, `Parser` over `Tokenizer`; the refinements of `PageStore` and of `RowHeap`,
both proved; the theorems of section 4.

Left, should the code grow in this direction: `Catalog` over the pool, with lookups
that break off, once the catalog's pages compete with users' tables for frames.
