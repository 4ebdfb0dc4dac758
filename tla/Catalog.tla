------------------------------ MODULE Catalog ------------------------------
(***************************************************************************)
(* src/catalog/catalog.cpp: the two system tables and the ids.             *)
(*                                                                         *)
(* All rows of a system table have one size, and heaps never reuse a slot, *)
(* so that a heap is the sequence of its rows, RowsPerPage to a page.  A   *)
(* row is forced to the file with its page when it is inserted; a page's   *)
(* link to the next one reaches the file when that page is written again.  *)
(* A deletion marks no page: it is saved if the page is marked already and *)
(* forgotten if not.  The mark is a byte of the page, which is set in      *)
(* every image that was ever written, so that a page is marked when it is  *)
(* read from the file and until it is first flushed.                       *)
(* TableHeap models those calls step by step; here each is one step.       *)
(* The disk does not fail, and the pages of the system tables leave the    *)
(* pool between statements only (it holds 128), and each statement looks   *)
(* at the pages it flushes before it does.                                 *)
(***************************************************************************)
EXTENDS Integers, Sequences, FiniteSets

CONSTANTS
  Name,           \* names users give tables
  Droppable,      \* names users drop; nothing protects the system tables
  SystemName,     \* the two system tables, in order of their ids
  Stored(_),      \* what a CHAR column of 32 bytes keeps of a name
  NoName,         \* a row of master_columns read as one of master_tables
  ColumnCount,    \* numbers of columns users give tables
  SystemColumns,  \* columns of each of the two system tables: <<5, 7>>
  RowsPerPage,
  MaxRows,        \* bound: CREATE TABLE leaves no more rows in a heap
  LastPage        \* bound: CREATE TABLE starts with no page beyond it

ASSUME CatalogAssumption ==
  /\ Len(SystemName) = 2 /\ SystemName[1] # SystemName[2]
  /\ SystemColumns \in [1 .. 2 -> Nat \ {0}]
  /\ ColumnCount \subseteq Nat \ {0}
  /\ Droppable \subseteq Name \cup {SystemName[1], SystemName[2]}
  /\ \A i \in 1 .. 2 : Stored(SystemName[i]) = SystemName[i]
  /\ RowsPerPage \in Nat
  /\ RowsPerPage >= SystemColumns[1] + SystemColumns[2] /\ RowsPerPage >= 2

SystemNames == {SystemName[1], SystemName[2]}
FirstTableId == 2
FirstColumnId == SystemColumns[1] + SystemColumns[2]
FIRST_USABLE_PAGE_ID == 3

VARIABLES
  heap,           \* rows of each system table, as far as it can be walked
  dirty,          \* pages of each that are marked, or will be when read
  linked,         \* pages of each whose link to the next is in the file
  hole,           \* page 1 of the file is not a page of master_columns
  next_table_id, next_column_id,
  next_page_id,   \* AllocatePage's counter
  op,             \* the statement in progress
  mode,           \* "boot", "open" or "down"
  made,           \* ghost: tables whose CREATE returned and no DROP took
  history         \* ghost: what happened to rows since the file was new

disk_vars == <<heap, dirty, linked, hole>>
ids == <<next_table_id, next_column_id, next_page_id>>
vars == <<disk_vars, ids, op, mode, made, history>>

Table == {"tables", "columns"}
Idle == [step |-> "idle"]
NoId == -1

TableRow(id, n, first) ==
  [id |-> id, name |-> n, table |-> NoId, first |-> first,
   live |-> TRUE, saved |-> TRUE]
ColumnRow(id, t) ==
  [id |-> id, name |-> NoName, table |-> t, first |-> NoId,
   live |-> TRUE, saved |-> TRUE]

Init ==
  /\ heap = [T \in Table |-> <<>>]
  /\ dirty = [T \in Table |-> {}]
  /\ linked = [T \in Table |-> {}]
  /\ hole = FALSE
  /\ next_table_id = FirstTableId
  /\ next_column_id = FirstColumnId
  /\ next_page_id = FIRST_USABLE_PAGE_ID
  /\ op = Idle
  /\ mode = "boot"
  /\ made = {}
  /\ history = {}

-----------------------------------------------------------------------------
(* What TableHeap does for the catalog.                                    *)

Larger(a, b) == IF a >= b THEN a ELSE b

\* Mutation: pages count from 0.
PageFromZero(i) == (i - 1) \div RowsPerPage

PageOf(i) == (i - 1) \div RowsPerPage + 1
PageCount(rows) == IF rows = <<>> THEN 0 ELSE PageOf(Len(rows))

\* The page goes out with everything it holds in memory.
SavePages(rows, ks) ==
  [i \in DOMAIN rows |->
     IF PageOf(i) \in ks THEN [rows[i] EXCEPT !.saved = rows[i].live]
     ELSE rows[i]]

WritePages(T, ks) ==
  /\ heap' = [heap EXCEPT ![T] = SavePages(@, ks)]
  /\ dirty' = [dirty EXCEPT ![T] = @ \ ks]
  /\ linked' = [linked EXCEPT ![T] =
                  @ \cup {k \in ks : k < PageCount(heap[T])}]
  /\ UNCHANGED hole

\* A zero-filled page 1 has no room and links to page 0, so that the rows of
\* master_columns end up behind those of master_tables.
Home(T) == IF hole THEN "tables" ELSE T

\* The row's page is written at once; its predecessor, when the row opened a
\* new page, has got a link that is not.  `others' counts pages the caller
\* allocated.
NewPages(H) == {PageOf(Len(heap[H]) + 1)} \ 1 .. Larger(1, PageCount(heap[H]))

InsertTuple(T, row, others) ==
  LET H == Home(T)
      rows == Append(heap[H], row)
  IN  /\ heap' = [heap EXCEPT ![H] = SavePages(rows, {PageOf(Len(rows))})]
      /\ dirty' = [dirty EXCEPT ![H] =
                     (@ \cup {k - 1 : k \in NewPages(H)}) \ {PageOf(Len(rows))}]
      /\ next_page_id' = next_page_id + others + Cardinality(NewPages(H))
      /\ UNCHANGED <<linked, hole>>

Live(T) == {i \in DOMAIN heap[T] : heap[T][i].live}

\* What an iterator emits: it stops at a page without live rows.
Visible(T) ==
  {i \in DOMAIN heap[T] :
     /\ heap[T][i].live
     /\ \A k \in 1 .. PageOf(i) :
          \E j \in DOMAIN heap[T] : PageOf(j) = k /\ heap[T][j].live}

Delete(T, is) == [i \in DOMAIN heap[T] |->
                    IF i \in is THEN [heap[T][i] EXCEPT !.live = FALSE]
                    ELSE heap[T][i]]

-----------------------------------------------------------------------------
(* GetTableRef: the first row with the name, all columns with its id.      *)

RowsNamed(n) == {i \in Visible("tables") : heap["tables"][i].name = n}
\* Mutation: the lookup reads one page.
ExistsOnFirstPage(n) == \E i \in RowsNamed(n) : PageOf(i) = 1

Exists(n) == RowsNamed(n) # {}
FirstOf(S) == CHOOSE i \in S : \A j \in S : i <= j

\* Mutation: the wrong column of master_columns is compared.
ColumnsWithId(id) == {j \in Visible("columns") : heap["columns"][j].id = id}

ColumnsOf(id) == {j \in Visible("columns") : heap["columns"][j].table = id}

GetTableRef(n) ==
  LET i == FirstOf(RowsNamed(n))
      row == heap["tables"][i]
  IN  [row |-> i, id |-> row.id, first |-> row.first,
       columns |-> ColumnsOf(row.id)]

-----------------------------------------------------------------------------
(* CreateNewSystemTables, one step for each row it inserts.                *)

SystemRows ==
  <<TableRow(0, SystemName[1], 0), TableRow(1, SystemName[2], 1)>>
SystemColumnRow(i) ==
  ColumnRow(i, IF i < SystemColumns[1] THEN 0 ELSE 1)

BootTables ==
  /\ mode = "boot" /\ Len(heap["tables"]) < 2
  /\ InsertTuple("tables", SystemRows[Len(heap["tables"]) + 1], 0)
  /\ UNCHANGED <<next_table_id, next_column_id, op, mode, made, history>>

BootColumns ==
  /\ mode = "boot" /\ Len(heap["tables"]) = 2
  /\ Len(heap["columns"]) < FirstColumnId
  /\ InsertTuple("columns", SystemColumnRow(Len(heap["columns"])), 0)
  /\ UNCHANGED <<next_table_id, next_column_id, op, mode, made, history>>

\* Mutation: the rows of master_columns are left for later.
EndBootEarly ==
  /\ mode = "boot" /\ Len(heap["tables"]) = 2
  /\ mode' = "open"
  /\ UNCHANGED <<disk_vars, ids, op, made, history>>

EndBoot ==
  /\ mode = "boot" /\ Len(heap["columns"]) = FirstColumnId
  /\ mode' = "open"
  /\ UNCHANGED <<disk_vars, ids, op, made, history>>

-----------------------------------------------------------------------------
(* CREATE TABLE: the binder's check, then CatalogManager::CreateTable.     *)

Ready == mode = "open" /\ op = Idle

\* A row that can come to light has the id.
InUse(id) ==
  \/ \E i \in Live("tables") : heap["tables"][i].id = id
  \/ \E j \in Live("columns") : heap["columns"][j].table = id

\* NewPage, GetNextTableId and the row in master_tables; dying before the row
\* is in the file leaves no more than an unused page.
CreateTable(n, c) ==
  /\ Ready
  /\ \A T \in Table : Len(heap[T]) + c <= MaxRows    \* bound
  /\ next_page_id <= LastPage                        \* bound
  /\ ~Exists(n)
  /\ InsertTuple("tables", TableRow(next_table_id, Stored(n), next_page_id), 1)
  /\ next_table_id' = next_table_id + 1
  /\ op' = [step |-> "columns", name |-> n, left |-> c,
            row |-> Len(heap["tables"]) + 1, id |-> next_table_id,
            first |-> next_page_id, columns |-> {}]
  /\ history' = history \cup {e \in {"reused"} : InUse(next_table_id)}
  /\ UNCHANGED <<next_column_id, mode, made>>

InsertColumn ==
  /\ op.step = "columns" /\ op.left > 0
  /\ InsertTuple("columns", ColumnRow(next_column_id, op.id), 0)
  /\ next_column_id' = next_column_id + 1
  /\ op' = [op EXCEPT !.left = @ - 1,
                      !.columns = @ \cup {Len(heap[Home("columns")]) + 1}]
  /\ UNCHANGED <<next_table_id, mode, made, history>>

\* Mutation: nothing is flushed.
FlushNoPage(T) == UNCHANGED disk_vars

\* FlushPage of a system table's first page does nothing to a clean page.
FlushFirstPage(T) == WritePages(T, {1} \cap dirty[T])

FlushTables ==
  /\ \/ op.step = "columns" /\ op.left = 0
     \/ op.step = "dropped"
  /\ FlushFirstPage("tables")
  /\ op' = [op EXCEPT !.step = IF @ = "columns" THEN "flush" ELSE "flushDrop"]
  /\ UNCHANGED <<ids, mode, made, history>>

MadeTable ==
  [name |-> op.name, row |-> op.row,
   ref |-> [row |-> op.row, id |-> op.id, first |-> op.first,
            columns |-> op.columns]]

EndStatement ==
  /\ op.step \in {"flush", "flushDrop"}
  /\ FlushFirstPage("columns")
  /\ made' = IF op.step = "flush" THEN made \cup {MadeTable} ELSE made
  /\ op' = Idle
  /\ UNCHANGED <<ids, mode, history>>

-----------------------------------------------------------------------------
(* DROP TABLE, of system tables too: DeleteTuple marks no page, so that    *)
(* what reaches the file is what lies on pages marked before.              *)

DropTable(n) ==
  /\ Ready
  /\ Exists(n)
  /\ LET ref == GetTableRef(n)
     IN  /\ heap' = [T \in Table |->
                       Delete(T, IF T = "tables" THEN {ref.row} ELSE ref.columns)]
         /\ op' = [step |-> "dropped"]
         /\ made' = {t \in made : t.row # ref.row}
  /\ history' = history \cup {"drop"}
  /\ UNCHANGED <<dirty, linked, hole, ids, mode>>

-----------------------------------------------------------------------------
(* What other statements' pages do to these: page k of T is evicted, and   *)
(* read again when it is next looked at.                                   *)

Forgets(T, k) ==
  \E i \in DOMAIN heap[T] : PageOf(i) = k /\ heap[T][i].live # heap[T][i].saved

\* The rows as the file has them.
Reread(rows, ks) ==
  [i \in DOMAIN rows |->
     IF PageOf(i) \in ks THEN [rows[i] EXCEPT !.live = rows[i].saved]
     ELSE rows[i]]

\* A marked page is written, and what was not written is forgotten; either
\* way the page comes back with the mark it has in the file.
Evict(T, k) ==
  /\ Ready
  /\ k \in 1 .. PageCount(heap[T])
  /\ \/ /\ k \in dirty[T]
        /\ heap' = [heap EXCEPT ![T] = SavePages(@, {k})]
        /\ linked' = [linked EXCEPT ![T] = @ \cup ({k} \ {PageCount(heap[T])})]
        /\ UNCHANGED <<dirty, history>>
     \/ /\ k \notin dirty[T]
        /\ heap' = [heap EXCEPT ![T] = Reread(@, {k})]
        /\ dirty' = [dirty EXCEPT ![T] = @ \cup {k}]
        /\ history' = history \cup {e \in {"revived"} : Forgets(T, k)}
        /\ UNCHANGED linked
  /\ UNCHANGED <<hole, ids, op, mode, made>>

-----------------------------------------------------------------------------
(* Close and crash leave what the file holds; Open walks it.               *)

\* The rows on the pages that can be reached in the file.
Reachable(T, links) ==
  {i \in DOMAIN heap[T] : 1 .. PageOf(i) - 1 \subseteq links}

\* ks are the pages written first.  All pages come back marked.
Down(ks) ==
  LET links == [T \in Table |->
                  linked[T] \cup {k \in ks[T] : k < PageCount(heap[T])}]
      saved == [T \in Table |-> SavePages(heap[T], ks[T])]
      Lost(T) == Reachable(T, links[T]) # DOMAIN heap[T]
      Revived(T) == \E i \in DOMAIN saved[T] : saved[T][i].live # saved[T][i].saved
  IN  /\ heap' = [T \in Table |->
                    SubSeq(Reread(saved[T], 1 .. PageCount(heap[T])),
                           1, Cardinality(Reachable(T, links[T])))]
      /\ dirty' = [T \in Table |-> 1 .. PageCount(heap'[T])]
      /\ linked' = [T \in Table |-> {k \in links[T] : k < PageCount(heap'[T])}]
      /\ mode' = "down"
      /\ op' = Idle
      /\ history' = history \cup {e \in {"cut"} : \E T \in Table : Lost(T)}
                             \cup {e \in {"revived"} : \E T \in Table : Revived(T)}
      /\ UNCHANGED <<hole, ids, made>>

\* FlushAllPages writes the marked pages and no others.
Close ==
  /\ Ready
  /\ Down(dirty)

Crash ==
  /\ mode \in {"boot", "open"}
  /\ Down([T \in Table |-> {}])

\* Mutation: both ids are counted in master_tables.
LoadTableIds ==
  /\ next_table_id' = Cardinality(Visible("tables"))
  /\ next_column_id' = Cardinality(Visible("tables"))

\* The rows are counted.
LoadMaxIds ==
  /\ next_table_id' = Cardinality(Visible("tables"))
  /\ next_column_id' = Cardinality(Visible("columns"))

\* InitializeSystemTables: page 0 tells whether the system tables exist.
Open ==
  /\ mode = "down"
  /\ IF heap["tables"] = <<>>
     THEN /\ mode' = "boot"
          /\ next_table_id' = FirstTableId
          /\ next_column_id' = FirstColumnId
          /\ UNCHANGED hole
     ELSE /\ mode' = "open"
          /\ hole' = (heap["columns"] = <<>>)
          /\ LoadMaxIds
  /\ UNCHANGED <<heap, dirty, linked, next_page_id, op, made, history>>

-----------------------------------------------------------------------------
Next ==
  \/ BootTables
  \/ BootColumns
  \/ EndBoot
  \/ \E n \in Name, c \in ColumnCount : CreateTable(n, c)
  \/ InsertColumn
  \/ FlushTables
  \/ EndStatement
  \/ \E n \in Droppable : DropTable(n)
  \/ \E T \in Table, k \in 1 .. MaxRows : Evict(T, k)
  \/ Close
  \/ Crash
  \/ Open

Spec == Init /\ [][Next]_vars

-----------------------------------------------------------------------------
(* Properties                                                              *)

Row == [id : Nat, name : {Stored(n) : n \in Name} \cup SystemNames \cup {NoName},
        table : Nat \cup {NoId}, first : Nat \cup {NoId},
        live : BOOLEAN, saved : BOOLEAN]

\* The type invariant.
TypeOK ==
  /\ heap \in [Table -> Seq(Row)]
  /\ dirty \in [Table -> SUBSET (Nat \ {0})]
  /\ linked \in [Table -> SUBSET (Nat \ {0})]
  /\ hole \in BOOLEAN
  /\ next_table_id \in Nat /\ next_column_id \in Nat /\ next_page_id \in Nat
  /\ op.step \in {"idle", "columns", "flush", "dropped", "flushDrop"}
  /\ mode \in {"boot", "open", "down"}
  /\ \A t \in made : t.name \in Name
  /\ history \subseteq {"drop", "revived", "cut", "reused"}

Ids(T) == {heap[T][i].id : i \in Visible(T)}
IdsAreNew(T, next) ==
  /\ \A id \in Ids(T) : id < next
  /\ Cardinality(Ids(T)) = Cardinality(Visible(T))

\* Until a table is dropped, counting rows at startup gives the next ids, and
\* ids identify rows, whatever statement the process died in and whatever rows
\* it lost behind an unsaved link.
NextIdsAreNew ==
  mode = "open" /\ "drop" \notin history /\ ~hole =>
    IdsAreNew("tables", next_table_id) /\ IdsAreNew("columns", next_column_id)

\* A name that a CHAR column holds and that no longer name is cut down to.
Fits(n) == {m \in Name : Stored(m) = n} = {n}

\* The binder's lookup keeps two tables from having one name, over drops and
\* restarts too, until a deletion that no page was marked for is forgotten.
\* Names that a CHAR column cuts down, or cuts others down to, are left out.
NamesAreUnique ==
  mode = "open" /\ "revived" \notin history =>
    \A n \in Name : Fits(n) => Cardinality(RowsNamed(n)) <= 1

Found(t) == Exists(t.name) /\ GetTableRef(t.name) = t.ref
NoPageIsDead ==
  \A T \in Table : Visible(T) = Live(T)

\* Every table whose CREATE returned, and that no DROP has begun to remove, is
\* found with its own first page and with its own columns and no others,
\* whatever tables are created and dropped around it, with evictions, closes,
\* crashes and restarts in any order.  This takes what the code itself may
\* spoil: so far no deletion was forgotten, no page cut off with its link, no
\* id in use given out again and no page 1 lost; no page is without live rows
\* now; and the name fits.
TablesAreFound ==
  Ready /\ history \subseteq {"drop"} /\ ~hole /\ NoPageIsDead =>
    \A t \in made : Fits(t.name) => Found(t)

\* CREATE TABLE flushes the first page of both system tables, with its link:
\* a table that was found before the process died or closed is found after,
\* if it has its rows on the first two pages, or if nothing was cut off.  This
\* is said of every end of the process that forgets no deletion.
Early(t) ==
  /\ PageOf(t.row) <= 2
  /\ \A i \in t.ref.columns : PageOf(i) <= 2
NothingCut == \A T \in Table : Len(heap'[T]) = Len(heap[T])
NothingRevives ==
  \A T \in Table : \A i \in DOMAIN heap'[T] : heap'[T][i].live = heap[T][i].live
RestartKeepsTables ==
  [][mode = "open" /\ mode' = "down" /\ ~hole /\ NothingRevives =>
       \A t \in made : Found(t) /\ (Early(t) \/ NothingCut) => Found(t)']_vars

\* Page 0 tells a start that page 1 is there too: once a start has found or
\* made both system tables, no crash and no restart ever again takes zero
\* bytes for master_columns.  Only a crash between the first row of the one
\* and the first row of the other leaves such a file.
BootIsForGood == [](mode = "open" /\ ~hole => []~hole)

\* catalog.h:86 calls what LoadMaxIds does "Load max IDs from catalog": the
\* next ids are larger than those of the rows in sight, where page 1 was not lost.
LoadedIdsAreMax ==
  mode = "open" /\ ~hole =>
    /\ \A id \in Ids("tables") : id < next_table_id
    /\ \A id \in Ids("columns") : id < next_column_id
=============================================================================
