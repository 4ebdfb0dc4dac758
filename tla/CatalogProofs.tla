---------------------------- MODULE CatalogProofs ----------------------------
(***************************************************************************)
(* For every number of system columns, of rows to a page, of names and of  *)
(* columns users give, with crashes and restarts at any step: the ids the  *)
(* catalog counts at startup are new until a table is dropped; a file      *)
(* whose catalog was once found is never again taken for one without; no   *)
(* two tables have one name until a deletion is forgotten; a table that    *)
(* was made is found with its columns until it is dropped, in all states   *)
(* that the code's own defects have not spoiled; and a close or a crash    *)
(* that forgets no deletion keeps it found, on the first two pages at      *)
(* least.                                                                  *)
(***************************************************************************)
EXTENDS Catalog, FiniteSetTheorems, SequenceTheorems, WellFoundedInduction, TLAPS

Pages == Nat \ {0}

\* The locals of CREATE TABLE and of DROP TABLE.
CreateOp == [step : {"columns", "flush"}, name : Name, left : Nat, row : Nat,
             id : Nat, first : Nat, columns : SUBSET Nat]
DropOp(o) == o.step \in {"dropped", "flushDrop"} /\ o = [step |-> o.step]

Types ==
  /\ heap \in [Table -> Seq(Row)]
  /\ dirty \in [Table -> SUBSET Pages]
  /\ linked \in [Table -> SUBSET Pages]
  /\ hole \in BOOLEAN
  /\ next_table_id \in Nat /\ next_column_id \in Nat /\ next_page_id \in Nat
  /\ op = Idle \/ op \in CreateOp \/ DropOp(op)
  /\ mode \in {"boot", "open", "down"}
  /\ \A t \in made : t.name \in Name
  /\ history \subseteq {"drop", "revived", "cut", "reused"}

Count(T) == Len(heap[T])

\* Which rows there are, by what the catalog is doing.
Structure ==
  /\ hole => Count("columns") = 0 /\ Count("tables") > 0
  /\ Count("columns") > 0 => Count("tables") > 0
  /\ mode = "open" => Count("tables") > 0 /\ (~hole => Count("columns") > 0)
  /\ mode = "boot" =>
       /\ ~hole /\ Count("tables") <= 2 /\ Count("columns") <= FirstColumnId
       /\ Count("columns") > 0 => Count("tables") = 2
       /\ next_table_id = FirstTableId /\ next_column_id = FirstColumnId
  /\ mode # "open" => op = Idle

\* Until something is dropped or misplaced, the i-th row has id i - 1.
Numbered ==
  "drop" \notin history /\ ~hole =>
    /\ \A T \in Table : \A i \in 1 .. Count(T) :
         heap[T][i].live /\ heap[T][i].saved /\ heap[T][i].id = i - 1
    /\ mode = "open" =>
         next_table_id = Count("tables") /\ next_column_id = Count("columns")

Inv == Types /\ Structure /\ Numbered

\* Both system tables have rows, and page 1 of the file is a page of them.
Booted == ~hole /\ Count("columns") > 0

-----------------------------------------------------------------------------
(* Pages and rows.                                                         *)

LEMMA PageFacts ==
  ASSUME NEW i \in Nat \ {0}
  PROVE  /\ PageOf(i) \in Nat \ {0}
         /\ i = 1 => PageOf(i) = 1
         /\ \A k \in 1 .. PageOf(i) : \E j \in 1 .. i : PageOf(j) = k
<1>1. RowsPerPage \in Nat \ {0}
  BY CatalogAssumption
<1>2. ASSUME NEW a \in Nat
      PROVE  a \div RowsPerPage \in Nat /\ (a \div RowsPerPage) * RowsPerPage <= a
  BY <1>1, Z3
<1>3. ASSUME NEW a \in Nat PROVE (a * RowsPerPage) \div RowsPerPage = a
  BY <1>1, Z3
<1>4. ASSUME NEW a \in Nat, NEW b \in Nat, a <= b
      PROVE  a * RowsPerPage \in Nat /\ a * RowsPerPage <= b * RowsPerPage
  <2>1. PICK c \in Nat : b = a + c
    BY <1>4
  <2>2. a * RowsPerPage \in Nat /\ c * RowsPerPage \in Nat
    BY <1>1, Z3
  <2>3. (a + c) * RowsPerPage = a * RowsPerPage + c * RowsPerPage
    BY <1>1, Z3
  <2> QED BY <2>1, <2>2, <2>3
<1>5. 0 \div RowsPerPage = 0
  BY <1>1, Z3
<1>6. PageOf(i) \in Nat \ {0}
  BY <1>2 DEF PageOf
<1>7. ASSUME NEW k \in 1 .. PageOf(i) PROVE \E j \in 1 .. i : PageOf(j) = k
  <2>1. k - 1 \in Nat /\ (i - 1) \div RowsPerPage \in Nat /\ k - 1 <= (i - 1) \div RowsPerPage
    BY <1>2, <1>6, <1>7 DEF PageOf
  <2>2. (k - 1) * RowsPerPage \in Nat /\ (k - 1) * RowsPerPage <= i - 1
    BY <1>1, <1>2, <1>4, <2>1
  <2>3. PICK j \in 1 .. i : j - 1 = (k - 1) * RowsPerPage
    BY <2>2
  <2>4. PageOf(j) = k
    BY <1>3, <2>1, <2>3 DEF PageOf
  <2> QED BY <2>4
<1> QED BY <1>5, <1>6, <1>7 DEF PageOf

LEMMA SystemFacts ==
  /\ FirstColumnId \in Nat \ {0}
  /\ "tables" \in Table /\ "columns" \in Table
  /\ RowsPerPage \in Nat \ {0}
  BY CatalogAssumption DEF FirstColumnId, Table

LEMMA RowFacts ==
  ASSUME Types
  PROVE  /\ \A T \in Table : /\ heap[T] \in Seq(Row) /\ Count(T) \in Nat
                             /\ DOMAIN heap[T] = 1 .. Count(T)
                             /\ \A i \in 1 .. Count(T) : heap[T][i] \in Row
         /\ \A T \in Table : Home(T) \in Table
  BY LenProperties, ElementOfSeq DEF Types, Count, Home, Table

\* A row after its page was written or read, or it was deleted.
Same(a, b) ==
  b \in Row /\ b.id = a.id /\ b.name = a.name /\ b.table = a.table /\ b.first = a.first

LEMMA MappedRows ==
  ASSUME NEW s \in Seq(Row), NEW t, DOMAIN t = DOMAIN s,
         t = [i \in DOMAIN s |-> t[i]], \A i \in DOMAIN s : t[i] \in Row
  PROVE  t \in Seq(Row) /\ Len(t) = Len(s)
<1>1. Len(s) \in Nat /\ DOMAIN s = 1 .. Len(s)
  BY LenProperties
<1>2. t \in [1 .. Len(s) -> Row]
  BY <1>1
<1> QED BY <1>1, <1>2, LenProperties

LEMMA SavedRows ==
  ASSUME NEW s \in Seq(Row), NEW ks
  PROVE  LET t == SavePages(s, ks)
         IN  /\ t \in Seq(Row) /\ Len(t) = Len(s)
             /\ \A i \in 1 .. Len(s) :
                  /\ Same(s[i], t[i]) /\ t[i].live = s[i].live
                  /\ t[i].saved = IF PageOf(i) \in ks THEN s[i].live ELSE s[i].saved
<1> DEFINE t == SavePages(s, ks)
<1>1. Len(s) \in Nat /\ DOMAIN s = 1 .. Len(s) /\ \A i \in DOMAIN s : s[i] \in Row
  BY LenProperties, ElementOfSeq
<1>2. DOMAIN t = DOMAIN s /\ t = [i \in DOMAIN s |-> t[i]]
  BY DEF SavePages
<1>3. ASSUME NEW i \in DOMAIN s
      PROVE  /\ Same(s[i], t[i]) /\ t[i].live = s[i].live
             /\ t[i].saved = IF PageOf(i) \in ks THEN s[i].live ELSE s[i].saved
  BY <1>1, <1>3 DEF SavePages, Same, Row
<1> QED BY <1>1, <1>2, <1>3, MappedRows DEF Same

LEMMA RereadRows ==
  ASSUME NEW s \in Seq(Row), NEW ks
  PROVE  LET t == Reread(s, ks)
         IN  /\ t \in Seq(Row) /\ Len(t) = Len(s)
             /\ \A i \in 1 .. Len(s) :
                  /\ Same(s[i], t[i]) /\ t[i].saved = s[i].saved
                  /\ t[i].live = IF PageOf(i) \in ks THEN s[i].saved ELSE s[i].live
<1> DEFINE t == Reread(s, ks)
<1>1. Len(s) \in Nat /\ DOMAIN s = 1 .. Len(s) /\ \A i \in DOMAIN s : s[i] \in Row
  BY LenProperties, ElementOfSeq
<1>2. DOMAIN t = DOMAIN s /\ t = [i \in DOMAIN s |-> t[i]]
  BY DEF Reread
<1>3. ASSUME NEW i \in DOMAIN s
      PROVE  /\ Same(s[i], t[i]) /\ t[i].saved = s[i].saved
             /\ t[i].live = IF PageOf(i) \in ks THEN s[i].saved ELSE s[i].live
  BY <1>1, <1>3 DEF Reread, Same, Row
<1> QED BY <1>1, <1>2, <1>3, MappedRows DEF Same

LEMMA DeletedRows ==
  ASSUME Types, NEW T \in Table, NEW is
  PROVE  Delete(T, is) \in Seq(Row) /\ Len(Delete(T, is)) = Count(T)
<1> DEFINE s == heap[T]
           t == Delete(T, is)
<1>1. s \in Seq(Row) /\ DOMAIN s = 1 .. Len(s) /\ \A i \in DOMAIN s : s[i] \in Row
  BY RowFacts DEF Count
<1>2. DOMAIN t = DOMAIN s /\ t = [i \in DOMAIN s |-> t[i]]
  BY DEF Delete
<1>3. ASSUME NEW i \in DOMAIN s PROVE t[i] \in Row
  BY <1>1, <1>3 DEF Delete, Row
<1> QED BY <1>1, <1>2, <1>3, MappedRows DEF Count

\* A row is new at the end of a heap; the rest of its page was written with it.
Grown(H, row) ==
  /\ heap' \in [Table -> Seq(Row)]
  /\ \A U \in Table \ {H} : heap'[U] = heap[U]
  /\ Len(heap'[H]) = Count(H) + 1
  /\ \A i \in 1 .. Count(H) :
       /\ Same(heap[H][i], heap'[H][i])
       /\ heap'[H][i].live = heap[H][i].live
       /\ heap'[H][i].saved \in {heap[H][i].saved, heap[H][i].live}
  /\ Same(row, heap'[H][Count(H) + 1])
  /\ heap'[H][Count(H) + 1].live /\ heap'[H][Count(H) + 1].saved

LEMMA InsertedRow ==
  ASSUME Types, NEW T \in Table, NEW row \in Row, row.live, row.saved, NEW n \in Nat,
         InsertTuple(T, row, n)
  PROVE  /\ Grown(Home(T), row)
         /\ dirty' \in [Table -> SUBSET Pages]
         /\ next_page_id' \in Nat /\ next_page_id' >= next_page_id + n
         /\ linked' = linked /\ hole' = hole
<1> DEFINE H == Home(T)
<1>1. PICK s : s = heap[H]
  OBVIOUS
<1>2. H \in Table /\ s \in Seq(Row) /\ Len(s) \in Nat /\ Count(H) = Len(s)
  BY <1>1, RowFacts DEF Count
<1>3. PICK r : r = Append(s, row)
  OBVIOUS
<1>4. /\ r \in Seq(Row) /\ Len(r) = Len(s) + 1
      /\ \A i \in 1 .. Len(s) : r[i] = s[i]
      /\ r[Len(s) + 1] = row
  BY <1>2, <1>3, AppendProperties
<1>5. PICK t : t = SavePages(r, {PageOf(Len(r))})
  OBVIOUS
<1>6. /\ t \in Seq(Row) /\ Len(t) = Len(r)
      /\ \A i \in 1 .. Len(r) :
           /\ Same(r[i], t[i]) /\ t[i].live = r[i].live
           /\ t[i].saved = IF PageOf(i) \in {PageOf(Len(r))} THEN r[i].live ELSE r[i].saved
  BY <1>4, <1>5, SavedRows
<1>7. heap' = [heap EXCEPT ![H] = t] /\ linked' = linked /\ hole' = hole
  BY <1>1, <1>3, <1>5 DEF InsertTuple
<1>8. heap' \in [Table -> Seq(Row)] /\ heap'[H] = t
      /\ \A U \in Table \ {H} : heap'[U] = heap[U]
  BY <1>2, <1>6, <1>7 DEF Types
<1>9. /\ dirty' \in [Table -> SUBSET Pages]
      /\ next_page_id' \in Nat /\ next_page_id' >= next_page_id + n
  <2>1. NewPages(H) \subseteq {PageOf(Len(s) + 1)} /\ PageOf(Len(s) + 1) \in Nat \ {0}
    BY <1>1, <1>2, PageFacts DEF NewPages
  <2>2. Cardinality(NewPages(H)) \in Nat
    BY <2>1, FS_Singleton, FS_Subset, FS_CardinalityType
  <2>3. \A k \in NewPages(H) : k - 1 \in Pages
    <3>1. PageCount(heap[H]) \in Nat
      BY <1>1, <1>2, PageFacts, EmptySeq DEF PageCount
    <3>2. Larger(1, PageCount(heap[H])) \in Nat /\ Larger(1, PageCount(heap[H])) >= 1
      BY <3>1 DEF Larger
    <3> QED BY <2>1, <3>2 DEF NewPages, Pages
  <2> QED BY <1>2, <2>2, <2>3 DEF InsertTuple, Types
<1>10. 1 .. Len(s) \subseteq 1 .. Len(r) /\ Len(s) + 1 \in 1 .. Len(r) /\ Len(r) = Len(s) + 1
  BY <1>2, <1>4
<1>11. \A i \in 1 .. Len(s) : /\ Same(s[i], t[i]) /\ t[i].live = s[i].live
                              /\ t[i].saved \in {s[i].saved, s[i].live}
  BY <1>4, <1>6, <1>10
<1>12. Same(row, t[Len(s) + 1]) /\ t[Len(s) + 1].live /\ t[Len(s) + 1].saved
  BY <1>4, <1>6, <1>10
<1> QED BY <1>1, <1>2, <1>4, <1>6, <1>7, <1>8, <1>9, <1>11, <1>12 DEF Grown

\* Every row stays what it was, but for being written or read again.
Kept ==
  /\ heap' \in [Table -> Seq(Row)]
  /\ \A T \in Table :
       /\ Len(heap'[T]) = Count(T)
       /\ \A i \in 1 .. Count(T) :
            /\ Same(heap[T][i], heap'[T][i])
            /\ heap'[T][i].live \in {heap[T][i].live, heap[T][i].saved}
            /\ heap'[T][i].saved \in {heap[T][i].live, heap[T][i].saved}
            /\ "revived" \notin history' => heap'[T][i].live = heap[T][i].live

LEMMA SameRows ==
  ASSUME Types, heap' = heap
  PROVE  Kept
  BY RowFacts DEF Types, Kept, Same, Count, Row

LEMMA OneHeapChanges ==
  ASSUME Types, NEW T \in Table, NEW t \in Seq(Row), heap' = [heap EXCEPT ![T] = t],
         Len(t) = Count(T),
         \A i \in 1 .. Count(T) :
           /\ Same(heap[T][i], t[i])
           /\ t[i].live \in {heap[T][i].live, heap[T][i].saved}
           /\ t[i].saved \in {heap[T][i].live, heap[T][i].saved}
           /\ "revived" \notin history' => t[i].live = heap[T][i].live
  PROVE  Kept
<1>1. heap' \in [Table -> Seq(Row)] /\ heap'[T] = t
      /\ \A U \in Table \ {T} : heap'[U] = heap[U]
  BY DEF Types
<1>2. ASSUME NEW U \in Table \ {T}, NEW i \in 1 .. Count(U)
      PROVE  Same(heap[U][i], heap'[U][i])
  BY <1>1, RowFacts DEF Same
<1> QED BY <1>1, <1>2 DEF Kept, Count

LEMMA WrittenPages ==
  ASSUME Types, NEW T \in Table, NEW ks \in SUBSET Pages, WritePages(T, ks)
  PROVE  /\ Kept /\ hole' = hole
         /\ dirty' \in [Table -> SUBSET Pages] /\ linked' \in [Table -> SUBSET Pages]
<1>1. PICK s : s = heap[T]
  OBVIOUS
<1>2. s \in Seq(Row) /\ Len(s) = Count(T)
  BY <1>1, RowFacts DEF Count
<1>3. PICK t : t = SavePages(s, ks)
  OBVIOUS
<1>4. /\ t \in Seq(Row) /\ Len(t) = Len(s)
      /\ \A i \in 1 .. Len(s) :
           /\ Same(s[i], t[i]) /\ t[i].live = s[i].live
           /\ t[i].saved = IF PageOf(i) \in ks THEN s[i].live ELSE s[i].saved
  BY <1>2, <1>3, SavedRows
<1>5. heap' = [heap EXCEPT ![T] = t]
  BY <1>1, <1>3 DEF WritePages
<1>6. Kept
  BY <1>1, <1>2, <1>4, <1>5, OneHeapChanges
<1>7. dirty' \in [Table -> SUBSET Pages] /\ linked' \in [Table -> SUBSET Pages]
  BY DEF WritePages, Types
<1> QED BY <1>6, <1>7 DEF WritePages

LEMMA KeptFacts ==
  ASSUME Types, Structure, Numbered, Kept, hole' = hole
  PROVE  /\ \A T \in Table : Count(T)' = Count(T)
         /\ "drop" \notin history /\ ~hole =>
              \A T \in Table : \A i \in 1 .. Count(T) :
                heap'[T][i].live /\ heap'[T][i].saved /\ heap'[T][i].id = i - 1
<1>1. ASSUME NEW T \in Table PROVE Count(T)' = Count(T)
  BY DEF Kept, Count
<1>2. ASSUME "drop" \notin history, ~hole, NEW T \in Table, NEW i \in 1 .. Count(T)
      PROVE  heap'[T][i].live /\ heap'[T][i].saved /\ heap'[T][i].id = i - 1
  <2>1. heap[T][i].live /\ heap[T][i].saved /\ heap[T][i].id = i - 1
    BY <1>2 DEF Numbered
  <2>2. Same(heap[T][i], heap'[T][i])
    BY <1>2 DEF Kept
  <2>3. heap'[T][i].live = heap[T][i].live /\ heap'[T][i].saved = heap[T][i].saved
    BY <1>2, <2>1 DEF Kept
  <2> QED BY <2>1, <2>2, <2>3 DEF Same
<1> QED BY <1>1, <1>2

\* A step that keeps the rows and the ids keeps the structure.
LEMMA KeptInv ==
  ASSUME Inv, Kept, hole' = hole, mode' = mode, history \subseteq history',
         next_table_id' = next_table_id, next_column_id' = next_column_id,
         mode = "open"
  PROVE  Structure' /\ Numbered' /\ (Booted => Booted')
<1>1. /\ \A T \in Table : Count(T)' = Count(T)
      /\ "drop" \notin history /\ ~hole =>
           \A T \in Table : \A i \in 1 .. Count(T) :
             heap'[T][i].live /\ heap'[T][i].saved /\ heap'[T][i].id = i - 1
  BY KeptFacts DEF Inv
<1>2. Structure'
  BY <1>1, SystemFacts DEF Inv, Structure
<1>3. Numbered'
  <2>1. SUFFICES ASSUME "drop" \notin history', ~hole' PROVE Numbered'
    BY DEF Numbered
  <2>2. "drop" \notin history /\ ~hole
    BY <2>1
  <2> QED BY <1>1, <2>2, SystemFacts DEF Inv, Numbered
<1>4. Booted => Booted'
  BY <1>1, SystemFacts DEF Booted
<1> QED BY <1>2, <1>3, <1>4

-----------------------------------------------------------------------------
(* The steps.                                                              *)

LEMMA InitInv ==
  ASSUME Init
  PROVE  Inv
<1>1. Types
  BY SystemFacts, EmptySeq DEF Init, Types, Table, FirstTableId, FIRST_USABLE_PAGE_ID
<1>2. \A T \in Table : Count(T) = 0
  BY EmptySeq DEF Init, Count
<1>3. Structure
  BY <1>2, SystemFacts DEF Init, Structure
<1>4. Numbered
  BY <1>2 DEF Init, Numbered
<1> QED BY <1>1, <1>3, <1>4 DEF Inv

\* CreateNewSystemTables: a row at the end of one of the two system tables.
LEMMA BootStep ==
  ASSUME Inv, mode = "boot", NEW T \in Table, NEW row \in Row,
         row.live, row.saved, row.id = Count(T),
         T = "tables" => Count("tables") < 2,
         T = "columns" => Count("tables") = 2 /\ Count("columns") < FirstColumnId,
         InsertTuple(T, row, 0),
         UNCHANGED <<next_table_id, next_column_id, op, mode, made, history>>
  PROVE  Inv' /\ (Booted => Booted')
<1> USE SystemFacts DEF Inv, Grown
<1>1. ~hole /\ Home(T) = T
  BY DEF Structure, Home
<1>2. /\ Grown(T, row) /\ dirty' \in [Table -> SUBSET Pages]
      /\ next_page_id' \in Nat /\ linked' = linked /\ hole' = hole
  BY <1>1, InsertedRow
<1>3. Types'
  BY <1>2 DEF Types
<1>4. Count(T)' = Count(T) + 1 /\ \A U \in Table \ {T} : Count(U)' = Count(U)
  BY <1>2 DEF Count
<1>5. \A U \in Table : Count(U) \in Nat
  BY RowFacts
<1>6. Structure'
  <2>1. CASE T = "tables"
    BY <1>1, <1>2, <1>4, <1>5, <2>1 DEF Structure, Table
  <2>2. CASE T = "columns"
    BY <1>1, <1>2, <1>4, <1>5, <2>2 DEF Structure, Table
  <2> QED BY <2>1, <2>2 DEF Table
<1>7. Numbered'
  <2>1. SUFFICES ASSUME "drop" \notin history, NEW U \in Table, NEW i \in 1 .. Count(U)'
                 PROVE  heap'[U][i].live /\ heap'[U][i].saved /\ heap'[U][i].id = i - 1
    BY DEF Numbered
  <2>2. CASE U # T
    <3>1. i \in 1 .. Count(U) /\ heap'[U] = heap[U]
      BY <1>2, <1>4, <2>1, <2>2
    <3> QED BY <1>1, <2>1, <3>1 DEF Numbered
  <2>3. CASE U = T /\ i = Count(T) + 1
    BY <1>2, <1>5, <2>3 DEF Same
  <2>4. CASE U = T /\ i \in 1 .. Count(T)
    BY <1>1, <1>2, <2>1, <2>4 DEF Numbered, Same
  <2> QED BY <1>4, <1>5, <2>2, <2>3, <2>4
<1>8. Booted => Booted'
  BY <1>2, <1>4, <1>5 DEF Booted
<1> QED BY <1>3, <1>6, <1>7, <1>8

LEMMA SystemRowFacts ==
  ASSUME NEW i \in {0, 1}
  PROVE  LET row == SystemRows[i + 1]
         IN  /\ row \in Row /\ row.live /\ row.saved
             /\ row.id = i /\ row.name = SystemName[i + 1]
<1>1. ASSUME NEW id \in Nat, NEW n \in SystemNames, NEW first \in Nat
      PROVE  LET r == TableRow(id, n, first)
             IN  r \in Row /\ r.live /\ r.saved /\ r.id = id /\ r.name = n
  BY DEF TableRow, Row, NoId
<1>2. /\ SystemRows[1] = TableRow(0, SystemName[1], 0)
      /\ SystemRows[2] = TableRow(1, SystemName[2], 1)
  BY DEF SystemRows
<1>3. SystemName[1] \in SystemNames /\ SystemName[2] \in SystemNames
  BY DEF SystemNames
<1>4. CASE i = 0
  BY <1>1, <1>2, <1>3, <1>4
<1>5. CASE i = 1
  BY <1>1, <1>2, <1>3, <1>5
<1> QED BY <1>4, <1>5

LEMMA BootTablesStep ==
  ASSUME Inv, BootTables
  PROVE  Inv' /\ (Booted => Booted')
<1> USE SystemFacts
<1>1. Count("tables") \in Nat /\ Count("tables") < 2
  BY RowFacts DEF BootTables, Inv, Count
<1>2. DEFINE row == SystemRows[Count("tables") + 1]
<1>3. Count("tables") \in {0, 1}
  BY <1>1
<1>4. row \in Row /\ row.live /\ row.saved /\ row.id = Count("tables")
  BY <1>3, SystemRowFacts
<1>5. InsertTuple("tables", row, 0)
  BY DEF BootTables, Count
<1> HIDE DEF row
<1> QED BY <1>1, <1>4, <1>5, BootStep DEF BootTables

LEMMA BootColumnsStep ==
  ASSUME Inv, BootColumns
  PROVE  Inv' /\ (Booted => Booted')
<1> USE SystemFacts
<1>1. Count("columns") \in Nat /\ Count("columns") < FirstColumnId /\ Count("tables") = 2
  BY RowFacts DEF BootColumns, Inv, Count
<1>2. DEFINE row == SystemColumnRow(Count("columns"))
<1>3. row \in Row /\ row.live /\ row.saved /\ row.id = Count("columns")
  BY <1>1 DEF SystemColumnRow, ColumnRow, Row, NoId
<1>4. InsertTuple("columns", row, 0)
  BY DEF BootColumns, Count
<1> HIDE DEF row
<1> QED BY <1>1, <1>3, <1>4, BootStep DEF BootColumns

LEMMA EndBootStep ==
  ASSUME Inv, EndBoot
  PROVE  Inv' /\ (Booted => Booted')
<1> USE SystemFacts DEF Inv, EndBoot, disk_vars, ids
<1>1. Types'
  BY DEF Types
<1>2. \A T \in Table : Count(T)' = Count(T)
  BY DEF Count
<1>3. Count("columns") = FirstColumnId /\ Count("tables") = 2
  BY DEF Count, Structure
<1>4. Structure'
  BY <1>2, <1>3 DEF Structure
<1>5. Numbered'
  BY <1>2, <1>3 DEF Numbered, Structure, FirstTableId
<1>6. Booted => Booted'
  BY <1>2 DEF Booted
<1> QED BY <1>1, <1>4, <1>5, <1>6

\* A row of a table or of a column a user makes, with the next id.
LEMMA UserRowStep ==
  ASSUME Inv, mode = "open", NEW T \in Table, NEW row \in Row, NEW n \in Nat,
         row.live, row.saved, InsertTuple(T, row, n),
         UNCHANGED <<hole, mode, made>>,
         history \subseteq history', history' \subseteq history \cup {"reused"},
         op' = Idle \/ op' \in CreateOp \/ DropOp(op'),
         row.id = IF T = "tables" THEN next_table_id ELSE next_column_id,
         next_table_id' = next_table_id + (IF T = "tables" THEN 1 ELSE 0),
         next_column_id' = next_column_id + (IF T = "columns" THEN 1 ELSE 0)
  PROVE  Inv' /\ (Booted => Booted')
<1> USE SystemFacts DEF Inv, Grown
<1>0. PICK H : H = Home(T)
  OBVIOUS
<1>1. H \in Table /\ H = (IF hole THEN "tables" ELSE T)
  BY <1>0, RowFacts DEF Home
<1>2. /\ Grown(H, row) /\ dirty' \in [Table -> SUBSET Pages]
      /\ next_page_id' \in Nat /\ linked' = linked /\ hole' = hole
  BY <1>0, InsertedRow
<1>3. next_table_id \in Nat /\ next_column_id \in Nat
  BY DEF Types
<1>4. Types'
  BY <1>2, <1>3 DEF Types
<1>5. Count(H)' = Count(H) + 1 /\ \A U \in Table \ {H} : Count(U)' = Count(U)
  BY <1>2 DEF Count
<1>6. \A U \in Table : Count(U) \in Nat
  BY RowFacts
<1>7. Structure'
  <2>1. CASE H = "tables"
    BY <1>1, <1>2, <1>5, <1>6, <2>1 DEF Structure, Table
  <2>2. CASE H = "columns"
    BY <1>1, <1>2, <1>5, <1>6, <2>2 DEF Structure, Table
  <2> QED BY <1>1, <2>1, <2>2 DEF Table
<1>8. Numbered'
  <2>1. SUFFICES ASSUME "drop" \notin history, ~hole PROVE Numbered'
    <3>1. ASSUME "drop" \notin history', ~hole' PROVE "drop" \notin history /\ ~hole
      BY <1>2, <3>1
    <3> QED BY <3>1 DEF Numbered
  <2>2. H = T
    BY <1>1, <2>1
  <2>3. next_table_id = Count("tables") /\ next_column_id = Count("columns")
    BY <2>1 DEF Numbered
  <2>4. row.id = Count(T)
    BY <2>3 DEF Table
  <2>5. ASSUME NEW U \in Table, NEW i \in 1 .. Count(U)'
        PROVE  heap'[U][i].live /\ heap'[U][i].saved /\ heap'[U][i].id = i - 1
    <3>1. CASE U # T
      <4>1. Count(U)' = Count(U) /\ heap'[U] = heap[U]
        BY <1>2, <1>5, <2>2, <3>1
      <4>2. \A j \in 1 .. Count(U) :
              heap[U][j].live /\ heap[U][j].saved /\ heap[U][j].id = j - 1
        BY <2>1 DEF Numbered
      <4>3. i \in 1 .. Count(U)
        BY <2>5, <4>1
      <4> QED BY <4>1, <4>2, <4>3
    <3>2. CASE U = T /\ i = Count(T) + 1
      BY <1>2, <1>6, <2>2, <2>4, <3>2 DEF Same
    <3>3. CASE U = T /\ i \in 1 .. Count(T)
      <4>1. heap[T][i].live /\ heap[T][i].saved /\ heap[T][i].id = i - 1
        BY <2>1, <3>3 DEF Numbered
      <4>2. /\ Same(heap[T][i], heap'[T][i]) /\ heap'[T][i].live = heap[T][i].live
            /\ heap'[T][i].saved \in {heap[T][i].saved, heap[T][i].live}
        BY <1>2, <2>2, <3>3 DEF Grown
      <4>3. heap'[T][i].id = heap[T][i].id
        BY <4>2 DEF Same
      <4> QED BY <3>3, <4>1, <4>2, <4>3
    <3>4. ASSUME U = T PROVE i = Count(T) + 1 \/ i \in 1 .. Count(T)
      <4>1. PICK c \in Nat : c = Count(T)
        BY <1>6
      <4>2. i \in 1 .. c + 1
        BY <1>5, <2>2, <2>5, <3>4, <4>1
      <4>3. i = c + 1 \/ i \in 1 .. c
        BY <4>2
      <4> QED BY <4>1, <4>3
    <3> QED BY <3>1, <3>2, <3>3, <3>4
  <2>6. next_table_id' = Count("tables")' /\ next_column_id' = Count("columns")'
    <3>1. CASE T = "tables"
      BY <1>5, <1>6, <2>2, <2>3, <3>1
    <3>2. CASE T = "columns"
      BY <1>5, <1>6, <2>2, <2>3, <3>2
    <3> QED BY <3>1, <3>2 DEF Table
  <2> QED BY <2>5, <2>6 DEF Numbered
<1>9. Booted => Booted'
  BY <1>2, <1>5, <1>6 DEF Booted
<1> QED BY <1>4, <1>7, <1>8, <1>9

LEMMA CreateTableStep ==
  ASSUME Inv, NEW n \in Name, NEW c \in ColumnCount, CreateTable(n, c)
  PROVE  Inv' /\ (Booted => Booted')
<1> USE SystemFacts DEF CreateTable
<1> DEFINE row == TableRow(next_table_id, Stored(n), next_page_id)
<1>1. next_table_id \in Nat /\ next_column_id \in Nat /\ next_page_id \in Nat
      /\ Count("tables") \in Nat /\ c \in Nat
  BY RowFacts, CatalogAssumption DEF Inv, Types
<1>2. row \in Row /\ row.live /\ row.saved /\ row.id = next_table_id
  BY <1>1 DEF TableRow, Row, NoId
<1>3. InsertTuple("tables", row, 1)
  OBVIOUS
<1>4. hole' = hole
  BY DEF InsertTuple
<1>5. op' \in CreateOp
  BY <1>1 DEF CreateOp, Count
<1> HIDE DEF row
<1>6. /\ mode = "open" /\ UNCHANGED <<mode, made>>
      /\ history \subseteq history' /\ history' \subseteq history \cup {"reused"}
  BY DEF Ready
<1>7. /\ row.id = IF "tables" = "tables" THEN next_table_id ELSE next_column_id
      /\ next_table_id' = next_table_id + (IF "tables" = "tables" THEN 1 ELSE 0)
      /\ next_column_id' = next_column_id + (IF "tables" = "columns" THEN 1 ELSE 0)
  BY <1>1, <1>2
<1> QED BY <1>2, <1>3, <1>4, <1>5, <1>6, <1>7, UserRowStep

LEMMA InsertColumnStep ==
  ASSUME Inv, InsertColumn
  PROVE  Inv' /\ (Booted => Booted')
<1> USE SystemFacts DEF InsertColumn
<1> DEFINE row == ColumnRow(next_column_id, op.id)
<1>1. op \in CreateOp
  BY DEF Inv, Types, DropOp, Idle
<1>2. mode = "open"
  BY DEF Inv, Structure, Idle
<1>3. next_table_id \in Nat /\ next_column_id \in Nat
      /\ \A T \in Table : Count(T) \in Nat /\ Home(T) \in Table
  BY RowFacts DEF Inv, Types
<1>4. row \in Row /\ row.live /\ row.saved /\ row.id = next_column_id
  BY <1>1, <1>3 DEF CreateOp, ColumnRow, Row, NoId
<1>5. InsertTuple("columns", row, 0) /\ hole' = hole
  BY DEF InsertTuple
<1>6. op' \in CreateOp
  <2>1. PICK k \in Nat : k = Len(heap[Home("columns")]) + 1
    BY <1>3 DEF Count
  <2>2. op' = [op EXCEPT !.left = op.left - 1, !.columns = op.columns \cup {k}]
    BY <2>1
  <2>3. op.left - 1 \in Nat /\ op.columns \cup {k} \in SUBSET Nat
    BY <1>1 DEF CreateOp
  <2> HIDE DEF InsertColumn
  <2> QED BY <1>1, <2>2, <2>3 DEF CreateOp
<1> HIDE DEF row
<1>7. /\ row.id = IF "columns" = "tables" THEN next_table_id ELSE next_column_id
      /\ next_table_id' = next_table_id + (IF "columns" = "tables" THEN 1 ELSE 0)
      /\ next_column_id' = next_column_id + (IF "columns" = "columns" THEN 1 ELSE 0)
      /\ UNCHANGED <<mode, made, history>>
  BY <1>3, <1>4
<1> QED BY <1>2, <1>4, <1>5, <1>6, <1>7, UserRowStep

\* FlushPage of a system table's first page.
LEMMA FlushFacts ==
  ASSUME Types, NEW T \in Table, FlushFirstPage(T)
  PROVE  /\ Kept /\ hole' = hole
         /\ dirty' \in [Table -> SUBSET Pages] /\ linked' \in [Table -> SUBSET Pages]
<1>1. PICK ks \in SUBSET Pages : ks = {1} \cap dirty[T]
  BY DEF Types
<1>2. WritePages(T, ks)
  BY <1>1 DEF FlushFirstPage
<1> QED BY <1>2, WrittenPages

LEMMA FlushTablesStep ==
  ASSUME Inv, FlushTables
  PROVE  Inv' /\ (Booted => Booted')
<1>1. mode = "open"
  BY DEF FlushTables, Inv, Structure, Idle
<1>2. /\ Kept /\ hole' = hole
      /\ dirty' \in [Table -> SUBSET Pages] /\ linked' \in [Table -> SUBSET Pages]
  BY FlushFacts, SystemFacts DEF FlushTables, Inv
<1>3. op' \in CreateOp \/ DropOp(op')
  <2>1. CASE op.step = "columns"
    <3>1. op \in CreateOp
      BY <2>1 DEF Inv, Types, DropOp, Idle
    <3> QED BY <2>1, <3>1 DEF FlushTables, CreateOp
  <2>2. CASE op.step = "dropped"
    <3>1. op = [step |-> "dropped"]
      BY <2>2 DEF Inv, Types, DropOp, CreateOp, Idle
    <3>2. op' = [step |-> "flushDrop"]
      BY <2>2, <3>1 DEF FlushTables
    <3> QED BY <3>2 DEF DropOp
  <2> QED BY <2>1, <2>2 DEF FlushTables
<1>4. UNCHANGED <<ids, mode, made, history>>
  BY DEF FlushTables
<1>5. Types'
  BY <1>2, <1>3, <1>4 DEF Inv, Types, Kept, ids
<1> QED BY <1>1, <1>2, <1>4, <1>5, KeptInv DEF Inv, ids

LEMMA EndStatementStep ==
  ASSUME Inv, EndStatement
  PROVE  Inv' /\ (Booted => Booted')
<1>1. mode = "open"
  BY DEF EndStatement, Inv, Structure, Idle
<1>2. /\ Kept /\ hole' = hole
      /\ dirty' \in [Table -> SUBSET Pages] /\ linked' \in [Table -> SUBSET Pages]
  BY FlushFacts, SystemFacts DEF EndStatement, Inv
<1>3. \A t \in made' : t.name \in Name
  <2>1. CASE op.step = "flush"
    <3>1. op \in CreateOp
      BY <2>1 DEF Inv, Types, DropOp, Idle
    <3>2. MadeTable.name \in Name
      BY <3>1 DEF CreateOp, MadeTable
    <3> QED BY <2>1, <3>2 DEF EndStatement, Inv, Types
  <2>2. CASE op.step # "flush"
    BY <2>2 DEF EndStatement, Inv, Types
  <2> QED BY <2>1, <2>2
<1>4. UNCHANGED <<ids, mode, history>> /\ op' = Idle
  BY DEF EndStatement
<1>5. Types'
  BY <1>2, <1>3, <1>4 DEF Inv, Types, Kept, ids
<1> QED BY <1>1, <1>2, <1>4, <1>5, KeptInv DEF Inv, ids

LEMMA DropTableStep ==
  ASSUME Inv, NEW n \in Droppable, DropTable(n)
  PROVE  Inv' /\ (Booted => Booted')
<1> DEFINE ref == GetTableRef(n)
<1>1. heap' \in [Table -> Seq(Row)] /\ \A T \in Table : Count(T)' = Count(T)
  <2>1. heap' = [T \in Table |->
                   Delete(T, IF T = "tables" THEN {ref.row} ELSE ref.columns)]
    BY DEF DropTable
  <2>2. \A T \in Table : \A is : Delete(T, is) \in Seq(Row) /\ Len(Delete(T, is)) = Count(T)
    BY DeletedRows DEF Inv
  <2> HIDE DEF ref
  <2> QED BY <2>1, <2>2 DEF Count
<1>2. DropOp(op')
  BY DEF DropTable, DropOp
<1>3. /\ mode = "open" /\ history' = history \cup {"drop"} /\ made' \subseteq made
      /\ UNCHANGED <<dirty, linked, hole, ids, mode>>
  BY DEF DropTable, Ready
<1>4. Types'
  BY <1>1, <1>2, <1>3 DEF Inv, Types, ids
<1>5. Structure'
  BY <1>1, <1>3, SystemFacts DEF Inv, Structure, ids
<1>6. Numbered'
  BY <1>3 DEF Numbered
<1>7. Booted => Booted'
  BY <1>1, <1>3, SystemFacts DEF Booted
<1> QED BY <1>4, <1>5, <1>6, <1>7 DEF Inv

\* Page k of T is written, or read again as it is in the file.
LEMMA EvictedPage ==
  ASSUME Inv, NEW T \in Table, NEW k \in 1 .. MaxRows, Evict(T, k)
  PROVE  /\ Kept /\ hole' = hole
         /\ dirty' \in [Table -> SUBSET Pages] /\ linked' \in [Table -> SUBSET Pages]
         /\ history \subseteq history' /\ history' \subseteq history \cup {"revived"}
<1>1. PICK s : s = heap[T]
  OBVIOUS
<1>2. s \in Seq(Row) /\ Len(s) = Count(T) /\ DOMAIN s = 1 .. Count(T)
  BY <1>1, RowFacts DEF Count, Inv
<1>3. k \in Pages /\ hole' = hole
  BY DEF Evict, Pages
<1>4. CASE /\ k \in dirty[T]
           /\ heap' = [heap EXCEPT ![T] = SavePages(@, {k})]
           /\ linked' = [linked EXCEPT ![T] = @ \cup ({k} \ {PageCount(heap[T])})]
           /\ UNCHANGED <<dirty, history>>
  <2>1. PICK t : t = SavePages(s, {k})
    OBVIOUS
  <2>2. /\ t \in Seq(Row) /\ Len(t) = Len(s)
        /\ \A i \in 1 .. Len(s) :
             /\ Same(s[i], t[i]) /\ t[i].live = s[i].live
             /\ t[i].saved = IF PageOf(i) \in {k} THEN s[i].live ELSE s[i].saved
    BY <1>2, <2>1, SavedRows
  <2>3. heap' = [heap EXCEPT ![T] = t]
    BY <1>1, <1>4, <2>1
  <2>4. Kept
    BY <1>1, <1>2, <2>2, <2>3, OneHeapChanges DEF Inv
  <2>5. linked' \in [Table -> SUBSET Pages]
    BY <1>3, <1>4 DEF Inv, Types
  <2> QED BY <1>3, <1>4, <2>4, <2>5 DEF Inv, Types
<1>5. CASE /\ heap' = [heap EXCEPT ![T] = Reread(@, {k})]
           /\ dirty' = [dirty EXCEPT ![T] = @ \cup {k}]
           /\ history' = history \cup {e \in {"revived"} : Forgets(T, k)}
           /\ UNCHANGED linked
  <2>1. PICK t : t = Reread(s, {k})
    OBVIOUS
  <2>2. /\ t \in Seq(Row) /\ Len(t) = Len(s)
        /\ \A i \in 1 .. Len(s) :
             /\ Same(s[i], t[i]) /\ t[i].saved = s[i].saved
             /\ t[i].live = IF PageOf(i) \in {k} THEN s[i].saved ELSE s[i].live
    BY <1>2, <2>1, RereadRows
  <2>3. heap' = [heap EXCEPT ![T] = t]
    BY <1>1, <1>5, <2>1
  <2>4. ASSUME "revived" \notin history', NEW i \in 1 .. Count(T)
        PROVE  t[i].live = s[i].live
    <3>1. ~Forgets(T, k)
      BY <1>5, <2>4
    <3>2. PageOf(i) = k => s[i].live = s[i].saved
      BY <1>1, <1>2, <3>1 DEF Forgets
    <3> QED BY <1>2, <2>2, <3>2
  <2>5. Kept
    BY <1>1, <1>2, <2>2, <2>3, <2>4, OneHeapChanges DEF Inv
  <2>6. dirty' \in [Table -> SUBSET Pages]
    BY <1>3, <1>5 DEF Inv, Types
  <2>7. history \subseteq history' /\ history' \subseteq history \cup {"revived"}
    BY <1>5
  <2> QED BY <1>3, <1>5, <2>5, <2>6, <2>7 DEF Inv, Types
<1> QED BY <1>4, <1>5 DEF Evict

LEMMA EvictStep ==
  ASSUME Inv, NEW T \in Table, NEW k \in 1 .. MaxRows, Evict(T, k)
  PROVE  Inv' /\ (Booted => Booted')
<1>1. /\ Kept /\ hole' = hole
      /\ dirty' \in [Table -> SUBSET Pages] /\ linked' \in [Table -> SUBSET Pages]
      /\ history \subseteq history' /\ history' \subseteq history \cup {"revived"}
  BY EvictedPage
<1>2. mode = "open" /\ UNCHANGED <<ids, op, mode, made>>
  BY DEF Evict, Ready
<1>3. Types'
  BY <1>1, <1>2 DEF Inv, Types, Kept, ids
<1> QED BY <1>1, <1>2, <1>3, KeptInv DEF Inv, ids

\* Walking the file from the first page finds a part of the rows, and no row
\* only when there is none.
LEMMA ReachedRows ==
  ASSUME Types, NEW T \in Table, NEW links
  PROVE  LET n == Cardinality(Reachable(T, links))
         IN  /\ n \in 0 .. Count(T)
             /\ Count(T) > 0 => n > 0
             /\ Reachable(T, links) = DOMAIN heap[T] => n = Count(T)
<1> DEFINE R == Reachable(T, links)
<1>1. Count(T) \in Nat /\ DOMAIN heap[T] = 1 .. Count(T)
  BY RowFacts
<1>2. /\ IsFiniteSet(1 .. Count(T)) /\ Cardinality(1 .. Count(T)) = Count(T)
  BY <1>1, FS_Interval
<1>3. R \in SUBSET (1 .. Count(T))
  BY <1>1 DEF Reachable
<1>4. Count(T) > 0 => 1 \in R
  <2>1. SUFFICES ASSUME Count(T) > 0 PROVE 1 \in R
    OBVIOUS
  <2>2. PageOf(1) = 1
    BY PageFacts
  <2>3. 1 .. PageOf(1) - 1 = {}
    BY <2>2
  <2> QED BY <1>1, <2>1, <2>3 DEF Reachable
<1> HIDE DEF R
<1>5. IsFiniteSet(R) /\ Cardinality(R) <= Count(T) /\ Cardinality(R) \in Nat
  BY <1>2, <1>3, FS_Subset, FS_CardinalityType
<1>6. Count(T) > 0 => Cardinality(R) # 0
  BY <1>4, <1>5, FS_EmptySet
<1>7. R = DOMAIN heap[T] => Cardinality(R) = Count(T)
  BY <1>1, <1>2
<1>8. /\ Cardinality(R) \in 0 .. Count(T)
      /\ Count(T) > 0 => Cardinality(R) > 0
  BY <1>1, <1>5, <1>6
<1> QED BY <1>7, <1>8 DEF R

\* What a close or a crash leaves of a system table: n of its rows as t, where r
\* are the rows as they stood when the pages were written.
LeftOf(s, r, n, t) ==
  /\ t \in Seq(Row) /\ Len(t) = n
  /\ \A i \in 1 .. n :
       /\ Same(s[i], t[i])
       /\ t[i].live \in {s[i].live, s[i].saved}
       /\ t[i].saved \in {s[i].live, s[i].saved}
       /\ r[i].live = r[i].saved => t[i].live = s[i].live
  /\ 1 .. n \subseteq DOMAIN r

LEMMA DownRows ==
  ASSUME Types, NEW T \in Table, NEW ks, NEW n \in 0 .. Count(T)
  PROVE  LeftOf(heap[T], SavePages(heap[T], ks), n,
                SubSeq(Reread(SavePages(heap[T], ks), 1 .. PageCount(heap[T])), 1, n))
<1>1. PICK s : s = heap[T]
  OBVIOUS
<1>2. s \in Seq(Row) /\ Len(s) = Count(T) /\ Len(s) \in Nat
  BY <1>1, RowFacts DEF Count
<1>3. PICK r : r = SavePages(s, ks)
  OBVIOUS
<1>4. /\ r \in Seq(Row) /\ Len(r) = Len(s)
      /\ \A i \in 1 .. Len(s) :
           /\ Same(s[i], r[i]) /\ r[i].live = s[i].live
           /\ r[i].saved = IF PageOf(i) \in ks THEN s[i].live ELSE s[i].saved
  BY <1>2, <1>3, SavedRows
<1>5. PICK ps : ps = 1 .. PageCount(s)
  OBVIOUS
<1>6. PICK q : q = Reread(r, ps)
  OBVIOUS
<1>7. /\ q \in Seq(Row) /\ Len(q) = Len(r)
      /\ \A i \in 1 .. Len(r) :
           /\ Same(r[i], q[i]) /\ q[i].saved = r[i].saved
           /\ q[i].live = IF PageOf(i) \in ps THEN r[i].saved ELSE r[i].live
  BY <1>4, <1>6, RereadRows
<1>8. \A i \in 1 .. Len(s) :
        /\ Same(s[i], q[i])
        /\ q[i].live \in {s[i].live, s[i].saved} /\ q[i].saved \in {s[i].live, s[i].saved}
        /\ r[i].live = r[i].saved => q[i].live = s[i].live
  BY <1>4, <1>7 DEF Same
<1>9. n \in Int /\ 1 .. n \subseteq 1 .. Len(s) /\ n \in Nat
  BY <1>2
<1>10. \A i \in 1 .. n : q[i] \in Row
  BY <1>8, <1>9 DEF Same
<1>11. PICK t : t = SubSeq(q, 1, n)
  OBVIOUS
<1>12. /\ t \in Seq(Row) /\ Len(t) = IF 1 <= n THEN n - 1 + 1 ELSE 0
       /\ \A i \in 1 .. n - 1 + 1 : t[i] = q[1 + i - 1]
  BY <1>9, <1>10, <1>11, SubSeqProperties
<1>13. Len(t) = n /\ \A i \in 1 .. n : t[i] = q[i]
  BY <1>9, <1>12
<1>14. 1 .. n \subseteq DOMAIN r
  BY <1>4, <1>9, LenProperties
<1>15. LeftOf(s, r, n, t)
  BY <1>8, <1>9, <1>12, <1>13, <1>14 DEF LeftOf
<1> QED BY <1>1, <1>3, <1>5, <1>6, <1>11, <1>15

LEMMA DownFacts ==
  ASSUME Inv, NEW ks, Down(ks)
  PROVE  /\ heap' \in [Table -> Seq(Row)]
         /\ \A T \in Table :
              /\ Count(T)' \in 0 .. Count(T)
              /\ Count(T) > 0 => Count(T)' > 0
              /\ "cut" \notin history' => Count(T)' = Count(T)
              /\ \A i \in 1 .. Count(T)' :
                   /\ Same(heap[T][i], heap'[T][i])
                   /\ heap'[T][i].live \in {heap[T][i].live, heap[T][i].saved}
                   /\ heap'[T][i].saved \in {heap[T][i].live, heap[T][i].saved}
                   /\ "revived" \notin history' => heap'[T][i].live = heap[T][i].live
         /\ history \subseteq history'
         /\ \A T \in Table : \E links :
              /\ linked[T] \subseteq links
              /\ Count(T)' = Cardinality(Reachable(T, links))
              /\ linked'[T] = {k \in links : k < PageCount(heap'[T])}
<1>1. PICK links : links = [T \in Table |->
                             linked[T] \cup {k \in ks[T] : k < PageCount(heap[T])}]
  OBVIOUS
<1>2. PICK N : N = [T \in Table |-> Cardinality(Reachable(T, links[T]))]
  OBVIOUS
<1>3. heap' = [T \in Table |->
                 SubSeq(Reread(SavePages(heap[T], ks[T]), 1 .. PageCount(heap[T])), 1, N[T])]
  <2>1. heap' = [T \in Table |->
                   SubSeq(Reread([U \in Table |-> SavePages(heap[U], ks[U])][T],
                                 1 .. PageCount(heap[T])),
                          1, Cardinality(Reachable(T, links[T])))]
    BY <1>1 DEF Down
  <2> QED BY <1>2, <2>1
<1>4. ASSUME NEW T \in Table
      PROVE  /\ N[T] \in 0 .. Count(T)
             /\ Count(T) > 0 => N[T] > 0
             /\ Reachable(T, links[T]) = DOMAIN heap[T] => N[T] = Count(T)
  <2>1. PICK l : l = links[T]
    OBVIOUS
  <2> QED BY <1>2, <2>1, ReachedRows DEF Inv
<1>5. ASSUME NEW T \in Table
      PROVE  /\ heap'[T] \in Seq(Row) /\ Len(heap'[T]) = N[T]
             /\ \A i \in 1 .. N[T] :
                  /\ Same(heap[T][i], heap'[T][i])
                  /\ heap'[T][i].live \in {heap[T][i].live, heap[T][i].saved}
                  /\ heap'[T][i].saved \in {heap[T][i].live, heap[T][i].saved}
                  /\ "revived" \notin history' => heap'[T][i].live = heap[T][i].live
  <2>1. PICK n \in 0 .. Count(T) : n = N[T]
    BY <1>4
  <2>2. PICK w : w = ks[T]
    OBVIOUS
  <2>3. heap'[T] = SubSeq(Reread(SavePages(heap[T], w), 1 .. PageCount(heap[T])), 1, n)
    BY <1>3, <2>1, <2>2
  <2>4. PICK r : r = SavePages(heap[T], w)
    OBVIOUS
  <2>5. LeftOf(heap[T], r, n, heap'[T])
    <3>1. Types
      BY DEF Inv
    <3>2. LeftOf(heap[T], SavePages(heap[T], w), n,
                 SubSeq(Reread(SavePages(heap[T], w), 1 .. PageCount(heap[T])), 1, n))
      BY <3>1, DownRows
    <3> QED BY <2>3, <2>4, <3>2
  <2>6. "revived" \notin history' => \A i \in DOMAIN r : r[i].live = r[i].saved
    BY <2>2, <2>4 DEF Down
  <2> QED BY <2>1, <2>5, <2>6 DEF LeftOf
<1>6. history \subseteq history' /\
      ("cut" \notin history' => \A T \in Table : Reachable(T, links[T]) = DOMAIN heap[T])
  BY <1>1 DEF Down
<1>7. heap' \in [Table -> Seq(Row)]
  BY <1>3, <1>5
<1>8. ASSUME NEW T \in Table PROVE Count(T)' = N[T]
  BY <1>5 DEF Count
<1>9. ASSUME NEW T \in Table
      PROVE  /\ linked[T] \subseteq links[T]
             /\ Count(T)' = Cardinality(Reachable(T, links[T]))
             /\ linked'[T] = {k \in links[T] : k < PageCount(heap'[T])}
  <2>1. linked'[T] = {k \in links[T] : k < PageCount(heap'[T])}
    BY <1>1 DEF Down
  <2> QED BY <1>1, <1>2, <1>8, <2>1
<1> QED BY <1>4, <1>5, <1>6, <1>7, <1>8, <1>9

LEMMA DownStep ==
  ASSUME Inv, NEW ks, Down(ks),
         \A T \in Table : ks[T] \in SUBSET Pages
  PROVE  Inv' /\ (Booted => Booted')
<1>1. /\ heap' \in [Table -> Seq(Row)]
      /\ \A T \in Table :
           /\ Count(T)' \in 0 .. Count(T)
           /\ Count(T) > 0 => Count(T)' > 0
           /\ "cut" \notin history' => Count(T)' = Count(T)
           /\ \A i \in 1 .. Count(T)' :
                /\ Same(heap[T][i], heap'[T][i])
                /\ heap'[T][i].live \in {heap[T][i].live, heap[T][i].saved}
                /\ heap'[T][i].saved \in {heap[T][i].live, heap[T][i].saved}
                /\ "revived" \notin history' => heap'[T][i].live = heap[T][i].live
      /\ history \subseteq history'
  BY DownFacts
<1>2. \A T \in Table : Count(T) \in Nat
  BY RowFacts DEF Inv
<1>3. /\ mode' = "down" /\ op' = Idle
      /\ UNCHANGED <<hole, next_table_id, next_column_id, next_page_id, made>>
      /\ history' \subseteq history \cup {"cut", "revived"}
  BY DEF Down, ids
<1>9. dirty' \in [Table -> SUBSET Pages]
  <2>1. ASSUME NEW T \in Table PROVE PageCount(heap'[T]) \in Nat
    BY <1>1, <2>1, LenProperties, EmptySeq, PageFacts DEF PageCount
  <2>2. dirty' = [T \in Table |-> 1 .. PageCount(heap'[T])]
    BY DEF Down
  <2> QED BY <2>1, <2>2 DEF Pages
<1>4. linked' \in [Table -> SUBSET Pages]
  <2>1. PICK links : links = [T \in Table |->
                               linked[T] \cup {k \in ks[T] : k < PageCount(heap[T])}]
    OBVIOUS
  <2>2. \A T \in Table : links[T] \in SUBSET Pages
    BY <2>1 DEF Inv, Types
  <2>3. linked' = [T \in Table |-> {k \in links[T] : k < PageCount(heap'[T])}]
    BY <2>1 DEF Down
  <2> QED BY <2>2, <2>3
<1>5. Types'
  BY <1>1, <1>3, <1>4, <1>9 DEF Inv, Types
<1>6. Structure'
  <2>1. hole => Count("columns") = 0 /\ Count("tables") > 0
    BY DEF Inv, Structure
  <2>2. Count("columns") > 0 => Count("tables") > 0
    BY DEF Inv, Structure
  <2> QED BY <1>1, <1>2, <1>3, <2>1, <2>2, SystemFacts DEF Structure
<1>7. Numbered'
  <2>1. SUFFICES ASSUME "drop" \notin history', hole' = FALSE, NEW T \in Table, NEW i \in 1 .. Count(T)'
                 PROVE  heap'[T][i].live /\ heap'[T][i].saved /\ heap'[T][i].id = i - 1
    BY <1>3, <1>5 DEF Numbered, Types
  <2>2. "drop" \notin history /\ ~hole
    BY <1>1, <1>3, <2>1
  <2>3. i \in 1 .. Count(T)
    BY <1>1, <1>2
  <2>4. heap[T][i].live /\ heap[T][i].saved /\ heap[T][i].id = i - 1
    BY <2>1, <2>2, <2>3 DEF Inv, Numbered
  <2> QED BY <1>1, <2>1, <2>4 DEF Same
<1>8. Booted => Booted'
  BY <1>1, <1>3, SystemFacts DEF Booted
<1> QED BY <1>5, <1>6, <1>7, <1>8 DEF Inv

LEMMA CloseStep ==
  ASSUME Inv, Close
  PROVE  Inv' /\ (Booted => Booted')
<1>1. \A T \in Table : dirty[T] \in SUBSET Pages
  BY DEF Inv, Types
<1> QED BY <1>1, DownStep DEF Close

LEMMA CrashStep ==
  ASSUME Inv, Crash
  PROVE  Inv' /\ (Booted => Booted')
<1>1. PICK ks : ks = [T \in Table |-> {}]
  OBVIOUS
<1>2. Down(ks) /\ \A T \in Table : ks[T] \in SUBSET Pages
  BY <1>1 DEF Crash
<1> QED BY <1>2, DownStep

\* Where no row is deleted, a scan sees them all.
LEMMA AllAreVisible ==
  ASSUME Types, NEW T \in Table, \A i \in 1 .. Count(T) : heap[T][i].live
  PROVE  Visible(T) = 1 .. Count(T) /\ Cardinality(Visible(T)) = Count(T)
<1>1. Count(T) \in Nat /\ DOMAIN heap[T] = 1 .. Count(T)
  BY RowFacts
<1>2. ASSUME NEW i \in 1 .. Count(T)
      PROVE  \A k \in 1 .. PageOf(i) :
               \E j \in DOMAIN heap[T] : PageOf(j) = k /\ heap[T][j].live
  <2>1. i \in Nat \ {0} /\ 1 .. i \subseteq 1 .. Count(T)
    BY <1>1
  <2> QED BY <1>1, <2>1, PageFacts
<1>3. Visible(T) = 1 .. Count(T)
  BY <1>1, <1>2 DEF Visible
<1>4. Cardinality(1 .. Count(T)) = Count(T)
  BY <1>1, FS_Interval
<1> QED BY <1>3, <1>4

LEMMA OpenStep ==
  ASSUME Inv, Open
  PROVE  Inv' /\ (Booted => Booted')
<1> USE SystemFacts DEF Inv
<1>1. /\ mode = "down" /\ op = Idle
      /\ UNCHANGED <<heap, dirty, linked, next_page_id, op, made>>
  BY DEF Open, Structure
<1>2. /\ \A T \in Table : Count(T) \in Nat /\ Count(T)' = Count(T)
      /\ \A T \in Table : heap[T] = <<>> <=> Count(T) = 0
  BY <1>1, RowFacts, EmptySeq DEF Count
<1>3. \A T \in Table : Cardinality(Visible(T)) \in Nat
  <2>1. ASSUME NEW T \in Table PROVE Cardinality(Visible(T)) \in Nat
    <3>1. PICK n : n = Count(T)
      OBVIOUS
    <3>2. n \in Nat /\ Visible(T) \in SUBSET (1 .. n)
      BY <3>1, RowFacts DEF Visible
    <3>3. IsFiniteSet(1 .. n)
      BY <3>2, FS_Interval
    <3>4. IsFiniteSet(Visible(T))
      BY <3>2, <3>3, FS_Subset
    <3> QED BY <3>4, FS_CardinalityType
  <2> QED BY <2>1
<1>4. CASE heap["tables"] = <<>>
  <2>1. Count("tables") = 0 /\ Count("columns") = 0 /\ ~hole
    BY <1>2, <1>4 DEF Structure
  <2>2. /\ mode' = "boot" /\ UNCHANGED <<hole, history>>
        /\ next_table_id' = FirstTableId /\ next_column_id' = FirstColumnId
    BY <1>4 DEF Open
  <2>3. Types'
    BY <1>1, <2>2 DEF Types, FirstTableId
  <2>4. Structure'
    <3>1. Count("tables")' = 0 /\ Count("columns")' = 0 /\ hole' = FALSE
      BY <1>2, <2>1, <2>2 DEF Types
    <3> HIDE DEF Inv
    <3> QED BY <1>1, <2>2, <3>1 DEF Structure
  <2>5. Numbered'
    BY <1>1, <1>2, <2>2 DEF Numbered
  <2> QED BY <2>1, <2>3, <2>4, <2>5 DEF Booted
<1>5. CASE heap["tables"] # <<>>
  <2>1. /\ mode' = "open" /\ hole' = (heap["columns"] = <<>>)
        /\ next_table_id' = Cardinality(Visible("tables"))
        /\ next_column_id' = Cardinality(Visible("columns"))
        /\ history' = history
    BY <1>5 DEF Open, LoadMaxIds
  <2>2. Types'
    BY <1>1, <1>3, <2>1 DEF Types
  <2>3. /\ Count("tables") > 0
        /\ Count("columns") = 0 => hole' = TRUE
        /\ Count("columns") # 0 => Count("columns") > 0 /\ hole' = FALSE
    <3>1. Count("tables") # 0 /\ Count("tables") \in Nat /\ Count("columns") \in Nat
      BY <1>2, <1>5
    <3>2. CASE heap["columns"] = <<>>
      <4>1. hole' = TRUE
        BY <2>1, <3>2
      <4>2. Count("columns") = 0
        BY <1>2, <3>2
      <4> QED BY <3>1, <4>1, <4>2
    <3>3. CASE heap["columns"] # <<>>
      <4>1. hole' = FALSE
        BY <2>1, <3>3
      <4>2. Count("columns") # 0
        BY <1>2, <3>3
      <4> QED BY <3>1, <4>1, <4>2
    <3> QED BY <3>2, <3>3
  <2>4. Structure'
    <3>1. CASE Count("columns") = 0
      <4>1. hole' = TRUE
        BY <2>3, <3>1
      <4> QED BY <1>1, <1>2, <2>1, <2>3, <3>1, <4>1 DEF Structure
    <3>2. CASE Count("columns") # 0
      <4>1. hole' = FALSE /\ Count("columns") > 0
        BY <1>2, <2>3, <3>2
      <4> QED BY <1>1, <1>2, <2>1, <2>3, <4>1 DEF Structure
    <3> QED BY <3>1, <3>2
  <2>5. Numbered'
    <3>1. SUFFICES ASSUME "drop" \notin history', ~hole' PROVE Numbered'
      BY DEF Numbered
    <3>2. "drop" \notin history /\ ~hole
      BY <2>1, <2>3, <3>1 DEF Structure
    <3>3. \A T \in Table : Cardinality(Visible(T)) = Count(T)
      BY <3>2, AllAreVisible DEF Numbered
    <3> QED BY <1>1, <1>2, <2>1, <3>2, <3>3 DEF Numbered
  <2>6. Booted => Booted'
    <3>1. SUFFICES ASSUME Booted PROVE Booted'
      OBVIOUS
    <3>2. Count("columns") > 0 /\ hole' = FALSE
      BY <1>2, <2>3, <3>1 DEF Booted
    <3> QED BY <1>2, <3>2 DEF Booted
  <2> QED BY <2>2, <2>4, <2>5, <2>6
<1> QED BY <1>4, <1>5

LEMMA NextInv ==
  ASSUME Inv, [Next]_vars
  PROVE  Inv' /\ (Booted => Booted')
<1>1. ASSUME NEW n \in Name, NEW c \in ColumnCount, CreateTable(n, c) PROVE Inv' /\ (Booted => Booted')
  BY <1>1, CreateTableStep
<1>2. ASSUME NEW n \in Droppable, DropTable(n) PROVE Inv' /\ (Booted => Booted')
  BY <1>2, DropTableStep
<1>3. ASSUME NEW T \in Table, NEW k \in 1 .. MaxRows, Evict(T, k) PROVE Inv' /\ (Booted => Booted')
  BY <1>3, EvictStep
<1>4. CASE UNCHANGED vars
  BY <1>4 DEF Inv, Types, Structure, Numbered, Booted, Count, DropOp, vars, disk_vars, ids
<1>5. CASE Next
  BY <1>1, <1>2, <1>3, <1>5, BootTablesStep, BootColumnsStep, EndBootStep,
     InsertColumnStep, FlushTablesStep, EndStatementStep, CloseStep, CrashStep, OpenStep
  DEF Next
<1> QED BY <1>4, <1>5

LEMMA InvHolds == Spec => []Inv
  BY InitInv, NextInv, PTL DEF Spec

-----------------------------------------------------------------------------
(* Results.                                                                *)

LEMMA TypesGiveTypeOK ==
  ASSUME Types
  PROVE  TypeOK
<1>1. op.step \in {"idle", "columns", "flush", "dropped", "flushDrop"}
  <2>1. CASE op = Idle
    BY <2>1 DEF Idle
  <2>2. CASE op \in CreateOp
    BY <2>2 DEF CreateOp
  <2>3. CASE DropOp(op)
    BY <2>3 DEF DropOp
  <2> QED BY <2>1, <2>2, <2>3 DEF Types
<1> QED BY <1>1 DEF Types, TypeOK, Pages

\* The variables have their types.
THEOREM TypeCorrect == Spec => []TypeOK
<1>1. ASSUME Inv PROVE TypeOK
  BY <1>1, TypesGiveTypeOK DEF Inv
<1> QED BY <1>1, InvHolds, PTL

LEMMA InvGivesNewIds ==
  ASSUME Inv
  PROVE  NextIdsAreNew
<1>1. ASSUME "drop" \notin history, ~hole, NEW T \in Table, NEW next, next = Count(T)
      PROVE  IdsAreNew(T, next)
  <2>1. /\ \A i \in 1 .. Count(T) : heap[T][i].live /\ heap[T][i].id = i - 1
        /\ Count(T) \in Nat
    BY <1>1, RowFacts DEF Inv, Numbered
  <2>2. Visible(T) = 1 .. Count(T) /\ Cardinality(Visible(T)) = Count(T)
    BY <2>1, AllAreVisible DEF Inv
  <2>3. PICK n \in Nat : n = Count(T)
    BY <2>1
  <2>4. Ids(T) = 0 .. n - 1
    <3>1. Ids(T) = {heap[T][i].id : i \in 1 .. n}
      BY <2>2, <2>3 DEF Ids
    <3>2. \A i \in 1 .. n : heap[T][i].id = i - 1 /\ i - 1 \in 0 .. n - 1
      BY <2>1, <2>3
    <3>3. \A x \in 0 .. n - 1 : x + 1 \in 1 .. n /\ heap[T][x + 1].id = x
      BY <2>1, <2>3
    <3> QED BY <3>1, <3>2, <3>3
  <2>5. Cardinality(0 .. n - 1) = n
    BY <2>3, FS_Interval
  <2> QED BY <1>1, <2>2, <2>3, <2>4, <2>5 DEF IdsAreNew
<1>2. SUFFICES ASSUME mode = "open", "drop" \notin history, ~hole
               PROVE  IdsAreNew("tables", next_table_id) /\ IdsAreNew("columns", next_column_id)
  BY DEF NextIdsAreNew
<1> QED BY <1>1, <1>2, SystemFacts DEF Inv, Numbered

\* The ids a start counts are those of no row: until a table is dropped, the
\* i-th row has id i - 1, whatever statement the process died in and whatever
\* rows it lost behind an unsaved link.
THEOREM IdsStayNew == Spec => []NextIdsAreNew
  BY InvHolds, InvGivesNewIds, PTL

\* A file whose catalog was once found or made is never again taken for one
\* without a page of columns, however often the process dies.
THEOREM BootLasts == Spec => BootIsForGood
<1>1. ASSUME Inv, mode = "open" /\ ~hole PROVE Booted
  BY <1>1 DEF Inv, Structure, Booted
<1>2. ASSUME Booted PROVE ~hole
  BY <1>2 DEF Booted
<1>3. ASSUME Inv, Booted, [Next]_vars PROVE Booted'
  BY <1>3, NextInv
<1> QED BY <1>1, <1>2, <1>3, InvHolds, PTL DEF Spec, BootIsForGood

-----------------------------------------------------------------------------
(* Names.                                                                  *)

LEMMA PagesAscend ==
  ASSUME NEW i \in Nat \ {0}, NEW j \in Nat \ {0}, i <= j
  PROVE  PageOf(i) <= PageOf(j)
<1>1. RowsPerPage \in Nat \ {0}
  BY SystemFacts
<1>2. PICK n \in Nat \ {0} : n = RowsPerPage
  BY <1>1
<1>3. PICK a \in Nat, b \in Nat : a = i - 1 /\ b = j - 1 /\ a <= b
  OBVIOUS
<1>4. PICK x \in Nat, y \in Nat : x = a \div n /\ y = b \div n
  BY Z3
<1>5. x * n <= a /\ b < (y + 1) * n
  BY <1>4, Z3
<1>6. ASSUME x >= y + 1 PROVE x * n >= (y + 1) * n
  BY <1>6, Z3
<1>7. x * n \in Nat /\ (y + 1) * n \in Nat
  BY Z3
<1>8. x <= y
  BY <1>3, <1>5, <1>6, <1>7
<1> QED BY <1>2, <1>3, <1>4, <1>8 DEF PageOf

\* Of two rows with one name the first is out of sight, behind a page without
\* live rows, and stays there: such a page is full.  Rows of master_columns
\* among those of master_tables have no name that a table could have.
Hidden(i) ==
  \E k \in 1 .. PageOf(i) - 1 :
    \A m \in 1 .. Count("tables") : PageOf(m) = k => ~heap["tables"][m].live

UniqueNames ==
  "revived" \notin history /\ (hole => NoName \notin Name) =>
    \A i, j \in 1 .. Count("tables") :
      /\ i < j /\ heap["tables"][i].live /\ heap["tables"][j].live
      /\ heap["tables"][i].name = heap["tables"][j].name
      /\ heap["tables"][i].name \in Name /\ Fits(heap["tables"][i].name)
      => Hidden(i)

\* The system tables' rows come in their order.
BootNames ==
  mode = "boot" => \A i \in 1 .. Count("tables") : heap["tables"][i].name = SystemName[i]

Names == UniqueNames /\ BootNames

\* A step that adds no row to master_tables and revives none.
LEMMA FewerNames ==
  ASSUME Inv, UniqueNames, Inv',
         Count("tables")' \in 0 .. Count("tables"),
         \A i \in 1 .. Count("tables")' :
           /\ heap'["tables"][i].name = heap["tables"][i].name
           /\ "revived" \notin history' => (heap'["tables"][i].live => heap["tables"][i].live),
         history \subseteq history', hole => hole'
  PROVE  UniqueNames'
<1> SUFFICES ASSUME "revived" \notin history', hole' => NoName \notin Name,
                    NEW i \in 1 .. Count("tables")', NEW j \in 1 .. Count("tables")',
                    i < j, heap'["tables"][i].live, heap'["tables"][j].live,
                    heap'["tables"][i].name = heap'["tables"][j].name,
                    heap'["tables"][i].name \in Name, Fits(heap'["tables"][i].name)
             PROVE  Hidden(i)'
  BY DEF UniqueNames, Fits
<1>1. Count("tables") \in Nat /\ Count("tables")' \in Nat
  BY RowFacts, SystemFacts DEF Inv
<1>2. i \in 1 .. Count("tables") /\ j \in 1 .. Count("tables")
  BY <1>1
<1>3. Hidden(i)
  BY <1>2 DEF UniqueNames
<1>4. PICK k \in 1 .. PageOf(i) - 1 :
        \A m \in 1 .. Count("tables") : PageOf(m) = k => ~heap["tables"][m].live
  BY <1>3 DEF Hidden
<1>5. \A m \in 1 .. Count("tables")' : PageOf(m) = k => ~heap'["tables"][m].live
  BY <1>1, <1>4
<1> QED BY <1>5 DEF Hidden

\* A step that adds a row whose name no row in sight has.
LEMMA OneMoreName ==
  ASSUME Inv, UniqueNames, Inv', NEW row, Grown("tables", row),
         hole' = hole, history \subseteq history',
         row.name \in Name /\ Fits(row.name) /\ (hole => NoName \notin Name)
           => ~Exists(row.name)
  PROVE  UniqueNames'
<1> SUFFICES ASSUME "revived" \notin history', hole => NoName \notin Name,
                    NEW i \in 1 .. Count("tables")', NEW j \in 1 .. Count("tables")',
                    i < j, heap'["tables"][i].live, heap'["tables"][j].live,
                    heap'["tables"][i].name = heap'["tables"][j].name,
                    heap'["tables"][i].name \in Name, Fits(heap'["tables"][i].name)
             PROVE  Hidden(i)'
  BY DEF UniqueNames, Fits
<1>1. PICK c \in Nat : c = Count("tables")
  BY RowFacts, SystemFacts DEF Inv
<1>2. Count("tables")' = c + 1
  BY <1>1 DEF Grown, Count
<1>3. \A m \in 1 .. c : /\ heap'["tables"][m].live = heap["tables"][m].live
                       /\ heap'["tables"][m].name = heap["tables"][m].name
  BY <1>1 DEF Grown, Same
<1>4. heap'["tables"][c + 1].name = row.name
  BY <1>1 DEF Grown, Same
<1>5. i \in 1 .. c
  BY <1>1, <1>2
<1>6. heap["tables"][i].live /\ heap["tables"][i].name = heap'["tables"][i].name
  BY <1>3, <1>5
<1>7. Hidden(i)
  <2>1. CASE j \in 1 .. c
    BY <1>1, <1>3, <1>5, <1>6, <2>1 DEF UniqueNames
  <2>2. CASE j = c + 1
    <3>1. heap["tables"][i].name = row.name
      BY <1>4, <1>6, <2>2
    <3>2. i \notin RowsNamed(row.name)
      BY <1>6, <3>1 DEF Exists
    <3>3. i \notin Visible("tables") /\ DOMAIN heap["tables"] = 1 .. c
      BY <1>1, <3>1, <3>2, RowFacts, SystemFacts DEF RowsNamed, Inv
    <3>4. PICK k \in 1 .. PageOf(i) :
            ~ \E m \in DOMAIN heap["tables"] : PageOf(m) = k /\ heap["tables"][m].live
      BY <1>5, <1>6, <3>3 DEF Visible
    <3>5. k # PageOf(i)
      BY <1>5, <1>6, <3>3, <3>4
    <3>6. PageOf(i) \in Nat
      BY <1>5, PageFacts
    <3>7. k \in 1 .. PageOf(i) - 1
      BY <3>5, <3>6
    <3> QED BY <1>1, <3>3, <3>4, <3>7 DEF Hidden
  <2> QED BY <1>2, <2>1, <2>2
<1>8. PICK k \in 1 .. PageOf(i) - 1 :
        \A m \in 1 .. c : PageOf(m) = k => ~heap["tables"][m].live
  BY <1>1, <1>7 DEF Hidden
<1>9. PageOf(i) \in Nat /\ PageOf(c + 1) \in Nat /\ PageOf(i) <= PageOf(c + 1)
  BY <1>5, PageFacts, PagesAscend
<1>10. PageOf(c + 1) # k
  BY <1>9
<1>11. \A m \in 1 .. c + 1 : PageOf(m) = k => ~heap'["tables"][m].live
  <2> SUFFICES ASSUME NEW m \in 1 .. c + 1, PageOf(m) = k
               PROVE  ~heap'["tables"][m].live
    OBVIOUS
  <2>1. m \in 1 .. c
    BY <1>10
  <2> QED BY <1>3, <1>8, <2>1
<1> QED BY <1>2, <1>11 DEF Hidden

\* A step that keeps the rows of both system tables.
LEMMA KeptNames ==
  ASSUME Inv, Names, Inv', Kept, hole' = hole, history \subseteq history',
         mode' = "boot" => mode = "boot"
  PROVE  Names'
<1> USE SystemFacts
<1>1. Count("tables") \in Nat /\ Count("tables")' = Count("tables")
  BY RowFacts DEF Inv, Kept, Count
<1>2. \A i \in 1 .. Count("tables") :
        /\ heap'["tables"][i].name = heap["tables"][i].name
        /\ "revived" \notin history' => heap'["tables"][i].live = heap["tables"][i].live
  BY DEF Kept, Same
<1>3. UniqueNames'
  BY <1>1, <1>2, FewerNames DEF Names
<1>4. BootNames'
  BY <1>1, <1>2 DEF Names, BootNames
<1> QED BY <1>3, <1>4 DEF Names

LEMMA InitNames ==
  ASSUME Init
  PROVE  Names
<1>1. Count("tables") = 0
  BY SystemFacts, EmptySeq DEF Init, Count
<1> QED BY <1>1 DEF Names, UniqueNames, BootNames

\* The row a boot step adds to master_tables is not the one that is there.
LEMMA BootTablesNames ==
  ASSUME Inv, Names, Inv', BootTables
  PROVE  Names'
<1> USE SystemFacts
<1>1. Count("tables") \in {0, 1} /\ mode = "boot" /\ ~hole
  <2>1. Count("tables") \in Nat /\ Count("tables") < 2
    BY RowFacts DEF BootTables, Inv, Count
  <2>2. Count("tables") \in {0, 1}
    BY <2>1
  <2> QED BY <2>2 DEF BootTables, Inv, Structure
<1>2. PICK row : row = SystemRows[Count("tables") + 1]
  OBVIOUS
<1>3. row \in Row /\ row.live /\ row.saved /\ row.name = SystemName[Count("tables") + 1]
  BY <1>1, <1>2, SystemRowFacts
<1>4. InsertTuple("tables", row, 0) /\ Home("tables") = "tables"
      /\ UNCHANGED <<mode, history>>
  BY <1>2 DEF BootTables, Count, Home
<1>5. Grown("tables", row) /\ hole' = hole
  BY <1>3, <1>4, InsertedRow DEF Inv
<1>6. ~Exists(row.name)
  <2>1. DOMAIN heap["tables"] = 1 .. Count("tables")
    BY RowFacts DEF Inv
  <2>2. ASSUME NEW i \in 1 .. Count("tables") PROVE heap["tables"][i].name # row.name
    <3>1. i = 1 /\ Count("tables") = 1
      BY <1>1
    <3>2. heap["tables"][1].name = SystemName[1] /\ row.name = SystemName[2]
      BY <1>1, <1>3, <3>1 DEF Names, BootNames
    <3> QED BY <3>1, <3>2, CatalogAssumption
  <2> QED BY <2>1, <2>2 DEF Exists, RowsNamed, Visible
<1>7. UniqueNames'
  BY <1>4, <1>5, <1>6, OneMoreName DEF Names
<1>8. BootNames'
  <2>1. Count("tables")' = Count("tables") + 1
    BY <1>5 DEF Grown, Count
  <2>2. heap'["tables"][Count("tables") + 1].name = row.name
    BY <1>5 DEF Grown, Same
  <2>3. \A i \in 1 .. Count("tables") : heap'["tables"][i].name = SystemName[i]
    BY <1>1, <1>5 DEF Grown, Same, Names, BootNames
  <2> QED BY <1>1, <1>3, <2>1, <2>2, <2>3 DEF BootNames
<1> QED BY <1>7, <1>8 DEF Names

\* A row of master_columns where it belongs, or behind those of master_tables.
LEMMA ColumnNames ==
  ASSUME Inv, Names, Inv', NEW row \in Row, row.live, row.saved, row.name = NoName,
         InsertTuple("columns", row, 0), UNCHANGED <<mode, history>>
  PROVE  Names'
<1> USE SystemFacts
<1>1. PICK H : H = Home("columns")
  OBVIOUS
<1>2. Grown(H, row) /\ hole' = hole /\ H = IF hole THEN "tables" ELSE "columns"
  BY <1>1, InsertedRow DEF Inv, Home
<1>3. CASE hole
  <2>1. mode # "boot"
    BY <1>3 DEF Inv, Structure
  <2>2. UniqueNames'
    BY <1>2, <1>3, OneMoreName DEF Names
  <2> QED BY <2>1, <2>2 DEF Names, BootNames
<1>4. CASE ~hole
  <2>1. heap'["tables"] = heap["tables"]
    BY <1>2, <1>4 DEF Grown
  <2>2. Count("tables") \in Nat /\ Count("tables")' = Count("tables")
    BY <2>1, RowFacts DEF Inv, Count
  <2>3. UniqueNames'
    BY <1>2, <2>1, <2>2, FewerNames DEF Names
  <2>4. BootNames'
    BY <2>1, <2>2 DEF Names, BootNames
  <2> QED BY <2>3, <2>4 DEF Names
<1> QED BY <1>3, <1>4

LEMMA BootColumnsNames ==
  ASSUME Inv, Names, Inv', BootColumns
  PROVE  Names'
<1>1. Count("columns") \in Nat
  BY RowFacts, SystemFacts DEF Inv
<1>2. PICK row : row = SystemColumnRow(Count("columns"))
  OBVIOUS
<1>3. row \in Row /\ row.live /\ row.saved /\ row.name = NoName
  BY <1>1, <1>2 DEF SystemColumnRow, ColumnRow, Row, NoId
<1>4. InsertTuple("columns", row, 0) /\ UNCHANGED <<mode, history>>
  BY <1>2 DEF BootColumns, Count
<1> QED BY <1>3, <1>4, ColumnNames

LEMMA InsertColumnNames ==
  ASSUME Inv, Names, Inv', InsertColumn
  PROVE  Names'
<1>1. op \in CreateOp
  BY DEF InsertColumn, Inv, Types, DropOp, Idle
<1>2. next_column_id \in Nat /\ op.id \in Nat
  BY <1>1 DEF Inv, Types, CreateOp
<1>3. PICK row : row = ColumnRow(next_column_id, op.id)
  OBVIOUS
<1>4. row \in Row /\ row.live /\ row.saved /\ row.name = NoName
  BY <1>2, <1>3 DEF ColumnRow, Row, NoId
<1>5. InsertTuple("columns", row, 0) /\ UNCHANGED <<mode, history>>
  BY <1>3 DEF InsertColumn
<1> QED BY <1>4, <1>5, ColumnNames

\* The binder looked the name up; a name that is cut down is no name's own.
LEMMA CreateTableNames ==
  ASSUME Inv, Names, Inv', NEW n \in Name, NEW c \in ColumnCount, CreateTable(n, c)
  PROVE  Names'
<1> USE SystemFacts
<1>1. next_table_id \in Nat /\ next_page_id \in Nat
  BY DEF Inv, Types
<1>2. PICK row : row = TableRow(next_table_id, Stored(n), next_page_id)
  OBVIOUS
<1>3. row \in Row /\ row.live /\ row.saved /\ row.name = Stored(n)
  BY <1>1, <1>2 DEF TableRow, Row, NoId
<1>4. /\ InsertTuple("tables", row, 1) /\ ~Exists(n) /\ UNCHANGED mode
      /\ mode = "open" /\ history \subseteq history'
  BY <1>2 DEF CreateTable, Ready
<1>5. Grown("tables", row) /\ hole' = hole
  <2>1. Home("tables") = "tables"
    BY DEF Home
  <2> QED BY <1>3, <1>4, <2>1, InsertedRow DEF Inv
<1>6. row.name \in Name /\ Fits(row.name) => row.name = n
  <2>1. n \in {m \in Name : Stored(m) = row.name}
    BY <1>3
  <2> QED BY <2>1 DEF Fits
<1>7. UniqueNames'
  BY <1>4, <1>5, <1>6, OneMoreName DEF Names
<1> QED BY <1>4, <1>7 DEF Names, BootNames

LEMMA DropTableNames ==
  ASSUME Inv, Names, Inv', NEW n \in Droppable, DropTable(n)
  PROVE  Names'
<1> USE SystemFacts
<1>1. PICK r, c : heap' = [T \in Table |-> Delete(T, IF T = "tables" THEN {r} ELSE c)]
  BY DEF DropTable
<1>2. heap'["tables"] = Delete("tables", {r})
  BY <1>1
<1>3. DOMAIN heap["tables"] = 1 .. Count("tables") /\ Count("tables") \in Nat
      /\ \A i \in 1 .. Count("tables") : heap["tables"][i] \in Row
  BY RowFacts DEF Inv
<1>4. Count("tables")' = Count("tables")
  <2>1. Delete("tables", {r}) \in Seq(Row) /\ Len(Delete("tables", {r})) = Count("tables")
    BY DeletedRows DEF Inv
  <2> QED BY <1>2, <2>1 DEF Count
<1>5. ASSUME NEW i \in 1 .. Count("tables")
      PROVE  /\ heap'["tables"][i].name = heap["tables"][i].name
             /\ heap'["tables"][i].live => heap["tables"][i].live
  <2>1. heap["tables"][i] \in Row
    BY <1>3
  <2>2. heap'["tables"][i] = IF i \in {r} THEN [heap["tables"][i] EXCEPT !.live = FALSE]
                             ELSE heap["tables"][i]
    BY <1>2, <1>3 DEF Delete
  <2> QED BY <2>1, <2>2 DEF Row
<1>6. mode = "open" /\ mode' = "open" /\ hole' = hole /\ history \subseteq history'
  BY DEF DropTable, Ready
<1>7. UniqueNames'
  BY <1>3, <1>4, <1>5, <1>6, FewerNames DEF Names
<1> QED BY <1>6, <1>7 DEF Names, BootNames

LEMMA DownNames ==
  ASSUME Inv, Names, Inv', NEW ks, Down(ks)
  PROVE  Names'
<1> USE SystemFacts
<1>1. /\ Count("tables")' \in 0 .. Count("tables")
      /\ \A i \in 1 .. Count("tables")' :
           /\ Same(heap["tables"][i], heap'["tables"][i])
           /\ "revived" \notin history' => heap'["tables"][i].live = heap["tables"][i].live
      /\ history \subseteq history'
  BY DownFacts
<1>2. mode' = "down" /\ hole' = hole
  BY DEF Down
<1>3. UniqueNames'
  BY <1>1, <1>2, FewerNames DEF Names, Same
<1> QED BY <1>2, <1>3 DEF Names, BootNames

LEMMA OpenNames ==
  ASSUME Inv, Names, Inv', Open
  PROVE  Names'
<1> USE SystemFacts
<1>1. heap' = heap /\ history \subseteq history' /\ Count("tables") \in Nat
      /\ Count("tables")' = Count("tables")
  BY RowFacts DEF Open, Inv, Count
<1>2. hole => hole'
  <2>1. hole => Count("columns") = 0 /\ Count("tables") > 0 /\ heap["columns"] \in Seq(Row)
    BY RowFacts DEF Inv, Structure
  <2>2. hole => heap["columns"] = <<>>
    BY <2>1, EmptySeq DEF Count
  <2> QED BY <2>2 DEF Open
<1>3. UniqueNames'
  BY <1>1, <1>2, FewerNames DEF Names
<1>4. mode' = "boot" => Count("tables") = 0
  BY EmptySeq DEF Open, Count
<1> QED BY <1>1, <1>3, <1>4 DEF Names, BootNames

LEMMA NextNames ==
  ASSUME Inv, Names, Inv', [Next]_vars
  PROVE  Names'
<1> USE DEF ids, disk_vars
<1>1. ASSUME heap' = heap, hole' = hole, history' = history, mode' = "boot" => mode = "boot"
      PROVE  Names'
  BY <1>1, SameRows, KeptNames DEF Inv
<1>2. CASE UNCHANGED vars
  BY <1>1, <1>2 DEF vars
<1>3. CASE EndBoot
  BY <1>1, <1>3 DEF EndBoot
<1>4. CASE FlushTables
  <2>1. Kept /\ hole' = hole
    BY <1>4, FlushFacts, SystemFacts DEF FlushTables, Inv
  <2> QED BY <1>4, <2>1, KeptNames DEF FlushTables
<1>5. CASE EndStatement
  <2>1. Kept /\ hole' = hole
    BY <1>5, FlushFacts, SystemFacts DEF EndStatement, Inv
  <2> QED BY <1>5, <2>1, KeptNames DEF EndStatement
<1>6. ASSUME NEW T \in Table, NEW k \in 1 .. MaxRows, Evict(T, k) PROVE Names'
  <2>1. Kept /\ hole' = hole /\ history \subseteq history'
    BY <1>6, EvictedPage
  <2> QED BY <1>6, <2>1, KeptNames DEF Evict
<1>7. CASE Close
  BY <1>7, DownNames DEF Close
<1>8. CASE Crash
  BY <1>8, DownNames DEF Crash
<1>9. ASSUME NEW n \in Name, NEW c \in ColumnCount, CreateTable(n, c) PROVE Names'
  BY <1>9, CreateTableNames
<1>10. ASSUME NEW n \in Droppable, DropTable(n) PROVE Names'
  BY <1>10, DropTableNames
<1>11. CASE Next
  BY <1>3, <1>4, <1>5, <1>6, <1>7, <1>8, <1>9, <1>10, <1>11, BootTablesNames,
     BootColumnsNames, InsertColumnNames, OpenNames DEF Next
<1> QED BY <1>2, <1>11

\* Rows in sight are not behind a page without live rows.
LEMMA OneInSight ==
  ASSUME Inv, Names, "revived" \notin history, hole => NoName \notin Name,
         NEW n \in Name, Fits(n), NEW i \in RowsNamed(n), NEW j \in RowsNamed(n), i < j
  PROVE  FALSE
<1>1. DOMAIN heap["tables"] = 1 .. Count("tables") /\ Count("tables") \in Nat
  BY RowFacts, SystemFacts DEF Inv
<1>2. /\ i \in 1 .. Count("tables") /\ j \in 1 .. Count("tables")
      /\ heap["tables"][i].live /\ heap["tables"][j].live
      /\ heap["tables"][i].name = n /\ heap["tables"][j].name = n
  BY <1>1 DEF RowsNamed, Visible
<1>3. Hidden(i)
  BY <1>2 DEF Names, UniqueNames
<1>4. PICK k \in 1 .. PageOf(i) - 1 :
        \A m \in 1 .. Count("tables") : PageOf(m) = k => ~heap["tables"][m].live
  BY <1>3 DEF Hidden
<1>5. PageOf(i) \in Nat
  BY <1>2, PageFacts
<1>6. k \in 1 .. PageOf(i)
  BY <1>4, <1>5
<1>7. \E m \in DOMAIN heap["tables"] : PageOf(m) = k /\ heap["tables"][m].live
  BY <1>6 DEF RowsNamed, Visible
<1> QED BY <1>1, <1>4, <1>7

LEMMA NamesGiveUnique ==
  ASSUME Inv, Names, NoName \notin Name
  PROVE  NamesAreUnique
<1> SUFFICES ASSUME "revived" \notin history, NEW n \in Name, Fits(n)
             PROVE  Cardinality(RowsNamed(n)) <= 1
  BY DEF NamesAreUnique
<1>1. RowsNamed(n) \subseteq Nat
  BY RowFacts, SystemFacts DEF Inv, RowsNamed, Visible
<1>2. CASE RowsNamed(n) = {}
  BY <1>2, FS_EmptySet
<1>3. CASE RowsNamed(n) # {}
  <2>1. PICK i \in RowsNamed(n) : TRUE
    BY <1>3
  <2>2. \A j \in RowsNamed(n) : j = i
    BY <1>1, <2>1, OneInSight
  <2>3. RowsNamed(n) = {i}
    BY <2>1, <2>2
  <2>4. Cardinality({i}) = 1
    BY FS_Singleton
  <2> QED BY <2>3, <2>4
<1> QED BY <1>2, <1>3

\* No two tables in sight have one name, whatever was created or dropped and
\* wherever the process died or was closed, as long as every deletion was saved
\* with its page before the page left memory, and for names that a CHAR column
\* neither cuts down nor cuts others down to.  A row of master_columns read as
\* one of master_tables must not pass for a table.
THEOREM NamesStayUnique == NoName \notin Name => (Spec => []NamesAreUnique)
<1>1. ASSUME Inv, Names, Inv', [Next]_vars PROVE Names'
  BY <1>1, NextNames
<1>2. ASSUME NoName \notin Name PROVE Inv /\ Names => NamesAreUnique
  BY <1>2, NamesGiveUnique
<1>3. Spec => []Inv /\ []Names
  BY <1>1, InitNames, InvHolds, PTL DEF Spec
<1>4. ASSUME NoName \notin Name PROVE Spec => []NamesAreUnique
  BY <1>2, <1>3, <1>4, PTL
<1> QED BY <1>4

-----------------------------------------------------------------------------
(* Tables.                                                                 *)

\* Nothing happened to the rows but that tables were made and dropped.
Calm == history \subseteq {"drop"} /\ ~hole

Creating == op.step \in {"columns", "flush"}

LiveColumns(id) ==
  {j \in 1 .. Count("columns") : heap["columns"][j].live /\ heap["columns"][j].table = id}

\* The table n has its row, and its columns are all that have its id.
HasRows(ref, n) ==
  /\ ref = [row |-> ref.row, id |-> ref.id, first |-> ref.first, columns |-> ref.columns]
  /\ ref.row \in 1 .. Count("tables")
  /\ heap["tables"][ref.row].live
  /\ heap["tables"][ref.row].name = Stored(n)
  /\ heap["tables"][ref.row].first = ref.first
  /\ heap["tables"][ref.row].id = ref.id
  /\ ref.columns = LiveColumns(ref.id)

\* No two tables have one id.
OwnIds ==
  \A i, j \in 1 .. Count("tables") :
    /\ heap["tables"][i].live /\ heap["tables"][j].live
    /\ heap["tables"][i].id = heap["tables"][j].id
    => i = j

MadeHaveRows ==
  /\ mode = "boot" => made = {}
  /\ \A t \in made : t.ref.row = t.row /\ HasRows(t.ref, t.name)
  /\ Creating => /\ HasRows(MadeTable.ref, op.name)
                 /\ \A t \in made : t.row # op.row

DropIsKnown == "drop" \in history => Count("tables") > 0 /\ mode # "boot"

Tables == DropIsKnown /\ (Calm => OwnIds /\ MadeHaveRows)

LEMMA ColumnsStay ==
  ASSUME Types, Types', NEW id,
         Count("columns") <= Count("columns")',
         \A j \in 1 .. Count("columns") :
           /\ Same(heap["columns"][j], heap'["columns"][j])
           /\ heap["columns"][j].table = id =>
                heap'["columns"][j].live = heap["columns"][j].live,
         \A j \in 1 .. Count("columns")' :
           j > Count("columns") => heap'["columns"][j].table # id
  PROVE  LiveColumns(id)' = LiveColumns(id)
<1> USE SystemFacts
<1>1. PICK c \in Nat, d \in Nat : c = Count("columns") /\ d = Count("columns")' /\ c <= d
  <2>1. Count("columns") \in Nat
    BY RowFacts
  <2>2. Count("columns")' \in Nat
    BY LenProperties DEF Types, Count
  <2> QED BY <2>1, <2>2
<1>2. LiveColumns(id) = {j \in 1 .. c : heap["columns"][j].live /\ heap["columns"][j].table = id}
  BY <1>1 DEF LiveColumns
<1>3. LiveColumns(id)' = {j \in 1 .. d : heap'["columns"][j].live /\ heap'["columns"][j].table = id}
  BY <1>1 DEF LiveColumns
<1>4. ASSUME NEW j \in 1 .. c
      PROVE  /\ j \in 1 .. d /\ heap'["columns"][j].table = heap["columns"][j].table
             /\ heap["columns"][j].table = id =>
                  heap'["columns"][j].live = heap["columns"][j].live
  BY <1>1, <1>4 DEF Same
<1>5. ASSUME NEW j \in 1 .. d, heap'["columns"][j].table = id PROVE j \in 1 .. c
  BY <1>1, <1>5
<1> QED BY <1>2, <1>3, <1>4, <1>5

LEMMA RowsStay ==
  ASSUME Types, Types', NEW ref, NEW n, HasRows(ref, n),
         Count("tables") <= Count("tables")',
         Same(heap["tables"][ref.row], heap'["tables"][ref.row]),
         heap'["tables"][ref.row].live,
         LiveColumns(ref.id)' = LiveColumns(ref.id)
  PROVE  HasRows(ref, n)'
<1> USE SystemFacts
<1>1. PICK a \in Nat, b \in Nat : a = Count("tables") /\ b = Count("tables")' /\ a <= b
  <2>1. Count("tables") \in Nat
    BY RowFacts
  <2>2. Count("tables")' \in Nat
    BY LenProperties DEF Types, Count
  <2> QED BY <2>1, <2>2
<1>2. ref.row \in 1 .. b
  BY <1>1 DEF HasRows
<1>3. /\ heap'["tables"][ref.row].name = Stored(n)
      /\ heap'["tables"][ref.row].first = ref.first
      /\ heap'["tables"][ref.row].id = ref.id
  BY DEF HasRows, Same
<1> QED BY <1>1, <1>2, <1>3 DEF HasRows

\* Every row stays, live or not.
Unchanged ==
  \A T \in Table :
    /\ Count(T)' = Count(T)
    /\ \A i \in 1 .. Count(T) : /\ Same(heap[T][i], heap'[T][i])
                               /\ heap'[T][i].live = heap[T][i].live

LEMMA UnchangedRows ==
  ASSUME Inv, Inv', Unchanged
  PROVE  /\ OwnIds => OwnIds'
         /\ \A ref, n : HasRows(ref, n) => HasRows(ref, n)'
<1> USE SystemFacts
<1>1. PICK a \in Nat, b \in Nat :
        /\ a = Count("tables") /\ Count("tables")' = a
        /\ b = Count("columns") /\ Count("columns")' = b
  BY RowFacts DEF Inv, Unchanged
<1>2. /\ \A i \in 1 .. a : /\ Same(heap["tables"][i], heap'["tables"][i])
                           /\ heap'["tables"][i].live = heap["tables"][i].live
      /\ \A j \in 1 .. b : /\ Same(heap["columns"][j], heap'["columns"][j])
                           /\ heap'["columns"][j].live = heap["columns"][j].live
  BY <1>1 DEF Unchanged
<1>3. OwnIds => OwnIds'
  BY <1>1, <1>2 DEF OwnIds, Same
<1>4. ASSUME NEW ref, NEW n, HasRows(ref, n) PROVE HasRows(ref, n)'
  <2>1. ref.row \in 1 .. a /\ heap["tables"][ref.row].live
    BY <1>1, <1>4 DEF HasRows
  <2>2. Same(heap["tables"][ref.row], heap'["tables"][ref.row])
        /\ heap'["tables"][ref.row].live
    BY <1>2, <2>1
  <2>3. \A j \in 1 .. b : ~ (j > b)
    OBVIOUS
  <2>4. LiveColumns(ref.id)' = LiveColumns(ref.id)
    BY <1>1, <1>2, <2>3, ColumnsStay DEF Inv
  <2> QED BY <1>1, <1>4, <2>2, <2>4, RowsStay DEF Inv
<1> QED BY <1>3, <1>4

\* The same with made, and with op but for the place in the statement.
LEMMA UnchangedTables ==
  ASSUME Inv, Inv', Tables, Count("tables")' = Count("tables"),
         history \subseteq history', history' \subseteq history \cup {"revived"},
         "revived" \notin history' => Unchanged,
         mode' = mode, hole' = hole, made' = made,
         Creating' = Creating,
         Creating => MadeTable' = MadeTable /\ op'.name = op.name /\ op'.row = op.row
  PROVE  Tables'
<1>2. DropIsKnown'
  BY DEF Tables, DropIsKnown
<1>3. ASSUME Calm' PROVE OwnIds' /\ MadeHaveRows'
  <2>1. Calm /\ Unchanged
    BY <1>3 DEF Calm
  <2>2. /\ OwnIds'
        /\ \A ref, n : HasRows(ref, n) => HasRows(ref, n)'
    BY <2>1, UnchangedRows DEF Tables
  <2>3. mode' = "boot" => made' = {}
    BY <2>1 DEF Tables, MadeHaveRows
  <2>4. ASSUME NEW t \in made' PROVE t.ref.row = t.row /\ HasRows(t.ref, t.name)'
    BY <2>1, <2>2 DEF Tables, MadeHaveRows
  <2>5. ASSUME Creating'
        PROVE  HasRows(MadeTable.ref, op.name)' /\ \A t \in made' : t.row # op'.row
    <3>1. PICK ref, n : ref = MadeTable.ref /\ n = op.name
      OBVIOUS
    <3>2. ref = MadeTable'.ref /\ n = op'.name
      BY <2>5, <3>1
    <3>3. HasRows(ref, n)'
      BY <2>1, <2>2, <2>5, <3>1 DEF Tables, MadeHaveRows
    <3>4. HasRows(MadeTable.ref, op.name)'
      BY <3>2, <3>3 DEF HasRows, LiveColumns
    <3> QED BY <2>1, <2>5, <3>4 DEF Tables, MadeHaveRows
  <2> QED BY <2>2, <2>3, <2>4, <2>5 DEF MadeHaveRows
<1> QED BY <1>2, <1>3 DEF Tables

LEMMA KeptTables ==
  ASSUME Inv, Inv', Kept
  PROVE  /\ Count("tables")' = Count("tables")
         /\ "revived" \notin history' => Unchanged
  BY SystemFacts DEF Kept, Unchanged, Count

LEMMA InitTables ==
  ASSUME Init
  PROVE  Tables
<1>1. \A T \in Table : Count(T) = 0
  BY EmptySeq DEF Init, Count
<1>2. DropIsKnown
  BY DEF Init, DropIsKnown
<1>3. OwnIds
  BY <1>1, SystemFacts DEF OwnIds
<1>4. MadeHaveRows
  BY DEF Init, MadeHaveRows, Creating, Idle
<1> QED BY <1>2, <1>3, <1>4 DEF Tables

\* Until something is dropped, the ids are those of the places.
LEMMA NumberedIds ==
  ASSUME Inv', "drop" \notin history', ~hole'
  PROVE  OwnIds'
<1>1. \A i \in 1 .. Count("tables")' : heap'["tables"][i].id = i - 1
  BY SystemFacts DEF Inv, Numbered
<1>2. Count("tables")' \in Nat
  BY LenProperties, SystemFacts DEF Inv, Types, Count
<1>3. \A i, j \in 1 .. Count("tables")' : i - 1 = j - 1 => i = j
  BY <1>2
<1> QED BY <1>1, <1>3 DEF OwnIds

\* There are no tables but the system tables' while these are made.
LEMMA BootTable ==
  ASSUME Inv, Inv', Tables, mode = "boot",
         UNCHANGED <<hole, op, made, history>>
  PROVE  Tables'
<1>1. op = Idle /\ "drop" \notin history
  BY DEF Inv, Structure, Tables, DropIsKnown
<1>2. DropIsKnown'
  BY <1>1 DEF DropIsKnown
<1>3. ASSUME Calm' PROVE OwnIds' /\ MadeHaveRows'
  <2>1. Calm
    BY <1>3 DEF Calm
  <2>2. "drop" \notin history' /\ ~hole'
    BY <1>1, <1>3 DEF Calm
  <2>3. OwnIds'
    BY <2>2, NumberedIds
  <2>4. made' = {} /\ op' = Idle
    BY <1>1, <2>1 DEF Tables, MadeHaveRows
  <2>5. MadeHaveRows'
    BY <2>4 DEF MadeHaveRows, Creating, Idle
  <2> QED BY <2>3, <2>5
<1> QED BY <1>2, <1>3 DEF Tables

LEMMA BootStepsTables ==
  ASSUME Inv, Inv', Tables, BootTables \/ BootColumns \/ EndBoot
  PROVE  Tables'
<1>1. \A T, row, n : InsertTuple(T, row, n) => hole' = hole
  BY DEF InsertTuple
<1>2. BootTables => mode = "boot" /\ UNCHANGED <<hole, op, made, history>>
  BY <1>1 DEF BootTables
<1>3. BootColumns => mode = "boot" /\ UNCHANGED <<hole, op, made, history>>
  BY <1>1 DEF BootColumns
<1>4. EndBoot => mode = "boot" /\ UNCHANGED <<hole, op, made, history>>
  BY DEF EndBoot, disk_vars
<1> QED BY <1>2, <1>3, <1>4, BootTable

\* Only ids that are not in use are given: "reused" says otherwise.
LEMMA CreateTableTables ==
  ASSUME Inv, Inv', Tables, NEW n \in Name, NEW c \in ColumnCount, CreateTable(n, c)
  PROVE  Tables'
<1> USE SystemFacts
<1>1. /\ mode = "open" /\ op = Idle /\ UNCHANGED <<mode, made>>
      /\ history' = history \cup {e \in {"reused"} : InUse(next_table_id)}
      /\ next_table_id \in Nat /\ next_page_id \in Nat
  BY DEF CreateTable, Ready, Inv, Types
<1>2. PICK row : row = TableRow(next_table_id, Stored(n), next_page_id)
  OBVIOUS
<1>3. /\ row \in Row /\ row.live /\ row.saved /\ row.id = next_table_id
      /\ row.name = Stored(n) /\ row.first = next_page_id
  BY <1>1, <1>2 DEF TableRow, Row, NoId
<1>4. Grown("tables", row) /\ hole' = hole
  <2>1. Home("tables") = "tables" /\ InsertTuple("tables", row, 1)
    BY <1>2 DEF Home, CreateTable
  <2> QED BY <1>3, <2>1, InsertedRow DEF Inv
<1>5. PICK a \in Nat, b \in Nat : a = Count("tables") /\ b = Count("columns")
  BY RowFacts DEF Inv
<1>6. /\ Count("tables")' = a + 1 /\ heap'["columns"] = heap["columns"]
      /\ Count("columns")' = b
  BY <1>4, <1>5 DEF Grown, Count
<1>7. op' = [step |-> "columns", name |-> n, left |-> c, row |-> a + 1,
             id |-> next_table_id, first |-> next_page_id, columns |-> {}]
  BY <1>5 DEF CreateTable, Count
<1>8. DropIsKnown'
  BY <1>1, <1>5, <1>6 DEF Tables, DropIsKnown
<1>9. ASSUME Calm' PROVE OwnIds' /\ MadeHaveRows'
  <2>1. Calm /\ ~InUse(next_table_id)
    BY <1>1, <1>4, <1>9 DEF Calm
  <2>2. /\ \A i \in 1 .. a : Same(heap["tables"][i], heap'["tables"][i])
                             /\ heap'["tables"][i].live = heap["tables"][i].live
        /\ Same(row, heap'["tables"][a + 1]) /\ heap'["tables"][a + 1].live
    BY <1>4, <1>5 DEF Grown
  <2>3. /\ \A i \in 1 .. a : heap["tables"][i].live => heap["tables"][i].id # next_table_id
        /\ \A j \in 1 .. b : heap["columns"][j].live => heap["columns"][j].table # next_table_id
    BY <1>5, <2>1, RowFacts DEF InUse, Live, Inv
  <2>4. OwnIds'
    <3>1. \A i, j \in 1 .. a : /\ heap["tables"][i].live /\ heap["tables"][j].live
                               /\ heap["tables"][i].id = heap["tables"][j].id
                               => i = j
      BY <1>5, <2>1 DEF Tables, OwnIds
    <3>2. heap'["tables"][a + 1].id = next_table_id
      BY <1>3, <2>2 DEF Same
    <3>3. \A i \in 1 .. a : /\ heap'["tables"][i].id = heap["tables"][i].id
                            /\ heap'["tables"][i].live = heap["tables"][i].live
      BY <2>2 DEF Same
    <3>4. \A i \in 1 .. a + 1 : i \in 1 .. a \/ i = a + 1
      OBVIOUS
    <3>5. \A i, j \in 1 .. a + 1 : /\ heap'["tables"][i].live /\ heap'["tables"][j].live
                                   /\ heap'["tables"][i].id = heap'["tables"][j].id
                                   => i = j
      BY <2>3, <3>1, <3>2, <3>3, <3>4
    <3> QED BY <1>6, <3>5 DEF OwnIds
  <2>5. \A j \in 1 .. b : ~ (j > b)
    OBVIOUS
  <2>6. \A id : LiveColumns(id)' = LiveColumns(id)
    BY <1>5, <1>6 DEF LiveColumns
  <2>7. ASSUME NEW t \in made
        PROVE  t.ref.row = t.row /\ HasRows(t.ref, t.name)' /\ t.row # a + 1
    <3>1. t.ref.row = t.row /\ HasRows(t.ref, t.name)
      BY <2>1 DEF Tables, MadeHaveRows
    <3>2. t.ref.row \in 1 .. a
      BY <1>5, <3>1 DEF HasRows
    <3>3. Same(heap["tables"][t.ref.row], heap'["tables"][t.ref.row])
          /\ heap'["tables"][t.ref.row].live
      BY <2>2, <3>1, <3>2 DEF HasRows
    <3>4. LiveColumns(t.ref.id)' = LiveColumns(t.ref.id) /\ a <= a + 1
      BY <2>6
    <3>5. HasRows(t.ref, t.name)'
      BY <1>5, <1>6, <3>1, <3>3, <3>4, RowsStay DEF Inv
    <3> QED BY <3>1, <3>2, <3>5
  <2>8. HasRows(MadeTable.ref, op.name)'
    <3>1. MadeTable'.ref = [row |-> a + 1, id |-> next_table_id, first |-> next_page_id,
                            columns |-> {}]
          /\ op'.name = n /\ op'.row = a + 1
      BY <1>7 DEF MadeTable
    <3>2. LiveColumns(next_table_id) = {}
      BY <1>5, <2>3 DEF LiveColumns
    <3>3. PICK id : id = next_table_id
      OBVIOUS
    <3>4. {j \in 1 .. Count("columns")' : heap'["columns"][j].live /\ heap'["columns"][j].table = id} = {}
      BY <1>6, <2>3, <3>3
    <3>5. heap'["tables"][a + 1].name = Stored(n) /\ heap'["tables"][a + 1].id = id
          /\ heap'["tables"][a + 1].first = next_page_id
      BY <1>3, <2>2, <3>3 DEF Same
    <3> QED BY <1>6, <2>2, <3>1, <3>3, <3>4, <3>5 DEF HasRows, LiveColumns
  <2>9. MadeHaveRows'
    BY <1>1, <1>7, <2>7, <2>8 DEF MadeHaveRows
  <2> QED BY <2>4, <2>9
<1> QED BY <1>8, <1>9 DEF Tables

LEMMA InsertColumnTables ==
  ASSUME Inv, Inv', Tables, InsertColumn
  PROVE  Tables'
<1> USE SystemFacts
<1>1. op \in CreateOp /\ Creating
  BY DEF InsertColumn, Inv, Types, DropOp, Idle, Creating
<1>2. next_column_id \in Nat /\ op.id \in Nat /\ op.step = "columns"
  BY <1>1 DEF Inv, Types, CreateOp, InsertColumn
<1>3. PICK row : row = ColumnRow(next_column_id, op.id)
  OBVIOUS
<1>4. row \in Row /\ row.live /\ row.saved /\ row.table = op.id
  BY <1>2, <1>3 DEF ColumnRow, Row, NoId
<1>5. /\ InsertTuple("columns", row, 0) /\ UNCHANGED <<mode, history, made, next_table_id>>
      /\ mode = "open"
  BY <1>3 DEF InsertColumn, Inv, Structure, Idle
<1>6. PICK k : k = Len(heap[Home("columns")]) + 1
  OBVIOUS
<1>7. op' = [op EXCEPT !.left = op.left - 1, !.columns = op.columns \cup {k}]
  BY <1>6 DEF InsertColumn
<1>8. /\ op'.step = op.step /\ op'.name = op.name /\ op'.row = op.row /\ op'.id = op.id
      /\ op'.first = op.first /\ op'.columns = op.columns \cup {k}
  BY <1>1, <1>7 DEF CreateOp
<1>9. DropIsKnown'
  BY <1>5 DEF DropIsKnown, Inv, Structure
<1>10. ASSUME Calm' PROVE OwnIds' /\ MadeHaveRows'
  <2>1. Calm /\ Home("columns") = "columns"
    BY <1>5, <1>10 DEF Calm, InsertTuple, Home
  <2>2. Grown("columns", row) /\ hole' = hole
    BY <1>4, <1>5, <2>1, InsertedRow DEF Inv
  <2>3. PICK a \in Nat, b \in Nat : a = Count("tables") /\ b = Count("columns")
    BY RowFacts DEF Inv
  <2>4. /\ Count("columns")' = b + 1 /\ heap'["tables"] = heap["tables"]
        /\ Count("tables")' = a /\ k = b + 1
    BY <1>6, <2>1, <2>2, <2>3 DEF Grown, Count
  <2>5. /\ \A i \in 1 .. b : Same(heap["columns"][i], heap'["columns"][i])
                             /\ heap'["columns"][i].live = heap["columns"][i].live
        /\ Same(row, heap'["columns"][b + 1]) /\ heap'["columns"][b + 1].live
    BY <2>2, <2>3 DEF Grown
  <2>6. PICK ref, n : ref = MadeTable.ref /\ n = op.name
    OBVIOUS
  <2>7. HasRows(ref, n) /\ ref.row = op.row /\ ref.id = op.id /\ ref.first = op.first
        /\ ref.columns = op.columns
    BY <1>1, <2>1, <2>6 DEF Tables, MadeHaveRows, MadeTable
  <2>8. heap'["columns"][b + 1].table = op.id
    BY <1>4, <2>5 DEF Same
  <2>9. OwnIds /\ OwnIds'
    BY <2>1, <2>3, <2>4 DEF Tables, OwnIds
  <2>10. op.row \in 1 .. a /\ heap["tables"][op.row].live /\ heap["tables"][op.row].id = op.id
    BY <2>3, <2>7 DEF HasRows
  <2>11. ASSUME NEW t \in made
         PROVE  t.ref.row = t.row /\ HasRows(t.ref, t.name)' /\ t.row # op.row
    <3>1. t.ref.row = t.row /\ HasRows(t.ref, t.name) /\ t.row # op.row
      BY <1>1, <2>1 DEF Tables, MadeHaveRows
    <3>2. t.ref.row \in 1 .. a /\ heap["tables"][t.ref.row].live
          /\ heap["tables"][t.ref.row].id = t.ref.id
      BY <2>3, <3>1 DEF HasRows
    <3>3. Same(heap["tables"][t.ref.row], heap'["tables"][t.ref.row])
          /\ heap'["tables"][t.ref.row].live
      BY <2>3, <2>4, <3>2, RowFacts DEF Inv, Same
    <3>4. op.id # t.ref.id
      BY <2>3, <2>9, <2>10, <3>1, <3>2 DEF OwnIds
    <3>5. \A j \in 1 .. b + 1 : j > b => heap'["columns"][j].table # t.ref.id
      <4>1. \A j \in 1 .. b + 1 : j > b => j = b + 1
        OBVIOUS
      <4> QED BY <2>8, <3>4, <4>1
    <3>6. b <= b + 1
      OBVIOUS
    <3>7. LiveColumns(t.ref.id)' = LiveColumns(t.ref.id)
      BY <2>3, <2>4, <2>5, <3>5, <3>6, ColumnsStay DEF Inv
    <3>8. HasRows(t.ref, t.name)'
      BY <2>3, <2>4, <3>1, <3>3, <3>7, RowsStay DEF Inv
    <3> QED BY <3>1, <3>8
  <2>12. HasRows(MadeTable.ref, op.name)'
    <3>1. MadeTable'.ref = [row |-> op.row, id |-> op.id, first |-> op.first,
                            columns |-> op.columns \cup {b + 1}]
          /\ op'.name = n
      BY <1>8, <2>4, <2>6 DEF MadeTable
    <3>2. /\ heap'["tables"][op.row].live /\ heap'["tables"][op.row].name = Stored(n)
          /\ heap'["tables"][op.row].first = op.first
          /\ heap'["tables"][op.row].id = op.id
      BY <2>4, <2>7 DEF HasRows
    <3>3. op.columns \cup {b + 1}
            = {j \in 1 .. b + 1 : heap'["columns"][j].live /\ heap'["columns"][j].table = op.id}
      <4>1. op.columns = {j \in 1 .. b : heap["columns"][j].live /\ heap["columns"][j].table = op.id}
        BY <2>3, <2>7 DEF HasRows, LiveColumns
      <4>2. \A j \in 1 .. b : /\ heap'["columns"][j].table = heap["columns"][j].table
                              /\ heap'["columns"][j].live = heap["columns"][j].live
        BY <2>5 DEF Same
      <4>3. \A j : j \in 1 .. b + 1 <=> j \in 1 .. b \/ j = b + 1
        OBVIOUS
      <4> QED BY <2>5, <2>8, <4>1, <4>2, <4>3
    <3> QED BY <2>4, <2>10, <3>1, <3>2, <3>3 DEF HasRows, LiveColumns
  <2>13. MadeHaveRows'
    BY <1>5, <1>8, <2>11, <2>12 DEF MadeHaveRows
  <2> QED BY <2>9, <2>13
<1> QED BY <1>9, <1>10 DEF Tables

LEMMA FlushTablesTables ==
  ASSUME Inv, Inv', Tables, FlushTables
  PROVE  Tables'
<1>1. Kept /\ hole' = hole
  BY FlushFacts, SystemFacts DEF FlushTables, Inv
<1>2. UNCHANGED <<mode, made, history>>
  BY DEF FlushTables, ids
<1>3. op.step \in {"columns", "dropped"}
  BY DEF FlushTables
<1>4. \/ op \in CreateOp /\ op.step = "columns"
      \/ op = [step |-> "dropped"]
  BY <1>3 DEF Inv, Types, DropOp, CreateOp, Idle
<1>5. op' = [op EXCEPT !.step = IF op.step = "columns" THEN "flush" ELSE "flushDrop"]
  BY DEF FlushTables
<1>6. /\ Creating' = Creating
      /\ Creating => MadeTable' = MadeTable /\ op'.name = op.name /\ op'.row = op.row
  <2>1. CASE op \in CreateOp /\ op.step = "columns"
    <3>1. /\ op'.step = "flush" /\ op'.name = op.name /\ op'.row = op.row /\ op'.id = op.id
          /\ op'.first = op.first /\ op'.columns = op.columns
      BY <1>5, <2>1 DEF CreateOp
    <3> QED BY <2>1, <3>1 DEF Creating, MadeTable
  <2>2. CASE op = [step |-> "dropped"]
    <3>1. op'.step = "flushDrop" /\ op.step = "dropped"
      BY <1>5, <2>2
    <3> QED BY <3>1 DEF Creating
  <2> QED BY <1>4, <2>1, <2>2
<1>7. /\ Count("tables")' = Count("tables")
      /\ "revived" \notin history' => Unchanged
  BY <1>1, KeptTables
<1> QED BY <1>1, <1>2, <1>6, <1>7, UnchangedTables

LEMMA EvictTables ==
  ASSUME Inv, Inv', Tables, NEW T \in Table, NEW k \in 1 .. MaxRows, Evict(T, k)
  PROVE  Tables'
<1>1. /\ Kept /\ hole' = hole
      /\ history \subseteq history' /\ history' \subseteq history \cup {"revived"}
  BY EvictedPage
<1>2. UNCHANGED <<mode, made, op>>
  BY DEF Evict
<1>3. /\ Count("tables")' = Count("tables")
      /\ "revived" \notin history' => Unchanged
  BY <1>1, KeptTables
<1>4. Creating' = Creating /\ MadeTable' = MadeTable
  BY <1>2 DEF Creating, MadeTable
<1> QED BY <1>1, <1>2, <1>3, <1>4, UnchangedTables

LEMMA EndStatementTables ==
  ASSUME Inv, Inv', Tables, EndStatement
  PROVE  Tables'
<1> USE SystemFacts
<1>1. Kept /\ hole' = hole
  BY FlushFacts DEF EndStatement, Inv
<1>2. UNCHANGED <<mode, history>> /\ op' = Idle /\ ~Creating'
  BY DEF EndStatement, ids, Creating, Idle
<1>3. /\ Count("tables")' = Count("tables")
      /\ "revived" \notin history' => Unchanged
  BY <1>1, KeptTables
<1>4. DropIsKnown'
  BY <1>2, <1>3 DEF Tables, DropIsKnown
<1>5. ASSUME Calm' PROVE OwnIds' /\ MadeHaveRows'
  <2>1. Calm /\ Unchanged
    BY <1>1, <1>2, <1>3, <1>5 DEF Calm
  <2>2. /\ OwnIds'
        /\ \A ref, n : HasRows(ref, n) => HasRows(ref, n)'
    BY <2>1, UnchangedRows DEF Tables
  <2>3. mode = "open"
    BY DEF EndStatement, Inv, Structure, Idle
  <2>4. \A t \in made : t.ref.row = t.row /\ HasRows(t.ref, t.name)
    BY <2>1 DEF Tables, MadeHaveRows
  <2>5. PICK made_table : made_table = MadeTable
    OBVIOUS
  <2>6. op.step = "flush" =>
          made_table.ref.row = made_table.row /\ HasRows(made_table.ref, made_table.name)
    BY <2>1, <2>5 DEF Tables, MadeHaveRows, MadeTable, Creating
  <2>7. made' \in {made, made \cup {made_table}}
        /\ (op.step # "flush" => made' = made)
    BY <2>5 DEF EndStatement
  <2>8. \A t \in made' : t.ref.row = t.row /\ HasRows(t.ref, t.name)'
    BY <2>2, <2>4, <2>6, <2>7
  <2> QED BY <1>2, <2>2, <2>3, <2>8 DEF MadeHaveRows
<1> QED BY <1>4, <1>5 DEF Tables

LEMMA LeastNumber ==
  ASSUME NEW S \in SUBSET Nat, S # {}
  PROVE  \E x \in S : \A y \in S : x <= y
<1> DEFINE R == OpToRel(<, Nat)
<1>1. PICK x \in S : \A y \in S : ~ (<<y, x>> \in R)
  BY NatLessThanWellFounded, WFMin
<1>2. \A y \in S : <<y, x>> \in R <=> y < x
  BY DEF OpToRel
<1>3. \A y \in S : ~ (y < x)
  BY <1>1, <1>2
<1> QED BY <1>3

LEMMA FirstRow ==
  ASSUME Types, NEW n, Exists(n)
  PROVE  /\ FirstOf(RowsNamed(n)) \in RowsNamed(n)
         /\ RowsNamed(n) \subseteq 1 .. Count("tables")
         /\ \A i \in RowsNamed(n) : FirstOf(RowsNamed(n)) <= i
<1>1. PICK S : S = RowsNamed(n)
  OBVIOUS
<1>2. S # {} /\ S \subseteq 1 .. Count("tables") /\ Count("tables") \in Nat
  BY <1>1, RowFacts, SystemFacts DEF Exists, RowsNamed, Visible
<1>3. PICK x \in S : \A y \in S : x <= y
  BY <1>2, LeastNumber
<1>4. FirstOf(S) \in S /\ \A y \in S : FirstOf(S) <= y
  BY <1>3 DEF FirstOf
<1> QED BY <1>1, <1>2, <1>4

\* Only the row of the dropped table, and columns with its id, are deleted.
LEMMA DropTableTables ==
  ASSUME Inv, Inv', Tables, NEW n \in Droppable, DropTable(n)
  PROVE  Tables'
<1> USE SystemFacts
<1>1. /\ mode = "open" /\ Exists(n) /\ hole' = hole /\ mode' = mode
      /\ history' = history \cup {"drop"}
  BY DEF DropTable, Ready
<1>2. PICK r : r = FirstOf(RowsNamed(n))
  OBVIOUS
<1>3. r \in 1 .. Count("tables") /\ heap["tables"][r].live
  <2>1. r \in RowsNamed(n) /\ r \in 1 .. Count("tables")
    BY <1>1, <1>2, FirstRow DEF Inv
  <2> QED BY <2>1 DEF RowsNamed, Visible
<1>4. PICK id : id = heap["tables"][r].id
  OBVIOUS
<1>5. PICK cs : cs = ColumnsOf(id)
  OBVIOUS
<1>6. /\ heap' = [T \in Table |-> Delete(T, IF T = "tables" THEN {r} ELSE cs)]
      /\ op' = [step |-> "dropped"] /\ made' = {t \in made : t.row # r}
  BY <1>2, <1>4, <1>5 DEF DropTable, GetTableRef
<1>7. heap'["tables"] = Delete("tables", {r}) /\ heap'["columns"] = Delete("columns", cs)
  BY <1>6
<1>8. PICK a \in Nat, b \in Nat : a = Count("tables") /\ b = Count("columns")
  BY RowFacts DEF Inv
<1>9. Count("tables")' = a /\ Count("columns")' = b
  <2>1. \A T \in Table : \A is : Len(Delete(T, is)) = Count(T)
    BY DeletedRows DEF Inv
  <2> QED BY <1>7, <1>8, <2>1 DEF Count
<1>10. ASSUME NEW T \in Table, NEW is, NEW i \in 1 .. Count(T)
       PROVE  /\ Same(heap[T][i], Delete(T, is)[i])
              /\ Delete(T, is)[i].live = (i \notin is /\ heap[T][i].live)
  <2>1. heap[T][i] \in Row /\ i \in DOMAIN heap[T]
    BY RowFacts DEF Inv
  <2>2. Delete(T, is)[i] = IF i \in is THEN [heap[T][i] EXCEPT !.live = FALSE] ELSE heap[T][i]
    BY <2>1 DEF Delete
  <2> QED BY <2>1, <2>2 DEF Same, Row
<1>11. /\ \A i \in 1 .. a : /\ Same(heap["tables"][i], heap'["tables"][i])
                            /\ heap'["tables"][i].live = (i \notin {r} /\ heap["tables"][i].live)
       /\ \A j \in 1 .. b : /\ Same(heap["columns"][j], heap'["columns"][j])
                            /\ heap'["columns"][j].live = (j \notin cs /\ heap["columns"][j].live)
  BY <1>7, <1>8, <1>10
<1>12. DropIsKnown'
  BY <1>1 DEF DropIsKnown, Inv, Structure
<1>13. ASSUME Calm' PROVE OwnIds' /\ MadeHaveRows'
  <2>1. Calm /\ OwnIds
    BY <1>1, <1>13 DEF Calm, Tables
  <2>2. OwnIds'
    <3>1. SUFFICES ASSUME NEW i \in 1 .. a, NEW j \in 1 .. a,
                          heap'["tables"][i].live, heap'["tables"][j].live,
                          heap'["tables"][i].id = heap'["tables"][j].id
                   PROVE  i = j
      BY <1>8, <1>9 DEF OwnIds
    <3>2. heap["tables"][i].live /\ heap["tables"][j].live
      BY <1>11, <3>1
    <3>3. heap["tables"][i].id = heap["tables"][j].id
      BY <1>11, <3>1 DEF Same
    <3> QED BY <1>8, <2>1, <3>2, <3>3 DEF OwnIds
  <2>3. ASSUME NEW t \in made, t.row # r
        PROVE  t.ref.row = t.row /\ HasRows(t.ref, t.name)'
    <3>1. t.ref.row = t.row /\ HasRows(t.ref, t.name)
      BY <2>1 DEF Tables, MadeHaveRows
    <3>2. t.row \in 1 .. a /\ heap["tables"][t.row].live /\ heap["tables"][t.row].id = t.ref.id
      BY <1>8, <3>1 DEF HasRows
    <3>3. Same(heap["tables"][t.ref.row], heap'["tables"][t.ref.row])
          /\ heap'["tables"][t.ref.row].live
      BY <1>11, <2>3, <3>1, <3>2
    <3>4. t.ref.id # id
      BY <1>3, <1>4, <1>8, <2>1, <2>3, <3>2 DEF OwnIds
    <3>5. ASSUME NEW j \in 1 .. b, heap["columns"][j].table = t.ref.id
          PROVE  heap'["columns"][j].live = heap["columns"][j].live
      <4>1. j \notin cs
        BY <1>5, <3>4, <3>5 DEF ColumnsOf
      <4>2. heap["columns"][j] \in Row
        BY <1>8, RowFacts DEF Inv
      <4> QED BY <1>11, <4>1, <4>2 DEF Row
    <3>6. \A j \in 1 .. b : ~ (j > b)
      OBVIOUS
    <3>7. LiveColumns(t.ref.id)' = LiveColumns(t.ref.id)
      BY <1>8, <1>9, <1>11, <3>5, <3>6, ColumnsStay DEF Inv
    <3>8. a <= a
      OBVIOUS
    <3> QED BY <1>8, <1>9, <3>1, <3>3, <3>7, <3>8, RowsStay DEF Inv
  <2>4. MadeHaveRows'
    BY <1>1, <1>6, <2>3 DEF MadeHaveRows, Creating
  <2> QED BY <2>2, <2>4
<1> QED BY <1>12, <1>13 DEF Tables

LEMMA DownTables ==
  ASSUME Inv, Inv', Tables, NEW ks, Down(ks)
  PROVE  Tables'
<1> USE SystemFacts
<1>1. /\ \A T \in Table :
           /\ Count(T)' \in 0 .. Count(T)
           /\ Count(T) > 0 => Count(T)' > 0
           /\ "cut" \notin history' => Count(T)' = Count(T)
           /\ \A i \in 1 .. Count(T)' :
                /\ Same(heap[T][i], heap'[T][i])
                /\ "revived" \notin history' => heap'[T][i].live = heap[T][i].live
      /\ history \subseteq history'
  BY DownFacts
<1>2. /\ mode' = "down" /\ op' = Idle /\ UNCHANGED <<hole, made>>
      /\ history' \subseteq history \cup {"cut", "revived"}
  BY DEF Down, ids
<1>3. ~Creating'
  BY <1>2 DEF Creating, Idle
<1>4. DropIsKnown'
  <2>1. "drop" \in history' => "drop" \in history
    BY <1>2
  <2> QED BY <1>1, <1>2, <2>1 DEF Tables, DropIsKnown
<1>5. ASSUME Calm' PROVE OwnIds' /\ MadeHaveRows'
  <2>1. Calm /\ "cut" \notin history' /\ "revived" \notin history'
    BY <1>1, <1>2, <1>5 DEF Calm
  <2>2. Unchanged
    BY <1>1, <2>1 DEF Unchanged
  <2>3. /\ OwnIds'
        /\ \A ref, n : HasRows(ref, n) => HasRows(ref, n)'
    BY <2>1, <2>2, UnchangedRows DEF Tables
  <2>4. \A t \in made : t.ref.row = t.row /\ HasRows(t.ref, t.name)'
    BY <2>1, <2>3 DEF Tables, MadeHaveRows
  <2> QED BY <1>2, <1>3, <2>3, <2>4 DEF MadeHaveRows
<1> QED BY <1>4, <1>5 DEF Tables

\* A file whose first page of master_columns is missing stays one.
LEMMA OpenKeepsHole ==
  ASSUME Inv, Open
  PROVE  hole => hole'
<1>1. hole => Count("columns") = 0 /\ heap["columns"] \in Seq(Row)
  BY RowFacts, SystemFacts DEF Inv, Structure
<1>2. hole => heap["columns"] = <<>>
  BY <1>1, EmptySeq DEF Count
<1> QED BY <1>2 DEF Open

LEMMA OpenTables ==
  ASSUME Inv, Inv', Tables, Open
  PROVE  Tables'
<1> USE SystemFacts
<1>1. /\ heap' = heap /\ op' = Idle /\ made' = made /\ history' = history /\ mode = "down"
      /\ mode' \in {"boot", "open"}
  BY DEF Open, Inv, Structure
<1>2. /\ \A T \in Table : Count(T)' = Count(T) /\ Count(T) \in Nat
      /\ mode' = "boot" <=> Count("tables") = 0
  <2>1. \A T \in Table : Count(T)' = Count(T) /\ Count(T) \in Nat
    BY <1>1, RowFacts DEF Inv, Count
  <2>2. heap["tables"] = <<>> <=> Count("tables") = 0
    BY RowFacts, EmptySeq DEF Inv, Count
  <2> QED BY <2>1, <2>2 DEF Open
<1>3. ~Creating'
  BY <1>1 DEF Creating, Idle
<1>4. DropIsKnown'
  BY <1>1, <1>2 DEF Tables, DropIsKnown
<1>5. ASSUME Calm' PROVE OwnIds' /\ MadeHaveRows'
  <2>1. Calm /\ Unchanged
    BY <1>1, <1>5, SameRows, KeptTables, OpenKeepsHole DEF Calm, Inv
  <2>2. /\ OwnIds'
        /\ \A ref, n : HasRows(ref, n) => HasRows(ref, n)'
    BY <2>1, UnchangedRows DEF Tables
  <2>3. \A t \in made : t.ref.row = t.row /\ HasRows(t.ref, t.name)
    BY <2>1 DEF Tables, MadeHaveRows
  <2>4. \A t \in made : t.ref.row \in 1 .. Count("tables")
    BY <2>3 DEF HasRows
  <2>5. mode' = "boot" => made = {}
    BY <1>2, <2>4
  <2> QED BY <1>1, <1>3, <2>2, <2>3, <2>5 DEF MadeHaveRows
<1> QED BY <1>4, <1>5 DEF Tables

LEMMA NextTables ==
  ASSUME Inv, Inv', Tables, [Next]_vars
  PROVE  Tables'
<1>1. CASE UNCHANGED vars
  <2>1. UNCHANGED <<heap, hole, op, mode, made, history>>
    BY <1>1 DEF vars, disk_vars, ids
  <2>2. /\ Count("tables")' = Count("tables")
        /\ "revived" \notin history' => Unchanged
    BY <2>1, SameRows, KeptTables DEF Inv
  <2>3. Creating' = Creating /\ MadeTable' = MadeTable
    BY <2>1 DEF Creating, MadeTable
  <2> QED BY <2>1, <2>2, <2>3, UnchangedTables
<1>2. ASSUME NEW n \in Name, NEW c \in ColumnCount, CreateTable(n, c) PROVE Tables'
  BY <1>2, CreateTableTables
<1>3. ASSUME NEW n \in Droppable, DropTable(n) PROVE Tables'
  BY <1>3, DropTableTables
<1>4. ASSUME NEW T \in Table, NEW k \in 1 .. MaxRows, Evict(T, k) PROVE Tables'
  BY <1>4, EvictTables
<1>5. CASE Close
  BY <1>5, DownTables DEF Close
<1>6. CASE Crash
  BY <1>6, DownTables DEF Crash
<1>7. CASE Next
  BY <1>2, <1>3, <1>4, <1>5, <1>6, <1>7, BootStepsTables,
     InsertColumnTables, FlushTablesTables, EndStatementTables, OpenTables DEF Next
<1> QED BY <1>1, <1>7

\* A lookup meets the one row with the name, and every column of its table.
LEMMA TablesAreInSight ==
  ASSUME Inv, Names, Tables
  PROVE  TablesAreFound
<1> USE SystemFacts
<1> SUFFICES ASSUME Ready, history \subseteq {"drop"}, ~hole, NoPageIsDead,
                    NEW t \in made, Fits(t.name)
             PROVE  Found(t)
  BY DEF TablesAreFound
<1>1. OwnIds /\ t.ref.row = t.row /\ HasRows(t.ref, t.name)
  BY DEF Calm, Tables, MadeHaveRows
<1>2. t.name \in Name /\ Stored(t.name) = t.name
  <2>1. t.name \in {m \in Name : Stored(m) = t.name}
    BY DEF Fits
  <2> QED BY <2>1
<1>3. DOMAIN heap["tables"] = 1 .. Count("tables") /\ Count("tables") \in Nat
      /\ DOMAIN heap["columns"] = 1 .. Count("columns")
  BY RowFacts DEF Inv
<1>4. /\ \A i : i \in Visible("tables") <=> i \in 1 .. Count("tables") /\ heap["tables"][i].live
      /\ \A j : j \in Visible("columns") <=> j \in 1 .. Count("columns") /\ heap["columns"][j].live
  BY <1>3 DEF NoPageIsDead, Live
<1>5. t.ref.row \in RowsNamed(t.name)
  BY <1>1, <1>2, <1>4 DEF RowsNamed, HasRows
<1>6. ASSUME NEW i \in RowsNamed(t.name), NEW j \in RowsNamed(t.name), i < j PROVE FALSE
  BY <1>2, <1>3, <1>6, OneInSight
<1>7. RowsNamed(t.name) = {t.ref.row}
  <2>1. RowsNamed(t.name) \subseteq Nat
    BY <1>3 DEF RowsNamed, Visible
  <2> QED BY <1>5, <1>6, <2>1
<1>8. FirstOf(RowsNamed(t.name)) = t.ref.row
  BY <1>3, <1>5, <1>7 DEF FirstOf, RowsNamed, Visible
<1>9. heap["tables"][t.ref.row].id = t.ref.id
  BY <1>1 DEF HasRows
<1>10. ColumnsOf(t.ref.id) = t.ref.columns
  BY <1>1, <1>4 DEF ColumnsOf, HasRows, LiveColumns
<1>11. GetTableRef(t.name) = t.ref
  BY <1>1, <1>8, <1>9, <1>10 DEF GetTableRef, HasRows
<1> QED BY <1>5, <1>11 DEF Found, Exists

\* A table whose CREATE returned and that no DROP has begun to remove is found,
\* with its own columns and no others, through creations and drops of tables,
\* evictions, closes, crashes and restarts, in every state in which, so far,
\* no deletion was forgotten, no page was cut off with its link, no id in use
\* was given out again and page 1 was not lost, in which no page of a system
\* table is without live rows, and if its name fits.  Each of these the code
\* may spoil.
THEOREM MadeTablesAreFound == Spec => []TablesAreFound
<1>1. ASSUME Inv, Names, Inv', [Next]_vars PROVE Names'
  BY <1>1, NextNames
<1>2. ASSUME Inv, Tables, Inv', [Next]_vars PROVE Tables'
  BY <1>2, NextTables
<1>3. Spec => []Inv /\ []Names /\ []Tables
  BY <1>1, <1>2, InitNames, InitTables, InvHolds, PTL DEF Spec
<1>4. Inv /\ Names /\ Tables => TablesAreFound
  BY TablesAreInSight
<1> QED BY <1>3, <1>4, PTL

-----------------------------------------------------------------------------
(* Links.                                                                  *)

\* The link from the first page to the second is in the file or will be when
\* the first page is flushed.
FirstLink(T) ==
  /\ PageCount(heap[T]) > 1 => 1 \in linked[T] \/ 1 \in dirty[T]
  /\ 1 \in linked[T] => PageCount(heap[T]) > 1

Saved(T) == PageCount(heap[T]) > 1 => 1 \in linked[T]

\* A table with rows on a second page was made after that page was linked.
MadeAreLinked ==
  \A t \in made :
    /\ t.ref.row = t.row
    /\ PageOf(t.row) = 2 => 1 \in linked["tables"]
    /\ \A j \in t.ref.columns : PageOf(j) = 2 => 1 \in linked["columns"]

OpIsLinked ==
  /\ op.step = "flush" => Saved("tables")
  /\ Creating => /\ op.row \in 1 .. Count("tables")
                 /\ op.columns \subseteq 1 .. Count("columns")

Links ==
  /\ \A T \in Table : FirstLink(T)
  /\ ~hole => MadeAreLinked /\ OpIsLinked

LEMMA PageCounts ==
  ASSUME NEW s \in Seq(Row)
  PROVE  /\ PageCount(s) \in Nat
         /\ Len(s) = 0 => PageCount(s) = 0
         /\ Len(s) > 0 => PageCount(s) = PageOf(Len(s))
         /\ \A i \in 1 .. Len(s) : PageOf(i) \in Nat \ {0} /\ PageOf(i) <= PageCount(s)
<1>1. PICK c \in Nat : c = Len(s)
  BY LenProperties
<1>2. CASE c = 0
  <2>1. s = <<>> /\ PageCount(s) = 0
    BY <1>1, <1>2, EmptySeq DEF PageCount
  <2>2. \A i \in 1 .. c : FALSE
    BY <1>2
  <2> QED BY <1>1, <1>2, <2>1, <2>2
<1>3. CASE c > 0
  <2>1. s # <<>> /\ PageCount(s) = PageOf(c)
    BY <1>1, <1>3, EmptySeq DEF PageCount
  <2>2. PageOf(c) \in Nat \ {0}
    BY <1>3, PageFacts
  <2>3. \A i \in 1 .. c : PageOf(i) \in Nat \ {0} /\ PageOf(i) <= PageOf(c)
    BY <1>3, PageFacts, PagesAscend
  <2> QED BY <1>1, <1>3, <2>1, <2>2, <2>3
<1> QED BY <1>1, <1>2, <1>3

LEMMA NextPage ==
  ASSUME NEW i \in Nat \ {0}
  PROVE  PageOf(i) = 1 => PageOf(i + 1) \in {1, 2}
<1>1. PICK n \in Nat \ {0} : n = RowsPerPage
  BY SystemFacts
<1>2. PICK a \in Nat : a = i - 1
  OBVIOUS
<1>3. a \div n = 0 => a < n
  BY <1>1, Z3
<1>4. a < n => (a + 1) \div n \in {0, 1}
  <2>1. ASSUME a + 1 < n PROVE (a + 1) \div n = 0
    BY <1>1, <2>1, Z3
  <2>2. n \div n = 1
    BY <1>1, Z3
  <2>3. a < n => a + 1 < n \/ a + 1 = n
    BY <1>1
  <2> QED BY <2>1, <2>2, <2>3
<1>5. a \div n \in Nat /\ (a + 1) \div n \in Nat
  BY <1>1, Z3
<1>6. PageOf(i) = a \div n + 1 /\ PageOf(i + 1) = (a + 1) \div n + 1
  <2>1. i + 1 - 1 = a + 1
    BY <1>2
  <2> QED BY <1>1, <1>2, <2>1 DEF PageOf
<1> QED BY <1>3, <1>4, <1>5, <1>6

\* A row that opens the second page marks the first.
LEMMA LinkInserted ==
  ASSUME Inv, NEW T \in Table, NEW row \in Row, row.live, row.saved, NEW n \in Nat,
         InsertTuple(T, row, n), \A U \in Table : FirstLink(U)
  PROVE  linked' = linked /\ \A U \in Table : FirstLink(U)'
<1>1. PICK H \in Table : H = Home(T)
  BY RowFacts DEF Inv
<1>2. Grown(H, row)
  BY <1>1, InsertedRow DEF Inv
<1>3. PICK s : s = heap[H]
  OBVIOUS
<1>4. PICK c \in Nat : c = Len(s) /\ s \in Seq(Row)
  BY <1>3, RowFacts DEF Inv, Count
<1>5. heap'[H] \in Seq(Row) /\ Len(heap'[H]) = c + 1
  BY <1>2, <1>3, <1>4 DEF Grown, Count
<1>6. PICK p \in Nat \ {0} : p = PageOf(c + 1)
  BY PageFacts
<1>7. PICK q \in Nat : q = PageCount(s)
  BY <1>4, PageCounts
<1>8. PageCount(heap'[H]) = p
  BY <1>5, <1>6, PageCounts
<1>9. /\ dirty' = [dirty EXCEPT ![H] = (dirty[H] \cup {k - 1 : k \in NewPages(H)}) \ {p}]
      /\ linked' = linked
  <2>1. Len(Append(s, row)) = c + 1
    BY <1>4, AppendProperties
  <2> QED BY <1>1, <1>3, <1>6, <2>1 DEF InsertTuple
<1>10. /\ dirty'[H] = (dirty[H] \cup {k - 1 : k \in NewPages(H)}) \ {p}
       /\ \A U \in Table \ {H} : dirty'[U] = dirty[U] /\ heap'[U] = heap[U]
  BY <1>2, <1>9 DEF Inv, Types, Grown
<1>11. q <= p /\ (c > 0 => q = PageOf(c)) /\ (c = 0 => q = 0 /\ p = 1)
  <2>1. c > 0 => q = PageOf(c)
    BY <1>4, <1>7, PageCounts
  <2>2. c = 0 => q = 0 /\ p = 1
    <3>1. c = 0 => q = 0
      BY <1>4, <1>7, PageCounts
    <3>2. PageOf(1) = 1
      BY PageFacts
    <3> QED BY <1>6, <3>1, <3>2
  <2>3. c > 0 => PageOf(c) <= PageOf(c + 1)
    BY PagesAscend
  <2> QED BY <1>6, <2>1, <2>2, <2>3
<1>12. FirstLink(H)'
  <2>1. 1 \in linked[H] => p > 1
    <3>1. 1 \in linked[H] => q > 1
      BY <1>3, <1>7 DEF FirstLink
    <3> QED BY <1>11, <3>1
  <2>2. ASSUME p > 1, 1 \notin linked[H] PROVE 1 \in dirty'[H]
    <3>1. CASE q > 1
      <4>1. 1 \in dirty[H]
        BY <1>3, <1>7, <2>2, <3>1 DEF FirstLink
      <4> QED BY <1>10, <2>2, <4>1
    <3>2. CASE q <= 1
      <4>1. c > 0 /\ PageOf(c) = 1
        <5>1. c > 0
          BY <1>11, <2>2
        <5>2. PageOf(c) \in Nat \ {0}
          BY <5>1, PageFacts
        <5> QED BY <1>11, <3>2, <5>1, <5>2
      <4>2. p = 2 /\ q = 1
        <5>1. PageOf(c + 1) \in {1, 2}
          BY <4>1, NextPage
        <5> QED BY <1>6, <1>11, <2>2, <4>1, <5>1
      <4>3. NewPages(H) = {2} \ 1 .. Larger(1, 1)
        BY <1>3, <1>4, <1>6, <1>7, <4>2 DEF NewPages
      <4>4. 2 \in NewPages(H)
        BY <4>3 DEF Larger
      <4>5. 1 \in {k - 1 : k \in NewPages(H)}
        BY <4>4
      <4> QED BY <1>10, <2>2, <4>5
    <3> QED BY <3>1, <3>2
  <2> QED BY <1>8, <1>9, <2>1, <2>2 DEF FirstLink
<1>13. ASSUME NEW U \in Table \ {H} PROVE FirstLink(U)'
  BY <1>9, <1>10, <1>13 DEF FirstLink
<1> QED BY <1>9, <1>12, <1>13

LEMMA SameCounts ==
  ASSUME Types, Types', NEW T \in Table, Count(T)' = Count(T)
  PROVE  PageCount(heap'[T]) = PageCount(heap[T])
<1>1. heap[T] \in Seq(Row) /\ heap'[T] \in Seq(Row) /\ Len(heap'[T]) = Len(heap[T])
  BY DEF Types, Count
<1>2. Len(heap[T]) \in Nat
  BY <1>1, LenProperties
<1> QED BY <1>1, <1>2, PageCounts

\* Flushing the first page saves its link.
LEMMA LinkFlushed ==
  ASSUME Inv, Inv', NEW T \in Table, FlushFirstPage(T), \A U \in Table : FirstLink(U)
  PROVE  /\ Saved(T)' /\ \A U \in Table : FirstLink(U)' /\ linked[U] \subseteq linked'[U]
         /\ \A U \in Table \ {T} : linked'[U] = linked[U]
<1>1. Kept
  BY FlushFacts DEF Inv
<1>2. \A U \in Table : PageCount(heap'[U]) = PageCount(heap[U]) /\ PageCount(heap[U]) \in Nat
  <2>1. \A U \in Table : Count(U)' = Count(U)
    BY <1>1 DEF Kept, Count
  <2>2. \A U \in Table : PageCount(heap'[U]) = PageCount(heap[U])
    BY <2>1, SameCounts DEF Inv
  <2> QED BY <2>2, RowFacts, PageCounts DEF Inv
<1>3. PICK ks : ks = {1} \cap dirty[T]
  OBVIOUS
<1>4. /\ linked' = [linked EXCEPT ![T] =
                      linked[T] \cup {k \in ks : k < PageCount(heap[T])}]
      /\ dirty' = [dirty EXCEPT ![T] = dirty[T] \ ks]
  BY <1>3 DEF FlushFirstPage, WritePages
<1>5. /\ linked'[T] = linked[T] \cup {k \in ks : k < PageCount(heap[T])}
      /\ \A U \in Table \ {T} : linked'[U] = linked[U] /\ dirty'[U] = dirty[U]
  BY <1>4 DEF Inv, Types
<1>6. Saved(T)'
  BY <1>2, <1>3, <1>5 DEF Saved, FirstLink
<1>7. FirstLink(T)'
  BY <1>2, <1>3, <1>5, <1>6 DEF FirstLink, Saved
<1>8. \A U \in Table \ {T} : FirstLink(U)'
  BY <1>2, <1>5 DEF FirstLink
<1> QED BY <1>5, <1>6, <1>7, <1>8

LEMMA InitLinks ==
  ASSUME Init
  PROVE  Links
<1>1. \A T \in Table : PageCount(heap[T]) = 0 /\ linked[T] = {}
  BY DEF Init, PageCount
<1> QED BY <1>1 DEF Init, Links, FirstLink, MadeAreLinked, OpIsLinked, Creating, Idle

\* Links are not lost and no statement is in progress.
LEMMA MoreLinks ==
  ASSUME Links, \A T \in Table : FirstLink(T)',
         ~hole' => ~hole,
         \A T \in Table : 1 \in linked[T] => 1 \in linked'[T],
         made' \subseteq made, ~Creating'
  PROVE  Links'
<1>1. ASSUME ~hole' PROVE MadeAreLinked'
  BY <1>1, SystemFacts DEF Links, MadeAreLinked
<1>2. OpIsLinked'
  BY DEF OpIsLinked, Creating
<1> QED BY <1>1, <1>2 DEF Links

LEMMA BootTablesLinks ==
  ASSUME Inv, Inv', Links, BootTables
  PROVE  Links'
<1> USE SystemFacts
<1>1. Count("tables") \in {0, 1}
  <2>1. Count("tables") \in Nat /\ Count("tables") < 2
    BY RowFacts DEF BootTables, Inv, Count
  <2> QED BY <2>1
<1>2. PICK row : row = SystemRows[Count("tables") + 1]
  OBVIOUS
<1>3. row \in Row /\ row.live /\ row.saved
  BY <1>1, <1>2, SystemRowFacts
<1>4. InsertTuple("tables", row, 0)
  BY <1>2 DEF BootTables, Count
<1>5. hole' = hole /\ linked' = linked /\ \A T \in Table : FirstLink(T)'
  BY <1>3, <1>4, InsertedRow, LinkInserted DEF Inv, Links
<1>6. op' = Idle /\ made' = made
  BY DEF BootTables, Inv, Structure
<1> QED BY <1>5, <1>6, MoreLinks DEF Creating, Idle

LEMMA BootColumnsLinks ==
  ASSUME Inv, Inv', Links, BootColumns
  PROVE  Links'
<1> USE SystemFacts
<1>1. Count("columns") \in Nat
  BY RowFacts DEF Inv
<1>2. PICK row : row = SystemColumnRow(Count("columns"))
  OBVIOUS
<1>3. row \in Row /\ row.live /\ row.saved
  BY <1>1, <1>2 DEF SystemColumnRow, ColumnRow, Row, NoId
<1>4. InsertTuple("columns", row, 0)
  BY <1>2 DEF BootColumns, Count
<1>5. hole' = hole /\ linked' = linked /\ \A T \in Table : FirstLink(T)'
  BY <1>3, <1>4, InsertedRow, LinkInserted DEF Inv, Links
<1>6. op' = Idle /\ made' = made
  BY DEF BootColumns, Inv, Structure
<1> QED BY <1>5, <1>6, MoreLinks DEF Creating, Idle

\* What leaves the heaps and the links alone.
LEMMA SameLinks ==
  ASSUME Inv, Inv', Links, UNCHANGED <<heap, linked, dirty, made>>,
         op' = Idle, ~hole' => ~hole
  PROVE  Links'
<1>1. \A T \in Table : FirstLink(T)'
  BY DEF Links, FirstLink
<1> QED BY <1>1, MoreLinks DEF Creating, Idle

LEMMA CreateTableLinks ==
  ASSUME Inv, Inv', Links, NEW n \in Name, NEW c \in ColumnCount, CreateTable(n, c)
  PROVE  Links'
<1> USE SystemFacts
<1>1. /\ made' = made /\ next_table_id \in Nat /\ next_page_id \in Nat
  BY DEF CreateTable, Inv, Types
<1>2. PICK row : row = TableRow(next_table_id, Stored(n), next_page_id)
  OBVIOUS
<1>3. row \in Row /\ row.live /\ row.saved
  BY <1>1, <1>2 DEF TableRow, Row, NoId
<1>4. InsertTuple("tables", row, 1) /\ Home("tables") = "tables"
  BY <1>2 DEF Home, CreateTable
<1>5. Grown("tables", row) /\ hole' = hole
      /\ linked' = linked /\ \A T \in Table : FirstLink(T)'
  BY <1>3, <1>4, InsertedRow, LinkInserted DEF Inv, Links
<1>6. PICK a \in Nat : a = Count("tables") /\ Count("tables")' = a + 1
  BY <1>5, RowFacts DEF Inv, Grown, Count
<1>7. op' = [step |-> "columns", name |-> n, left |-> c, row |-> a + 1,
             id |-> next_table_id, first |-> next_page_id, columns |-> {}]
  BY <1>6 DEF CreateTable, Count
<1>8. OpIsLinked'
  BY <1>6, <1>7 DEF OpIsLinked
<1>9. ASSUME ~hole' PROVE MadeAreLinked'
  BY <1>1, <1>5, <1>9 DEF Links, MadeAreLinked
<1> QED BY <1>5, <1>8, <1>9 DEF Links

LEMMA InsertColumnLinks ==
  ASSUME Inv, Inv', Links, InsertColumn
  PROVE  Links'
<1> USE SystemFacts
<1>1. op \in CreateOp /\ Creating
  BY DEF InsertColumn, Inv, Types, DropOp, Idle, Creating
<1>2. next_column_id \in Nat /\ op.id \in Nat /\ op.step = "columns"
  BY <1>1 DEF Inv, Types, CreateOp, InsertColumn
<1>3. PICK row : row = ColumnRow(next_column_id, op.id)
  OBVIOUS
<1>4. row \in Row /\ row.live /\ row.saved
  BY <1>2, <1>3 DEF ColumnRow, Row, NoId
<1>5. InsertTuple("columns", row, 0) /\ made' = made
  BY <1>3 DEF InsertColumn
<1>6. hole' = hole /\ linked' = linked /\ \A T \in Table : FirstLink(T)'
  BY <1>4, <1>5, InsertedRow, LinkInserted DEF Inv, Links
<1>7. ASSUME ~hole' PROVE MadeAreLinked' /\ OpIsLinked'
  <2>1. MadeAreLinked' /\ OpIsLinked /\ Home("columns") = "columns"
    BY <1>5, <1>6, <1>7 DEF Links, MadeAreLinked, Home
  <2>2. PICK b \in Nat : b = Count("columns")
    BY RowFacts DEF Inv
  <2>3. Grown("columns", row)
    BY <1>4, <1>5, <2>1, InsertedRow DEF Inv
  <2>4. Count("columns")' = b + 1 /\ Count("tables")' = Count("tables")
    BY <2>2, <2>3 DEF Grown, Count
  <2>5. op' = [op EXCEPT !.left = op.left - 1, !.columns = op.columns \cup {b + 1}]
    BY <2>1, <2>2 DEF InsertColumn, Count
  <2>6. op'.step = op.step /\ op'.row = op.row /\ op'.columns = op.columns \cup {b + 1}
    BY <1>1, <2>5 DEF CreateOp
  <2>7. op.row \in 1 .. Count("tables") /\ op.columns \subseteq 1 .. b
    BY <1>1, <2>1, <2>2 DEF OpIsLinked
  <2>8. op'.step = "columns" /\ op'.row \in 1 .. Count("tables")'
        /\ op'.columns \subseteq 1 .. Count("columns")'
    BY <1>2, <2>2, <2>4, <2>6, <2>7
  <2> QED BY <2>1, <2>8 DEF OpIsLinked
<1> QED BY <1>6, <1>7 DEF Links

LEMMA FlushTablesLinks ==
  ASSUME Inv, Inv', Links, FlushTables
  PROVE  Links'
<1> USE SystemFacts
<1>1. Kept /\ hole' = hole /\ FlushFirstPage("tables") /\ made' = made
  BY FlushFacts DEF FlushTables, Inv
<1>2. Saved("tables")' /\ \A T \in Table : FirstLink(T)' /\ linked[T] \subseteq linked'[T]
  BY <1>1, LinkFlushed DEF Links
<1>3. ASSUME ~hole' PROVE MadeAreLinked'
  BY <1>1, <1>2, <1>3 DEF Links, MadeAreLinked
<1>4. ASSUME ~hole' PROVE OpIsLinked'
  <2>1. OpIsLinked
    BY <1>1, <1>4 DEF Links
  <2>2. \A T \in Table : Count(T)' = Count(T)
    BY <1>1 DEF Kept, Count
  <2>3. CASE op.step = "dropped"
    <3>1. op = [step |-> "dropped"]
      BY <2>3 DEF Inv, Types, DropOp, CreateOp, Idle
    <3>2. op'.step = "flushDrop"
      BY <2>3, <3>1 DEF FlushTables
    <3> QED BY <3>2 DEF OpIsLinked, Creating
  <2>4. CASE op.step = "columns"
    <3>1. op \in CreateOp /\ Creating
      BY <2>4 DEF Inv, Types, DropOp, Idle, Creating
    <3>2. op' = [op EXCEPT !.step = "flush"]
      BY <2>4 DEF FlushTables
    <3>3. op'.row = op.row /\ op'.columns = op.columns
      BY <3>1, <3>2 DEF CreateOp
    <3> QED BY <1>2, <2>1, <2>2, <3>1, <3>3 DEF OpIsLinked
  <2> QED BY <2>3, <2>4 DEF FlushTables
<1> QED BY <1>1, <1>2, <1>3, <1>4 DEF Links

\* The table that is made has its rows behind links that are saved by now.
LEMMA EndStatementLinks ==
  ASSUME Inv, Inv', Links, EndStatement
  PROVE  Links'
<1> USE SystemFacts
<1>1. Kept /\ hole' = hole /\ FlushFirstPage("columns") /\ op' = Idle
  BY FlushFacts DEF EndStatement, Inv
<1>2. /\ Saved("columns")' /\ \A T \in Table : FirstLink(T)' /\ linked[T] \subseteq linked'[T]
      /\ linked'["tables"] = linked["tables"]
  BY <1>1, LinkFlushed DEF Links
<1>3. PICK made_table : made_table = MadeTable
  OBVIOUS
<1>4. /\ made_table.ref.row = made_table.row
      /\ made_table.row = op.row /\ made_table.ref.columns = op.columns
  BY <1>3 DEF MadeTable
<1>5. made' \in {made, made \cup {made_table}} /\ (op.step # "flush" => made' = made)
  BY <1>3 DEF EndStatement
<1>6. ASSUME ~hole, op.step = "flush"
      PROVE  /\ PageOf(op.row) = 2 => 1 \in linked'["tables"]
             /\ \A j \in op.columns : PageOf(j) = 2 => 1 \in linked'["columns"]
  <2>1. /\ Saved("tables") /\ op.row \in 1 .. Count("tables")
        /\ op.columns \subseteq 1 .. Count("columns")
    BY <1>6 DEF Links, OpIsLinked, Creating
  <2>2. PageCount(heap["tables"]) \in Nat /\ PageOf(op.row) <= PageCount(heap["tables"])
    BY <2>1, RowFacts, PageCounts DEF Inv, Count
  <2>3. PageOf(op.row) = 2 => 1 \in linked'["tables"]
    BY <1>2, <2>1, <2>2 DEF Saved
  <2>4. ASSUME NEW j \in op.columns, PageOf(j) = 2 PROVE 1 \in linked'["columns"]
    <3>1. heap'["columns"] \in Seq(Row) /\ j \in 1 .. Len(heap'["columns"])
      BY <1>1, <2>1 DEF Kept, Count
    <3>2. PageCount(heap'["columns"]) \in Nat /\ PageOf(j) <= PageCount(heap'["columns"])
      BY <3>1, PageCounts
    <3> QED BY <1>2, <2>4, <3>2 DEF Saved
  <2> QED BY <2>3, <2>4
<1>7. ASSUME ~hole' PROVE MadeAreLinked'
  <2>1. MadeAreLinked
    BY <1>1, <1>7 DEF Links
  <2>2. ASSUME NEW t \in made
        PROVE  /\ t.ref.row = t.row
               /\ PageOf(t.row) = 2 => 1 \in linked'["tables"]
               /\ \A j \in t.ref.columns : PageOf(j) = 2 => 1 \in linked'["columns"]
    BY <1>2, <2>1 DEF MadeAreLinked
  <2>3. ASSUME op.step = "flush"
        PROVE  /\ PageOf(made_table.row) = 2 => 1 \in linked'["tables"]
               /\ \A j \in made_table.ref.columns : PageOf(j) = 2 => 1 \in linked'["columns"]
    BY <1>1, <1>4, <1>6, <1>7, <2>3
  <2> QED BY <1>4, <1>5, <2>2, <2>3 DEF MadeAreLinked
<1> QED BY <1>1, <1>2, <1>7 DEF Links, OpIsLinked, Creating, Idle

LEMMA EvictLinks ==
  ASSUME Inv, Inv', Links, NEW T \in Table, NEW k \in 1 .. MaxRows, Evict(T, k)
  PROVE  Links'
<1> USE SystemFacts
<1>1. Kept /\ hole' = hole /\ made' = made /\ op' = Idle
  BY EvictedPage DEF Evict, Ready
<1>2. \A U \in Table : PageCount(heap'[U]) = PageCount(heap[U])
  <2>1. \A U \in Table : Count(U)' = Count(U)
    BY <1>1 DEF Kept, Count
  <2> QED BY <2>1, SameCounts DEF Inv
<1>3. PICK c \in Nat : c = PageCount(heap[T])
  BY RowFacts, PageCounts DEF Inv
<1>4. k \in 1 .. c
  BY <1>3 DEF Evict
<1>5. /\ \A U \in Table \ {T} : linked'[U] = linked[U] /\ dirty'[U] = dirty[U]
      /\ \/ linked'[T] = linked[T] \cup ({k} \ {c}) /\ dirty'[T] = dirty[T]
         \/ linked'[T] = linked[T] /\ dirty'[T] = dirty[T] \cup {k}
  BY <1>3 DEF Evict, Inv, Types
<1>6. FirstLink(T) /\ \A U \in Table : FirstLink(U)
  BY DEF Links
<1>7. FirstLink(T)'
  <2>1. k = 1 /\ k # c => c > 1
    BY <1>4
  <2> QED BY <1>2, <1>3, <1>5, <1>6, <2>1 DEF FirstLink
<1>8. \A U \in Table \ {T} : FirstLink(U)'
  BY <1>2, <1>5, <1>6 DEF FirstLink
<1>9. \A U \in Table : 1 \in linked[U] => 1 \in linked'[U]
  BY <1>5
<1> QED BY <1>1, <1>7, <1>8, <1>9, MoreLinks DEF Creating, Idle

LEMMA DropTableLinks ==
  ASSUME Inv, Inv', Links, NEW n \in Droppable, DropTable(n)
  PROVE  Links'
<1>1. UNCHANGED <<dirty, linked, hole>> /\ op' = [step |-> "dropped"] /\ made' \subseteq made
  BY DEF DropTable
<1>2. PICK r, cs : heap' = [T \in Table |-> Delete(T, IF T = "tables" THEN {r} ELSE cs)]
  BY DEF DropTable
<1>3. \A T \in Table : Count(T)' = Count(T)
  <2>1. \A T \in Table : \A is : Len(Delete(T, is)) = Count(T)
    BY DeletedRows DEF Inv
  <2> QED BY <1>2, <2>1 DEF Count
<1>4. \A T \in Table : PageCount(heap'[T]) = PageCount(heap[T])
  BY <1>3, SameCounts DEF Inv
<1>5. \A T \in Table : FirstLink(T)'
  BY <1>1, <1>4 DEF Links, FirstLink
<1> QED BY <1>1, <1>5, MoreLinks DEF Creating

\* A walk passes the first page, and the second if there is a link to it.
LEMMA WalkedRows ==
  ASSUME Types, NEW T \in Table, NEW links, NEW i \in 1 .. Count(T),
         PageOf(i) = 1 \/ (PageOf(i) <= 2 /\ 1 \in links)
  PROVE  i <= Cardinality(Reachable(T, links))
<1>1. PICK R : R = Reachable(T, links)
  OBVIOUS
<1>2. PICK c \in Nat : c = Count(T) /\ DOMAIN heap[T] = 1 .. c
  BY RowFacts
<1>3. /\ R \subseteq 1 .. c
      /\ \A j \in 1 .. c : j \in R <=> 1 .. PageOf(j) - 1 \subseteq links
  BY <1>1, <1>2 DEF Reachable
<1>4. IsFiniteSet(R) /\ Cardinality(R) \in Nat
  <2>1. IsFiniteSet(1 .. c)
    BY FS_Interval
  <2>2. IsFiniteSet(R)
    BY <1>3, <2>1, FS_Subset
  <2> QED BY <2>2, FS_CardinalityType
<1>5. ASSUME NEW j \in 1 .. i PROVE j \in R
  <2>1. j \in 1 .. c /\ i \in Nat \ {0} /\ j \in Nat \ {0} /\ j <= i
    BY <1>2
  <2>2. PageOf(j) \in Nat \ {0} /\ PageOf(i) \in Nat \ {0} /\ PageOf(j) <= PageOf(i)
    BY <2>1, PageFacts, PagesAscend
  <2>3. \A x \in 1 .. PageOf(j) - 1 : x = 1 /\ 1 \in links
    BY <2>2
  <2> QED BY <1>3, <2>1, <2>3
<1>6. 1 .. i \subseteq R
  BY <1>5
<1>7. Cardinality(1 .. i) = i
  BY FS_Interval
<1> QED BY <1>1, <1>4, <1>6, <1>7, FS_Subset

\* A link that is in the file is walked, and the row it leads to stays.
LEMMA DownLinks ==
  ASSUME Inv, Inv', Links, NEW ks, Down(ks)
  PROVE  Links'
<1>1. UNCHANGED <<hole, made>> /\ op' = Idle
  BY DEF Down
<1>2. \A T \in Table : dirty'[T] = 1 .. PageCount(heap'[T])
  BY DEF Down
<1>3. ASSUME NEW T \in Table
      PROVE  FirstLink(T)' /\ (1 \in linked[T] => 1 \in linked'[T])
  <2>1. PICK links : /\ linked[T] \subseteq links
                     /\ Count(T)' = Cardinality(Reachable(T, links))
                     /\ linked'[T] = {k \in links : k < PageCount(heap'[T])}
    BY DownFacts
  <2>2. heap'[T] \in Seq(Row) /\ PageCount(heap'[T]) \in Nat
    BY PageCounts DEF Inv, Types
  <2>3. FirstLink(T)'
    BY <1>2, <2>1, <2>2 DEF FirstLink
  <2>4. ASSUME 1 \in linked[T] PROVE 1 < PageCount(heap'[T])
    <3>1. PageCount(heap[T]) > 1 /\ heap[T] \in Seq(Row)
      BY <2>4, RowFacts DEF Links, FirstLink, Inv
    <3>2. PICK c \in Nat : c = Count(T)
      BY RowFacts DEF Inv
    <3>3. c > 0 /\ PageOf(c) > 1
      BY <3>1, <3>2, PageCounts DEF Count
    <3>4. PICK i \in 1 .. c : PageOf(i) = 2
      <4>1. c \in Nat \ {0} /\ PageOf(c) \in Nat \ {0} /\ 2 \in 1 .. PageOf(c)
        BY <3>3, PageFacts
      <4> QED BY <4>1, PageFacts
    <3>5. i <= Cardinality(Reachable(T, links))
      BY <2>1, <2>4, <3>2, <3>4, WalkedRows DEF Inv
    <3>6. i \in 1 .. Len(heap'[T])
      <4>1. Len(heap'[T]) \in Nat
        BY <2>2, LenProperties
      <4> QED BY <2>1, <3>5, <4>1 DEF Count
    <3> QED BY <2>2, <3>4, <3>6, PageCounts
  <2> QED BY <2>1, <2>3, <2>4
<1> QED BY <1>1, <1>3, MoreLinks DEF Creating, Idle

LEMMA NextLinks ==
  ASSUME Inv, Links, Inv', [Next]_vars
  PROVE  Links'
<1>1. CASE UNCHANGED vars
  <2> USE <1>1 DEF vars, disk_vars
  <2>1. \A T \in Table : FirstLink(T)'
    BY DEF Links, FirstLink
  <2>2. MadeAreLinked => MadeAreLinked'
    BY DEF MadeAreLinked
  <2>3. OpIsLinked => OpIsLinked'
    BY DEF OpIsLinked, Saved, Creating, Count
  <2> QED BY <2>1, <2>2, <2>3 DEF Links
<1>2. ASSUME NEW n \in Name, NEW c \in ColumnCount, CreateTable(n, c) PROVE Links'
  BY <1>2, CreateTableLinks
<1>3. ASSUME NEW n \in Droppable, DropTable(n) PROVE Links'
  BY <1>3, DropTableLinks
<1>4. ASSUME NEW T \in Table, NEW k \in 1 .. MaxRows, Evict(T, k) PROVE Links'
  BY <1>4, EvictLinks
<1>5. CASE Close
  BY <1>5, DownLinks DEF Close
<1>6. CASE Crash
  BY <1>6, DownLinks DEF Crash
<1>7. CASE EndBoot
  <2>1. UNCHANGED <<heap, linked, dirty, made, hole>> /\ op' = Idle
    BY <1>7 DEF EndBoot, disk_vars, Inv, Structure
  <2> QED BY <2>1, SameLinks
<1>8. CASE Open
  <2>1. UNCHANGED <<heap, linked, dirty, made>> /\ op' = Idle
    BY <1>8 DEF Open, Inv, Structure
  <2> QED BY <1>8, <2>1, SameLinks, OpenKeepsHole
<1>9. CASE Next
  BY <1>2, <1>3, <1>4, <1>5, <1>6, <1>7, <1>8, <1>9, BootTablesLinks, BootColumnsLinks,
     InsertColumnLinks, FlushTablesLinks, EndStatementLinks DEF Next
<1> QED BY <1>1, <1>9

-----------------------------------------------------------------------------
(* Closes and crashes.                                                     *)

\* What an iterator emits after rows are lost at the end of a heap.
LEMMA SightStays ==
  ASSUME Inv, Inv', NEW T \in Table, Count(T)' \in 0 .. Count(T),
         \A i \in 1 .. Count(T)' : heap'[T][i].live = heap[T][i].live
  PROVE  Visible(T)' = {i \in Visible(T) : i <= Count(T)'}
<1>1. PICK a \in Nat, b \in Nat : a = Count(T) /\ b = Count(T)' /\ b <= a
  BY RowFacts DEF Inv
<1>2. DOMAIN heap[T] = 1 .. a /\ DOMAIN heap'[T] = 1 .. b
  BY <1>1, LenProperties DEF Inv, Types, Count
<1>3. PICK L : L = {i \in 1 .. a : heap[T][i].live}
  OBVIOUS
<1>4. PICK M : M = {i \in 1 .. b : heap'[T][i].live}
  OBVIOUS
<1>5. Visible(T) = {i \in L : \A k \in 1 .. PageOf(i) : \E j \in L : PageOf(j) = k}
  BY <1>2, <1>3 DEF Visible
<1>6. Visible(T)' = {i \in M : \A k \in 1 .. PageOf(i) : \E j \in M : PageOf(j) = k}
  BY <1>2, <1>4 DEF Visible
<1>7. M = {i \in L : i <= b} /\ L \subseteq Nat \ {0}
  <2>1. \A i \in 1 .. b : i \in 1 .. a /\ heap'[T][i].live = heap[T][i].live
    BY <1>1
  <2>2. \A i \in 1 .. a : i <= b => i \in 1 .. b
    BY <1>1
  <2>3. \A i \in 1 .. b : i <= b
    OBVIOUS
  <2> QED BY <1>3, <1>4, <2>1, <2>2, <2>3
<1>8. ASSUME NEW i \in M, NEW k \in 1 .. PageOf(i), NEW j \in L, PageOf(j) = k
      PROVE  \E m \in M : PageOf(m) = k
  <2>1. i \in Nat \ {0} /\ j \in Nat \ {0} /\ i <= b
    BY <1>7
  <2>2. PageOf(i) \in Nat \ {0} /\ PageOf(j) \in Nat \ {0}
    BY <2>1, PageFacts
  <2>3. CASE PageOf(j) = PageOf(i)
    BY <1>8, <2>3
  <2>4. CASE PageOf(j) # PageOf(i)
    <3>1. ~ (i <= j)
      BY <1>8, <2>1, <2>2, <2>4, PagesAscend
    <3>2. j <= b
      BY <1>1, <2>1, <3>1
    <3> QED BY <1>7, <1>8, <3>2
  <2> QED BY <2>3, <2>4
<1> QED BY <1>1, <1>5, <1>6, <1>7, <1>8

\* The first row with a name stays that when rows behind it are lost, and the
\* table has its columns if none of them is.
LEMMA LookupStays ==
  ASSUME Inv, Inv', NEW t, Found(t),
         \A T \in Table :
           /\ Count(T)' \in 0 .. Count(T)
           /\ \A i \in 1 .. Count(T)' : Same(heap[T][i], heap'[T][i])
           /\ Visible(T)' = {i \in Visible(T) : i <= Count(T)'},
         t.ref.row <= Count("tables")',
         \A j \in t.ref.columns : j <= Count("columns")'
  PROVE  Found(t)'
<1> USE SystemFacts
<1>1. PICK a, a1 : /\ a = Count("tables") /\ a1 = Count("tables")'
                   /\ a \in Nat /\ a1 \in 0 .. a
  BY RowFacts DEF Inv
<1>2. PICK b, b1 : /\ b = Count("columns") /\ b1 = Count("columns")'
                   /\ b \in Nat /\ b1 \in 0 .. b
  BY RowFacts DEF Inv
<1>3. PICK n : n = t.name
  OBVIOUS
<1>4. PICK S : S = RowsNamed(n)
  OBVIOUS
<1>5. PICK S1 : S1 = RowsNamed(n)'
  OBVIOUS
<1>6. Visible("tables") \subseteq 1 .. a /\ Visible("columns") \subseteq 1 .. b
  BY <1>1, <1>2, RowFacts DEF Visible, Inv
<1>7. S1 = {i \in S : i <= a1} /\ S \subseteq 1 .. a
  <2>1. PICK V : V = Visible("tables")
    OBVIOUS
  <2>2. S = {i \in V : heap["tables"][i].name = n}
    BY <1>4, <2>1 DEF RowsNamed
  <2>3. S1 = {i \in {j \in V : j <= a1} : heap'["tables"][i].name = n}
    BY <1>1, <1>5, <2>1 DEF RowsNamed
  <2>4. \A i \in V : i <= a1 => heap'["tables"][i].name = heap["tables"][i].name
    BY <1>1, <1>6, <2>1 DEF Same
  <2> QED BY <1>6, <2>1, <2>2, <2>3, <2>4
<1>8. PICK r : r = FirstOf(S)
  OBVIOUS
<1>9. GetTableRef(n) = t.ref /\ Exists(n)
  BY <1>3 DEF Found
<1>10. PICK id : id = heap["tables"][r].id
  OBVIOUS
<1>11. /\ t.ref.row = r /\ t.ref.columns = ColumnsOf(id)
       /\ t.ref = [row |-> r, id |-> id, first |-> heap["tables"][r].first,
                   columns |-> ColumnsOf(id)]
  BY <1>4, <1>8, <1>9, <1>10 DEF GetTableRef
<1>12. r \in S /\ \A i \in S : r <= i
  BY <1>4, <1>8, <1>9, FirstRow DEF Inv
<1>13. r \in S1 /\ r \in 1 .. a1
  <2>1. r <= a1 /\ r \in 1 .. a
    BY <1>1, <1>7, <1>11, <1>12
  <2> QED BY <1>1, <1>7, <1>12, <2>1
<1>14. FirstOf(S1) = r
  <2>1. ASSUME NEW i \in S1 PROVE i \in Nat /\ r <= i
    <3>1. i \in S
      BY <1>7
    <3>2. i \in 1 .. a /\ a \in Nat
      BY <1>1, <1>7, <3>1
    <3>3. r <= i
      BY <1>12, <3>1
    <3> QED BY <3>2, <3>3
  <2>2. ASSUME NEW x \in S1, \A i \in S1 : x <= i PROVE x = r
    <3>1. x \in Nat /\ r \in Nat /\ r <= x
      BY <1>13, <2>1
    <3>2. x <= r
      BY <1>13, <2>2
    <3> QED BY ONLY <3>1, <3>2
  <2> QED BY <1>13, <2>1, <2>2 DEF FirstOf
<1>15. heap'["tables"][r].id = id /\ heap'["tables"][r].first = heap["tables"][r].first
  BY <1>1, <1>10, <1>13 DEF Same
<1>16. ColumnsOf(id)' = ColumnsOf(id)
  <2>1. PICK V : V = Visible("columns")
    OBVIOUS
  <2>2. ColumnsOf(id) = {j \in V : heap["columns"][j].table = id}
    BY <2>1 DEF ColumnsOf
  <2>3. ColumnsOf(id)' = {j \in {i \in V : i <= b1} : heap'["columns"][j].table = id}
    BY <1>2, <2>1 DEF ColumnsOf
  <2>4. \A j \in V : j <= b1 => heap'["columns"][j].table = heap["columns"][j].table
    BY <1>2, <1>6, <2>1 DEF Same
  <2>5. \A j \in ColumnsOf(id) : j <= b1
    BY <1>2, <1>11
  <2> QED BY <2>2, <2>3, <2>4, <2>5
<1>17. GetTableRef(n)' = [row |-> r, id |-> id, first |-> heap["tables"][r].first,
                          columns |-> ColumnsOf(id)]
  BY <1>5, <1>14, <1>15, <1>16 DEF GetTableRef
<1>18. Exists(n)' /\ GetTableRef(n)' = t.ref
  BY <1>5, <1>11, <1>13, <1>17 DEF Exists
<1> QED BY <1>3, <1>18 DEF Found

\* What a close or a crash does to the tables a lookup finds.
LEMMA DownKeepsTables ==
  ASSUME Inv, Inv', Links, ~hole, NEW ks, Down(ks), NothingRevives,
         NEW t \in made, Found(t), Early(t) \/ NothingCut
  PROVE  Found(t)'
<1> USE SystemFacts
<1>1. /\ \A T \in Table :
           /\ Count(T)' \in 0 .. Count(T)
           /\ \A i \in 1 .. Count(T)' : Same(heap[T][i], heap'[T][i])
      /\ \A T \in Table : \E links :
           linked[T] \subseteq links /\ Count(T)' = Cardinality(Reachable(T, links))
  BY DownFacts
<1>2. \A T \in Table : Visible(T)' = {i \in Visible(T) : i <= Count(T)'}
  <2>1. \A T \in Table : DOMAIN heap'[T] = 1 .. Count(T)'
    BY LenProperties DEF Inv, Types, Count
  <2>2. \A T \in Table : \A i \in 1 .. Count(T)' : heap'[T][i].live = heap[T][i].live
    BY <2>1 DEF NothingRevives
  <2> QED BY <1>1, <2>2, SightStays
<1>3. /\ t.row = t.ref.row
      /\ PageOf(t.row) = 2 => 1 \in linked["tables"]
      /\ \A j \in t.ref.columns : PageOf(j) = 2 => 1 \in linked["columns"]
  BY DEF Links, MadeAreLinked
<1>4. /\ t.ref.row \in 1 .. Count("tables")
      /\ t.ref.columns \subseteq 1 .. Count("columns")
  <2>1. PICK r : r = FirstOf(RowsNamed(t.name))
    OBVIOUS
  <2>2. t.ref.row = r /\ t.ref.columns = ColumnsOf(heap["tables"][r].id)
    BY <2>1 DEF Found, GetTableRef
  <2>3. r \in 1 .. Count("tables")
    BY <2>1, FirstRow DEF Found, Inv
  <2>4. Visible("columns") \subseteq 1 .. Count("columns")
    BY RowFacts DEF Visible, Inv
  <2> QED BY <2>2, <2>3, <2>4 DEF ColumnsOf
<1>5. ASSUME NEW T \in Table, NEW i \in 1 .. Count(T),
             (PageOf(i) <= 2 /\ (PageOf(i) = 2 => 1 \in linked[T])) \/ NothingCut
      PROVE  i <= Count(T)'
  <2>1. CASE NothingCut
    <3>1. Count(T)' = Count(T) /\ Count(T) \in Nat
      BY <2>1, RowFacts DEF Inv, NothingCut, Count
    <3> QED BY <3>1
  <2>2. CASE PageOf(i) <= 2 /\ (PageOf(i) = 2 => 1 \in linked[T])
    <3>1. PICK links : linked[T] \subseteq links /\ Count(T)' = Cardinality(Reachable(T, links))
      BY <1>1
    <3>2. i \in Nat \ {0} /\ PageOf(i) \in Nat \ {0}
      <4>1. i \in Nat \ {0}
        BY RowFacts DEF Inv
      <4> QED BY <4>1, PageFacts
    <3>3. PageOf(i) = 1 \/ (PageOf(i) <= 2 /\ 1 \in links)
      BY <2>2, <3>1, <3>2
    <3>4. i <= Cardinality(Reachable(T, links))
      BY <3>3, WalkedRows DEF Inv
    <3> QED BY <3>1, <3>4
  <2> QED BY <1>5, <2>1, <2>2
<1>6. t.ref.row <= Count("tables")'
  BY <1>3, <1>4, <1>5 DEF Early
<1>7. \A j \in t.ref.columns : j <= Count("columns")'
  BY <1>3, <1>4, <1>5 DEF Early
<1> QED BY <1>1, <1>2, <1>6, <1>7, LookupStays

\* The step RestartKeepsTables is about is a close or a crash.
LEMMA DownIsDown ==
  ASSUME mode = "open", mode' = "down", [Next]_vars
  PROVE  \E ks : Down(ks)
<1>1. CASE UNCHANGED vars
  BY <1>1 DEF vars
<1>2. CASE Next
  <2>1. Close \/ Crash
    BY <1>2 DEF Next, BootTables, BootColumns, EndBoot, CreateTable, InsertColumn,
       FlushTables, EndStatement, DropTable, Evict, Open
  <2> QED BY <2>1 DEF Close, Crash
<1> QED BY <1>1, <1>2

KeepsTables ==
  mode = "open" /\ mode' = "down" /\ ~hole /\ NothingRevives =>
    \A t \in made : Found(t) /\ (Early(t) \/ NothingCut) => Found(t)'

LEMMA NextKeepsTables ==
  ASSUME Inv, Inv', Links, [Next]_vars
  PROVE  KeepsTables
<1> SUFFICES ASSUME mode = "open", mode' = "down", ~hole, NothingRevives,
                    NEW t \in made, Found(t), Early(t) \/ NothingCut
             PROVE  Found(t)'
  BY DEF KeepsTables
<1>1. PICK ks : Down(ks)
  BY DownIsDown
<1> QED BY <1>1, DownKeepsTables

\* CREATE TABLE flushes the link from the first page of both system tables: a
\* close or a crash that forgets no deletion, and that comes while page 1 is
\* not lost, leaves every made table that a lookup found to be found again, if
\* its rows are on the first two pages or if the close or crash cuts no page
\* off.  Tables may have been dropped, and earlier restarts may have cut pages
\* off and brought rows back.
THEOREM TablesOutliveRestarts == Spec => RestartKeepsTables
<1>1. ASSUME Inv, Links, Inv', [Next]_vars PROVE Links'
  BY <1>1, NextLinks
<1>2. Spec => []Inv /\ []Links
  BY <1>1, InitLinks, InvHolds, PTL DEF Spec
<1>3. ASSUME Inv, Inv', Links, [Next]_vars
      PROVE  KeepsTables
  BY <1>3, NextKeepsTables
<1>4. RestartKeepsTables <=> [][KeepsTables]_vars
  BY DEF RestartKeepsTables, KeepsTables
<1> QED BY <1>2, <1>3, <1>4, PTL DEF Spec
=============================================================================
