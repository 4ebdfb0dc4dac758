---------------------------- MODULE QueryProofs ----------------------------
(***************************************************************************)
(* For every set of statements, of any number of rows and columns, and a   *)
(* heap that refuses and throws at any row: a bulk INSERT leaves the first *)
(* of its rows and nothing else, and all of them if it says so; what is    *)
(* read from the bytes of a row is what was put into them; CREATE TABLE's  *)
(* answer tells of the last column; and SELECT and SHOW TABLES answer with *)
(* the rows that were inserted.                                            *)
(***************************************************************************)
EXTENDS Query, SequenceTheorems, WellFoundedInduction, TLAPS

\* Sequences and tables, of whatever values.
IsTable(t) ==
  /\ t = [name |-> t.name, columns |-> t.columns, rows |-> t.rows, given |-> t.given]
  /\ IsSeq(t.given)
Tables(ts) == IsSeq(ts) /\ \A i \in DOMAIN ts : IsTable(ts[i])

\* The first k rows of the statement are there, behind those of before.
Gave(k) ==
  /\ DOMAIN tables = DOMAIN before
  /\ tables[TableRef].given = before[TableRef].given \o SubSeq(query.sets, 1, k)

\* What a bulk INSERT did when it is at a stage.
Bulk ==
  /\ stage # "close"
  /\ stage \in {"bind", "open"} => tables = before
  /\ stage = "next" => cursor \in 1 .. Len(query.sets) + 1 /\ Gave(cursor - 1)
  /\ stage = "idle" => tables = before \/ \E k \in 0 .. Len(query.sets) : Gave(k)

\* What the binder found is still there.
TableIsThere ==
  query.kind \in {"insert", "bulk", "drop"} /\ stage \in {"open", "next"} => Exists

Inv ==
  /\ Tables(tables) /\ Tables(before)
  /\ query \in Queries \cup {NoQuery}
  /\ TableIsThere
  /\ query.kind = "bulk" => Bulk

-----------------------------------------------------------------------------
(* Sequences.                                                              *)

LEMMA SeqIsSeq ==
  ASSUME NEW S, NEW s \in Seq(S)
  PROVE  IsSeq(s)
<1>1. DOMAIN s = 1 .. Len(s) /\ Len(s) \in Nat /\ s \in [1 .. Len(s) -> S]
  BY LenProperties
<1>2. s \in [1 .. Len(s) -> ToSet(s)]
  BY <1>1 DEF ToSet
<1> QED BY <1>1, <1>2 DEF IsSeq

LEMMA SeqFacts ==
  ASSUME NEW s, IsSeq(s)
  PROVE  /\ Len(s) \in Nat /\ DOMAIN s = 1 .. Len(s)
         /\ SubSeq(s, 1, Len(s)) = s
         /\ s \o <<>> = s
  BY LenProperties, SubSeqFull, ConcatEmptySeq DEF IsSeq

LEMMA AppendIsSeq ==
  ASSUME NEW s, IsSeq(s), NEW e
  PROVE  /\ IsSeq(Append(s, e)) /\ Len(Append(s, e)) = Len(s) + 1
         /\ \A i \in 1 .. Len(s) : Append(s, e)[i] = s[i]
         /\ Append(s, e)[Len(s) + 1] = e
         /\ Append(s, e) = s \o <<e>>
<1> DEFINE S == ToSet(s) \cup {e}
<1>1. s \in Seq(S) /\ e \in S
  BY SeqMonotonic DEF IsSeq
<1>2. Append(s, e) \in Seq(S)
  BY <1>1, AppendProperties
<1>3. IsSeq(Append(s, e))
  BY <1>2, SeqIsSeq
<1> QED BY <1>1, <1>3, AppendProperties, AppendIsConcat

\* The same of a sequence l that is s with e behind it, as one fact to cite.
LongerBy(s, e, l) ==
  /\ IsSeq(l) /\ Len(l) = Len(s) + 1
  /\ \A i \in 1 .. Len(s) : l[i] = s[i]
  /\ l[Len(s) + 1] = e

LEMMA AppendGrows ==
  ASSUME NEW s, IsSeq(s), NEW e
  PROVE  LongerBy(s, e, Append(s, e))
<1>1. PICK a : a = Append(s, e)
  OBVIOUS
<1>2. IsSeq(Append(s, e)) /\ Len(Append(s, e)) = Len(s) + 1
  BY AppendIsSeq
<1>3. \A i \in 1 .. Len(s) : Append(s, e)[i] = s[i]
  BY AppendIsSeq
<1>4. Append(s, e)[Len(s) + 1] = e
  BY AppendIsSeq
<1>5. LongerBy(s, e, a)
  BY <1>1, <1>2, <1>3, <1>4 DEF LongerBy
<1> QED BY <1>1, <1>5

\* A table behind the last, another one in the place of the i-th, one less.
LEMMA AppendTable ==
  ASSUME NEW ts, Tables(ts), NEW t, IsTable(t)
  PROVE  Tables(Append(ts, t))
<1>1. IsSeq(ts) /\ Len(ts) \in Nat /\ DOMAIN ts = 1 .. Len(ts)
  BY SeqFacts DEF Tables
<1>2. /\ IsSeq(Append(ts, t)) /\ Len(Append(ts, t)) = Len(ts) + 1
      /\ \A i \in 1 .. Len(ts) : Append(ts, t)[i] = ts[i]
      /\ Append(ts, t)[Len(ts) + 1] = t
  <2>1. LongerBy(ts, t, Append(ts, t))
    BY <1>1, AppendGrows
  <2> QED BY <2>1 DEF LongerBy
<1>3. DOMAIN Append(ts, t) = 1 .. Len(ts) + 1
  BY <1>2, SeqFacts
<1>4. \A i \in 1 .. Len(ts) + 1 : i \in 1 .. Len(ts) \/ i = Len(ts) + 1
  BY <1>1
<1> QED BY <1>1, <1>2, <1>3, <1>4 DEF Tables

LEMMA ReplaceTable ==
  ASSUME NEW ts, Tables(ts), NEW i \in DOMAIN ts, NEW t, IsTable(t)
  PROVE  /\ Tables([ts EXCEPT ![i] = t])
         /\ DOMAIN [ts EXCEPT ![i] = t] = DOMAIN ts
<1> DEFINE S == ToSet(ts) \cup {t}
<1>1. ts \in Seq(S) /\ t \in S /\ i \in 1 .. Len(ts)
  BY SeqMonotonic, SeqFacts DEF IsSeq, Tables
<1>2. [ts EXCEPT ![i] = t] \in Seq(S)
  BY <1>1, ExceptSeq
<1>3. IsSeq([ts EXCEPT ![i] = t])
  BY <1>2, SeqIsSeq
<1>4. \A j \in DOMAIN ts : [ts EXCEPT ![i] = t][j] = IF j = i THEN t ELSE ts[j]
  BY <1>1
<1> QED BY <1>3, <1>4 DEF Tables

LEMMA RemoveTable ==
  ASSUME NEW ts, Tables(ts), NEW i \in DOMAIN ts
  PROVE  Tables(RemoveAt(ts, i))
<1> DEFINE S == ToSet(ts)
           T == {t \in S : IsTable(t)}
<1>1. ts \in Seq(S) /\ Len(ts) \in Nat /\ DOMAIN ts = 1 .. Len(ts) /\ i \in 1 .. Len(ts)
  BY SeqFacts DEF IsSeq, Tables
<1>2. \A j \in 1 .. Len(ts) : ts[j] \in T
  BY <1>1 DEF Tables, ToSet
<1>3. SubSeq(ts, 1, i - 1) \in Seq(T)
  BY <1>1, <1>2, SubSeqProperties
<1>4. SubSeq(ts, i + 1, Len(ts)) \in Seq(T)
  BY <1>1, <1>2, SubSeqProperties
<1>5. RemoveAt(ts, i) \in Seq(T)
  BY <1>3, <1>4, ConcatProperties DEF RemoveAt
<1>6. IsSeq(RemoveAt(ts, i))
  BY <1>5, SeqIsSeq
<1>7. \A j \in DOMAIN RemoveAt(ts, i) : RemoveAt(ts, i)[j] \in T
  BY <1>5, LenProperties
<1> QED BY <1>6, <1>7 DEF Tables

\* The empty prefix, and a prefix grown by its next element.
LEMMA PrefixGrows ==
  ASSUME NEW s, IsSeq(s), NEW k \in 1 .. Len(s)
  PROVE  SubSeq(s, 1, k) = SubSeq(s, 1, k - 1) \o <<s[k]>>
  BY SubSeqRecursiveSecond, SeqFacts DEF IsSeq

-----------------------------------------------------------------------------
(* The tables.                                                             *)

LEMMA LeastNumber ==
  ASSUME NEW T \in SUBSET Nat, T # {}
  PROVE  \E x \in T : \A y \in T : x <= y
<1> DEFINE R == OpToRel(<, Nat)
<1>1. PICK x \in T : \A y \in T : ~ (<<y, x>> \in R)
  BY NatLessThanWellFounded, WFMin
<1>2. \A y \in T : <<y, x>> \in R <=> y < x
  BY DEF OpToRel
<1>3. \A y \in T : ~ (y < x)
  BY <1>1, <1>2
<1> QED BY <1>3

LEMMA Ref ==
  ASSUME Tables(tables), Exists
  PROVE  TableRef \in DOMAIN tables /\ tables[TableRef].name = query.table
<1>1. Named(query.table) \in SUBSET Nat /\ Named(query.table) # {}
  BY SeqFacts DEF Named, Exists, Tables
<1>2. PICK i \in Named(query.table) : \A j \in Named(query.table) : i <= j
  BY <1>1, LeastNumber
<1>3. TableRef \in Named(query.table)
  BY <1>2 DEF TableRef
<1> QED BY <1>3 DEF Named

\* A table's record with other rows.
LEMMA GivenField ==
  ASSUME NEW n, NEW c, NEW r, NEW g, NEW w, NEW e,
         w = [name |-> n, columns |-> c, rows |-> r, given |-> g]
  PROVE  [w EXCEPT !.given = e] = [name |-> n, columns |-> c, rows |-> r, given |-> e]
  OBVIOUS

LEMMA GrownTable ==
  ASSUME NEW t, IsTable(t), NEW r, NEW g
  PROVE  [t EXCEPT !.rows = r, !.given = g]
           = [name |-> t.name, columns |-> t.columns, rows |-> r, given |-> g]
<1>1. PICK w : w = [t EXCEPT !.rows = r]
  OBVIOUS
<1>2. PICK n, c, k : n = t.name /\ c = t.columns /\ k = t.given
  OBVIOUS
<1>3. t = [name |-> n, columns |-> c, rows |-> t.rows, given |-> k]
  BY <1>2 DEF IsTable
<1>4. w = [name |-> n, columns |-> c, rows |-> r, given |-> k]
  BY <1>1, <1>3
<1>5. [w EXCEPT !.given = g] = [name |-> n, columns |-> c, rows |-> r, given |-> g]
  BY <1>4, GivenField
<1>6. [t EXCEPT !.rows = r, !.given = g] = [w EXCEPT !.given = g]
  BY <1>1
<1> QED BY <1>2, <1>5, <1>6

LEMMA InsertedTable ==
  ASSUME Tables(tables), Exists, NEW vs, InsertTuple(vs)
  PROVE  /\ Tables(tables')
         /\ DOMAIN tables' = DOMAIN tables
         /\ TableRef' = TableRef \/ query' # query
         /\ query' = query => Exists'
         /\ tables'[TableRef].given = Append(tables[TableRef].given, vs)
<1> DEFINE t == tables[TableRef]
           u == [name |-> t.name, columns |-> t.columns,
                 rows |-> Append(t.rows, FromLiterals(vs, Columns)),
                 given |-> Append(t.given, vs)]
<1>1. TableRef \in DOMAIN tables /\ IsTable(t)
  BY Ref DEF Tables
<1>2. tables' = [tables EXCEPT ![TableRef] = u]
  <2>1. PICK r : r = Append(t.rows, FromLiterals(vs, Columns))
    OBVIOUS
  <2>2. PICK g : g = Append(t.given, vs)
    OBVIOUS
  <2>3. [t EXCEPT !.rows = r, !.given = g] = u
    BY <1>1, <2>1, <2>2, GrownTable
  <2>4. tables' = [tables EXCEPT ![TableRef] = [t EXCEPT !.rows = r, !.given = g]]
    BY <2>1, <2>2, Zenon DEF InsertTuple
  <2> QED BY <2>3, <2>4
<1>3. IsTable(u)
  BY <1>1, AppendIsSeq DEF IsTable
<1>4. /\ Tables(tables') /\ DOMAIN tables' = DOMAIN tables
      /\ tables'[TableRef] = u
      /\ \A i \in DOMAIN tables : tables'[i].name = tables[i].name
  BY <1>1, <1>2, <1>3, ReplaceTable
<1>5. ASSUME query' = query PROVE Named(query.table)' = Named(query.table)
  BY <1>4, <1>5 DEF Named
<1>6. ASSUME query' = query PROVE TableRef' = TableRef /\ Exists'
  BY <1>5, <1>6 DEF TableRef, Exists
<1> QED BY <1>4, <1>6

\* What a statement that is not a bulk INSERT may do to the tables.
LEMMA StoredTable ==
  ASSUME Tables(tables), NEW named, NEW stored, StoreTable(named, stored)
  PROVE  Tables(tables')
<1> DEFINE t == [name |-> query.table, rows |-> <<>>, given |-> <<>>,
                 columns |-> StoredColumns(stored)]
<1>1. IsTable(t)
  <2>1. IsSeq(<<>>)
    BY EmptySeq, SeqIsSeq
  <2> QED BY <2>1 DEF IsTable
<1>2. Tables(Append(tables, t))
  BY <1>1, AppendTable
<1> QED BY <1>2 DEF StoreTable

-----------------------------------------------------------------------------
(* Steps.                                                                  *)

LEMMA BeginStep ==
  ASSUME Inv, NEW q \in Queries, Begin(q)
  PROVE  Inv'
<1>1. tables' = tables /\ before' = tables /\ stage' = "bind" /\ query' = q
  BY DEF Begin
<1> QED BY <1>1 DEF Inv, Bulk, TableIsThere

LEMMA SetsAreSeq ==
  ASSUME Inv, query.kind = "bulk"
  PROVE  IsSeq(query.sets)
<1>1. query \in Queries
  BY DEF Inv, NoQuery
<1> QED BY <1>1, QueryAssumption DEF IsSeq

\* Before the first Next nothing happens to the tables.
LEMMA EarlyStep ==
  ASSUME Inv, BindFails \/ Bind \/ Open \/ OpenThrows
  PROVE  Inv'
<1>1. tables' = tables /\ before' = before /\ query' = query
  BY DEF BindFails, Bind, Open, OpenThrows
<1>2. Exists' = Exists /\ TableRef' = TableRef
  BY <1>1 DEF Exists, TableRef, Named
<1>3. TableIsThere'
  <2>1. CASE Bind
    BY <1>1, <1>2, <2>1 DEF Bind, Binds, TableIsThere
  <2>2. CASE BindFails \/ Open \/ OpenThrows
    BY <1>1, <1>2, <2>2 DEF BindFails, Open, OpenThrows, Answer, TableIsThere, Inv
  <2> QED BY <2>1, <2>2
<1>4. ASSUME query.kind = "bulk" PROVE Bulk'
  <2>1. tables = before
    BY <1>4 DEF BindFails, Bind, Open, OpenThrows, Inv, Bulk
  <2>2. CASE BindFails \/ Bind
    BY <1>1, <2>1, <2>2 DEF BindFails, Bind, Answer, Bulk
  <2>3. CASE Open
    <3>1. stage' = "next" /\ cursor' = 1 /\ Exists
      BY <1>4, <2>3 DEF Open, Inv, TableIsThere
    <3>2. SubSeq(query.sets, 1, 0) = <<>> /\ Len(query.sets) \in Nat
      BY <1>4, SetsAreSeq, SeqFacts, SubSeqEmpty
    <3>3. TableRef \in DOMAIN tables /\ IsTable(tables[TableRef])
      BY <3>1, Ref DEF Inv, Tables
    <3>4. tables[TableRef].given \o <<>> = tables[TableRef].given
      BY <3>3, SeqFacts DEF IsTable
    <3>5. Gave(0)'
      BY <1>1, <1>2, <2>1, <3>2, <3>4 DEF Gave
    <3> QED BY <1>1, <3>1, <3>2, <3>5 DEF Bulk
  <2>4. CASE OpenThrows
    BY <1>4, <2>4 DEF OpenThrows
  <2> QED BY <2>2, <2>3, <2>4
<1> QED BY <1>1, <1>3, <1>4 DEF Inv

\* Statements other than a bulk INSERT.
LEMMA OtherStep ==
  ASSUME Inv, NextRow \/ NextRowThrows \/ NextInsert \/ NextCreate \/ NextCreateThrows
                \/ NextDrop \/ NextDropThrows \/ Close
  PROVE  Inv'
<1>1. before' = before /\ query' = query
  BY DEF NextRow, NextRowThrows, NextInsert, NextCreate, NextCreateThrows,
         NextDrop, NextDropThrows, Close
<1>2. query.kind # "bulk"
  BY DEF NextRow, NextRowThrows, NextInsert, NextCreate, NextCreateThrows,
         NextDrop, NextDropThrows, Close, InScan, InNext, Inv, Bulk
<1>3. stage' = "next" => query.kind \in {"select", "show"}
  BY DEF NextRow, NextRowThrows, NextInsert, NextCreate, NextCreateThrows, NextDrop,
         NextDropThrows, Close, InScan, InNext, Answer, Take, Message, NextThrows, Exhausted
<1>4. stage' # "open"
  BY DEF NextRow, NextRowThrows, NextInsert, NextCreate, NextCreateThrows, NextDrop,
         NextDropThrows, Close, InScan, InNext, Answer, Take, Message, NextThrows, Exhausted
<1>5. Tables(tables')
  <2>1. CASE UNCHANGED tables
    BY <2>1 DEF Inv
  <2>2. CASE NextRow \/ NextRowThrows \/ Close
    BY <2>1, <2>2 DEF NextRow, NextRowThrows, Close
  <2>3. CASE NextInsert
    <3>1. Exists
      BY <2>3 DEF NextInsert, InNext, Inv, TableIsThere
    <3>2. CASE InsertTuple(query.values)
      BY <3>1, <3>2, InsertedTable DEF Inv
    <3> QED BY <2>1, <2>3, <3>2 DEF NextInsert
  <2>4. CASE NextCreate \/ NextCreateThrows
    <3>1. PICK named, stored : StoreTable(named, stored)
      BY <2>4 DEF NextCreate, NextCreateThrows
    <3> QED BY <3>1, StoredTable DEF Inv
  <2>5. CASE NextDrop \/ NextDropThrows
    <3>1. Exists
      BY <2>5 DEF NextDrop, NextDropThrows, InNext, Inv, TableIsThere
    <3>2. CASE tables' = RemoveAt(tables, TableRef)
      BY <3>1, <3>2, Ref, RemoveTable DEF Inv
    <3> QED BY <2>1, <2>5, <3>2 DEF NextDrop, NextDropThrows
  <2> QED BY <2>2, <2>3, <2>4, <2>5
<1> QED BY <1>1, <1>2, <1>3, <1>4, <1>5 DEF Inv, TableIsThere

LEMMA ConcatGrows ==
  ASSUME NEW b, IsSeq(b), NEW s, IsSeq(s), NEW k \in 1 .. Len(s)
  PROVE  (b \o SubSeq(s, 1, k - 1)) \o <<s[k]>> = b \o SubSeq(s, 1, k)
<1> DEFINE S == ToSet(b) \cup ToSet(s)
<1>1. b \in Seq(S) /\ s \in Seq(S)
  BY SeqMonotonic DEF IsSeq
<1>2. Len(s) \in Nat /\ DOMAIN s = 1 .. Len(s) /\ \A i \in 1 .. Len(s) : s[i] \in S
  BY SeqFacts DEF ToSet
<1>3. SubSeq(s, 1, k - 1) \in Seq(S) /\ <<s[k]>> \in Seq(S)
  BY <1>2, SubSeqProperties
<1>4. PICK p \in Seq(S) : p = SubSeq(s, 1, k - 1)
  BY <1>3
<1>5. PICK e \in Seq(S) : e = <<s[k]>>
  BY <1>3
<1>6. (b \o p) \o e = b \o (p \o e)
  <2>1. PICK B : B = b
    OBVIOUS
  <2>2. B \in Seq(S) /\ p \in Seq(S) /\ e \in Seq(S)
    BY <1>1, <1>4, <1>5, <2>1
  <2>3. (B \o p) \o e = B \o (p \o e)
    BY <2>2, ConcatAssociative
  <2> QED BY <2>1, <2>3
<1>7. p \o e = SubSeq(s, 1, k)
  BY <1>4, <1>5, PrefixGrows
<1> QED BY <1>4, <1>5, <1>6, <1>7

\* A row more of a bulk INSERT.
LEMMA BulkRow ==
  ASSUME Inv, InNext("bulk"), NEW c, c = cursor, c <= Len(query.sets),
         InsertTuple(query.sets[c]), before' = before, query' = query
  PROVE  /\ Tables(tables') /\ Exists'
         /\ c \in 1 .. Len(query.sets) /\ Len(query.sets) \in Nat
         /\ Gave(c)'
<1>1. /\ Exists /\ c \in 1 .. Len(query.sets) + 1 /\ Gave(c - 1)
      /\ Tables(tables) /\ Tables(before)
  BY DEF InNext, Inv, Bulk, TableIsThere
<1>2. IsSeq(query.sets) /\ Len(query.sets) \in Nat
  BY SetsAreSeq, SeqFacts DEF InNext
<1>3. c \in 1 .. Len(query.sets)
  BY <1>1, <1>2
<1>4. /\ Tables(tables') /\ DOMAIN tables' = DOMAIN tables
      /\ TableRef' = TableRef /\ Exists'
      /\ tables'[TableRef].given = Append(tables[TableRef].given, query.sets[c])
  BY <1>1, InsertedTable
<1>5. /\ TableRef \in DOMAIN tables
      /\ IsSeq(tables[TableRef].given) /\ IsSeq(before[TableRef].given)
  BY <1>1, Ref DEF Gave, Tables, IsTable
<1>6. PICK b, g, x : /\ b = before[TableRef].given
                      /\ g = tables[TableRef].given /\ x = query.sets[c]
  OBVIOUS
<1>7. tables'[TableRef].given = before[TableRef].given \o SubSeq(query.sets, 1, c)
  <2>1. Append(g, x) = g \o <<x>>
    BY <1>5, <1>6, AppendIsSeq
  <2>2. g = b \o SubSeq(query.sets, 1, c - 1)
    BY <1>1, <1>6 DEF Gave
  <2>3. (b \o SubSeq(query.sets, 1, c - 1)) \o <<query.sets[c]>> = b \o SubSeq(query.sets, 1, c)
    BY <1>2, <1>3, <1>5, <1>6, ConcatGrows
  <2>4. tables'[TableRef].given = Append(g, x)
    BY <1>4, <1>6
  <2> QED BY <1>6, <2>1, <2>2, <2>3, <2>4
<1>8. Gave(c)'
  BY <1>1, <1>4, <1>7 DEF Gave
<1> QED BY <1>2, <1>3, <1>4, <1>8

\* The driver took something, or an exception ended the statement.
LEMMA NextBulkStep ==
  ASSUME Inv, NextBulk
  PROVE  Inv'
<1> DEFINE c == cursor
<1>1. /\ InNext("bulk") /\ query.kind = "bulk" /\ stage = "next"
      /\ query' = query /\ before' = before
  BY DEF NextBulk, InNext
<1>2. Exists /\ c \in 1 .. Len(query.sets) + 1 /\ Gave(c - 1) /\ Len(query.sets) \in Nat
  BY <1>1, SetsAreSeq, SeqFacts DEF Inv, Bulk, TableIsThere
<1>3. stage' \in {"next", "idle"}
  BY <1>1 DEF NextBulk, Take, Answer
<1>4. CASE /\ c <= Len(query.sets) /\ InsertTuple(query.sets[c]) /\ cursor' = c + 1
  <2>1. PICK k : k = cursor
    OBVIOUS
  <2>2. /\ Tables(tables') /\ Exists' /\ k \in 1 .. Len(query.sets) /\ Gave(k)'
    BY <1>1, <1>4, <2>1, BulkRow
  <2>3. Bulk'
    BY <1>1, <1>2, <1>3, <1>4, <2>1, <2>2 DEF Bulk
  <2> QED BY <1>1, <2>2, <2>3 DEF Inv, TableIsThere
<1>5. CASE UNCHANGED tables /\ stage' = "idle"
  <2>1. Gave(c - 1) /\ c - 1 \in 0 .. Len(query.sets)
    BY <1>2
  <2>2. PICK k \in 0 .. Len(query.sets) : Gave(k)
    BY <2>1
  <2>3. Gave(k)'
    BY <1>1, <1>5, <2>2 DEF Gave, TableRef, Named
  <2> QED BY <1>1, <1>5, <2>3 DEF Inv, Bulk, TableIsThere
<1> QED BY <1>4, <1>5 DEF NextBulk, Take, Message, Answer

LEMMA InsertThrowsStep ==
  ASSUME Inv, NextInsertThrows
  PROVE  Inv'
<1>1. /\ UNCHANGED <<tables, query, before>> /\ stage = "next" /\ stage' = "idle"
  BY DEF NextInsertThrows, NextThrows, Answer
<1>2. ASSUME query.kind = "bulk" PROVE Bulk'
  <2>1. cursor \in 1 .. Len(query.sets) + 1 /\ Gave(cursor - 1) /\ Len(query.sets) \in Nat
    BY <1>1, <1>2, SetsAreSeq, SeqFacts DEF Inv, Bulk
  <2>2. PICK k \in 0 .. Len(query.sets) : Gave(k)
    BY <2>1
  <2>3. Gave(k)'
    BY <1>1, <2>2 DEF Gave, TableRef, Named
  <2> QED BY <1>1, <2>3 DEF Bulk
<1> QED BY <1>1, <1>2 DEF Inv, TableIsThere

LEMMA InitInv == Init => Inv
<1>1. IsSeq(<<>>) /\ Len(<<>>) = 0
  BY EmptySeq, SeqIsSeq
<1>2. DOMAIN <<>> = {}
  BY <1>1, SeqFacts
<1>3. Tables(<<>>)
  BY <1>1, <1>2 DEF Tables
<1> QED BY <1>3 DEF Init, Inv, NoQuery, TableIsThere

LEMMA NextInv == Inv /\ [Next]_vars => Inv'
<1> SUFFICES ASSUME Inv, [Next]_vars PROVE Inv'
  OBVIOUS
<1>1. CASE \E q \in Queries : Begin(q)
  BY <1>1, BeginStep
<1>2. CASE BindFails \/ Bind \/ Open \/ OpenThrows
  BY <1>2, EarlyStep
<1>3. CASE NextRow \/ NextRowThrows \/ NextInsert \/ NextCreate \/ NextCreateThrows
             \/ NextDrop \/ NextDropThrows \/ Close
  BY <1>3, OtherStep
<1>4. CASE NextBulk \/ NextInsertThrows
  BY <1>4, NextBulkStep, InsertThrowsStep
<1>5. CASE UNCHANGED vars
  BY <1>5 DEF vars, Inv, Bulk, TableIsThere, Gave, TableRef, Exists, Named
<1> QED BY <1>1, <1>2, <1>3, <1>4, <1>5 DEF Next, Step

LEMMA Induction == Spec => []Inv
  BY InitInv, NextInv, PTL DEF Spec

-----------------------------------------------------------------------------
(* What a bulk INSERT leaves, and what it says.                            *)

LEMMA ConcatIsPrefix ==
  ASSUME NEW b, IsSeq(b), NEW s, IsSeq(s), NEW k \in 0 .. Len(s)
  PROVE  LET n == b \o SubSeq(s, 1, k)
         IN  IsPrefix(b, n) /\ IsPrefix(SubSeq(n, Len(b) + 1, Len(n)), s)
<1> DEFINE S == ToSet(b) \cup ToSet(s)
           p == SubSeq(s, 1, k)
           n == b \o p
<1>1. b \in Seq(S) /\ s \in Seq(S)
  BY SeqMonotonic DEF IsSeq
<1>2. Len(s) \in Nat /\ Len(b) \in Nat /\ \A i \in 1 .. Len(s) : s[i] \in S
  BY SeqFacts DEF ToSet
<1>3. p \in Seq(S) /\ Len(p) = k /\ \A i \in 1 .. k : p[i] = s[i]
  BY <1>2, SubSeqProperties
<1>4. /\ n \in Seq(S) /\ Len(n) = Len(b) + k
      /\ \A i \in 1 .. Len(b) + k : n[i] = IF i <= Len(b) THEN b[i] ELSE p[i - Len(b)]
  BY <1>1, <1>3, ConcatProperties
<1>5. IsPrefix(b, n)
  <2>1. \A i \in 1 .. Len(b) : n[i] \in S /\ b[i] \in S /\ n[i] = b[i]
    BY <1>1, <1>2, <1>4, ElementOfSeq
  <2>2. /\ SubSeq(n, 1, Len(b)) \in Seq(S) /\ Len(SubSeq(n, 1, Len(b))) = Len(b)
        /\ \A i \in 1 .. Len(b) : SubSeq(n, 1, Len(b))[i] = n[i]
    BY <1>2, <2>1, SubSeqProperties
  <2>3. SubSeq(n, 1, Len(b)) = b
    BY <1>1, <2>1, <2>2, SeqEqual
  <2>4. SubSeq(b, 1, Len(b)) = b
    BY <1>1, SubSeqFull
  <2> QED BY <1>2, <1>4, <2>3, <2>4 DEF IsPrefix
<1>6. SubSeq(n, Len(b) + 1, Len(n)) = p
  <2>1. \A i \in Len(b) + 1 .. Len(n) : n[i] \in S /\ n[i] = p[i - Len(b)]
    BY <1>2, <1>3, <1>4, ElementOfSeq
  <2> DEFINE r == SubSeq(n, Len(b) + 1, Len(n))
  <2>2. /\ r \in Seq(S) /\ Len(r) = k
        /\ \A i \in 1 .. k : r[i] = n[Len(b) + i]
    BY <1>2, <1>4, <2>1, SubSeqProperties
  <2>3. ASSUME NEW i \in 1 .. k PROVE r[i] = p[i]
    <3>1. Len(b) + i \in Len(b) + 1 .. Len(n) /\ (Len(b) + i) - Len(b) = i
      BY <1>2, <1>4
    <3>2. n[Len(b) + i] = p[(Len(b) + i) - Len(b)]
      BY <2>1, <3>1
    <3> QED BY <2>2, <3>1, <3>2
  <2> QED BY <1>3, <2>2, <2>3, SeqEqual
<1>7. IsPrefix(p, s)
  <2>1. SubSeq(p, 1, Len(p)) = p
    BY <1>3, SubSeqFull
  <2> QED BY <1>2, <1>3, <2>1 DEF IsPrefix
<1> QED BY <1>5, <1>6, <1>7

\* However many rows a bulk INSERT has, and whichever of them is refused or
\* throws: it leaves the table before and the first of its rows, in order.
THEOREM BulkLeavesPrefix == Spec => []BulkIsPrefix
<1>1. Inv => BulkIsPrefix
  <2> SUFFICES ASSUME Inv, Answered("bulk"), Exists
               PROVE  LET old == before[TableRef].given
                          new == tables[TableRef].given
                      IN  /\ IsPrefix(old, new)
                          /\ IsPrefix(SubSeq(new, Len(old) + 1, Len(new)), query.sets)
    BY DEF BulkIsPrefix
  <2>1. IsSeq(query.sets) /\ Len(query.sets) \in Nat
    BY SetsAreSeq, SeqFacts DEF Answered
  <2>2. TableRef \in DOMAIN tables
    BY Ref DEF Inv
  <2>3. CASE tables = before
    <3>1. IsSeq(before[TableRef].given)
      BY <2>2, <2>3 DEF Inv, Tables, IsTable
    <3>2. SubSeq(query.sets, 1, 0) = <<>>
      BY SubSeqEmpty
    <3>3. before[TableRef].given \o SubSeq(query.sets, 1, 0) = tables[TableRef].given
      BY <2>3, <3>1, <3>2, SeqFacts
    <3>4. PICK b, n : b = before[TableRef].given /\ n = tables[TableRef].given
      OBVIOUS
    <3>5. n = b \o SubSeq(query.sets, 1, 0) /\ IsSeq(b) /\ 0 \in 0 .. Len(query.sets)
      BY <2>1, <3>1, <3>3, <3>4
    <3>6. IsPrefix(b, n) /\ IsPrefix(SubSeq(n, Len(b) + 1, Len(n)), query.sets)
      BY <2>1, <3>5, ConcatIsPrefix
    <3> QED BY <3>4, <3>6
  <2>4. ASSUME NEW k \in 0 .. Len(query.sets), Gave(k)
        PROVE  LET old == before[TableRef].given
                   new == tables[TableRef].given
               IN  /\ IsPrefix(old, new)
                   /\ IsPrefix(SubSeq(new, Len(old) + 1, Len(new)), query.sets)
    <3>1. IsSeq(before[TableRef].given)
      BY <2>2, <2>4 DEF Inv, Tables, IsTable, Gave
    <3> QED BY <2>1, <2>4, <3>1, ConcatIsPrefix DEF Gave
  <2> QED BY <2>3, <2>4 DEF Inv, Bulk, Answered
<1> QED BY <1>1, Induction, PTL

\* A bulk INSERT that is answered with success has left every one of its rows,
\* unless what the driver found in its variable passed for a message.
THEOREM BulkSuccessIsAll == Spec => BulkInsertsAll
<1>1. Inv /\ [Next]_vars =>
        [InNext("bulk") /\ stage' = "idle" /\ result'.success /\ out.type # "MESSAGE"
           => tables'[TableRef].given = before[TableRef].given \o query.sets]_vars
  <2> SUFFICES ASSUME Inv, Next, InNext("bulk"), stage' = "idle", result'.success,
                      out.type # "MESSAGE"
               PROVE  tables'[TableRef].given = before[TableRef].given \o query.sets
    OBVIOUS
  <2>1. NextBulk
    <3>1. stage = "next" /\ query.kind = "bulk"
      BY DEF InNext
    <3>2. ~ \E q \in Queries : Begin(q)
      BY <3>1 DEF Begin
    <3>3. ~ (BindFails \/ Bind \/ Open \/ OpenThrows \/ Close)
      BY <3>1 DEF BindFails, Bind, Open, OpenThrows, Close
    <3>4. ~ (NextRow \/ NextRowThrows \/ NextInsert \/ NextCreate \/ NextCreateThrows
               \/ NextDrop \/ NextDropThrows)
      BY <3>1 DEF NextRow, NextRowThrows, NextInsert, NextCreate, NextCreateThrows,
             NextDrop, NextDropThrows, InScan, InNext
    <3>5. ~ NextInsertThrows
      BY DEF NextInsertThrows, NextThrows, Answer, Failure
    <3> QED BY <3>2, <3>3, <3>4, <3>5 DEF Next, Step
  <2>2. cursor > Len(query.sets) /\ UNCHANGED tables
    BY <2>1 DEF NextBulk, InNext, Take, Message, Answer
  <2>3. cursor \in 1 .. Len(query.sets) + 1 /\ Gave(cursor - 1)
    BY DEF Inv, Bulk, InNext
  <2>4. IsSeq(query.sets) /\ Len(query.sets) \in Nat
    BY SetsAreSeq, SeqFacts DEF InNext
  <2>5. cursor - 1 = Len(query.sets)
    BY <2>2, <2>3, <2>4
  <2> QED BY <2>2, <2>3, <2>4, <2>5, SeqFacts DEF Gave
<1> QED BY <1>1, Induction, PTL DEF Spec, BulkInsertsAll

-----------------------------------------------------------------------------
(* The bytes of a row.                                                     *)

\* Where the columns end, up to the n-th.
IsEnd(e, s, n) ==
  e = [i \in 0 .. n |-> IF i = 0 THEN HeaderSize ELSE e[i - 1] + Length[s[i].type]]

LEMMA EndStep ==
  ASSUME NEW s, NEW n \in Nat, NEW e, IsEnd(e, s, n)
  PROVE  /\ DOMAIN e = 0 .. n /\ e[0] = HeaderSize
         /\ \A i \in 1 .. n : e[i] = e[i - 1] + Length[s[i].type]
<1>1. DOMAIN e = 0 .. n
  BY DEF IsEnd
<1>2. \A i \in 0 .. n : e[i] = IF i = 0 THEN HeaderSize ELSE e[i - 1] + Length[s[i].type]
  BY DEF IsEnd
<1>3. 0 \in 0 .. n /\ \A i \in 1 .. n : i \in 0 .. n /\ i # 0
  OBVIOUS
<1> QED BY <1>1, <1>2, <1>3

LEMMA EndExists ==
  ASSUME NEW s, NEW n \in Nat, \A i \in 1 .. n : s[i].type \in ColumnType
  PROVE  \E e \in [0 .. n -> Nat] : IsEnd(e, s, n)
<1> DEFINE Bad == {k \in 0 .. n : ~ \E e \in [0 .. k -> Nat] : IsEnd(e, s, k)}
<1>1. ASSUME Bad # {} PROVE FALSE
  <2>1. PICK k \in Bad : \A j \in Bad : k <= j
    <3>1. Bad \in SUBSET Nat
      OBVIOUS
    <3> QED BY <1>1, <3>1, LeastNumber
  <2>2. k \in 0 .. n
    OBVIOUS
  <2>3. k # 0
    <3>1. IsEnd([i \in 0 .. 0 |-> HeaderSize], s, 0)
      BY DEF IsEnd
    <3>2. [i \in 0 .. 0 |-> HeaderSize] \in [0 .. 0 -> Nat]
      BY TupleAssumption
    <3> QED BY <3>1, <3>2
  <2>4. k - 1 \in 0 .. n /\ k - 1 \notin Bad /\ k \in 1 .. n
    BY <2>1, <2>2, <2>3
  <2>5. PICK e \in [0 .. k - 1 -> Nat] : IsEnd(e, s, k - 1)
    BY <2>4
  <2> DEFINE last == e[k - 1] + Length[s[k].type]
             g == [i \in 0 .. k |-> IF i = k THEN last ELSE e[i]]
  <2>6. last \in Nat
    <3>1. e[k - 1] \in Nat
      BY <2>4, <2>5
    <3>2. Length[s[k].type] \in Nat
      BY <2>4, TupleAssumption
    <3> QED BY <3>1, <3>2
  <2>7. g \in [0 .. k -> Nat]
    <3>1. \A i \in 0 .. k : i # k => i \in 0 .. k - 1
      BY <2>4
    <3> QED BY <2>5, <2>6, <3>1
  <2>8. IsEnd(g, s, k)
    <3>1. e[0] = HeaderSize /\ \A i \in 1 .. k - 1 : e[i] = e[i - 1] + Length[s[i].type]
      <4>1. k - 1 \in Nat
        BY <2>4
      <4> HIDE DEF g, last, Bad
      <4> QED BY <2>5, <4>1, EndStep
    <3>2. ASSUME NEW i \in 0 .. k
          PROVE  g[i] = IF i = 0 THEN HeaderSize ELSE g[i - 1] + Length[s[i].type]
      <4>1. CASE i = 0
        BY <2>3, <3>1, <4>1
      <4>2. CASE i = k
        <5>1. k - 1 \in 0 .. k /\ k - 1 # k
          BY <2>4
        <5> QED BY <2>3, <4>2, <5>1
      <4>3. CASE i # 0 /\ i # k
        <5>1. i \in 1 .. k - 1 /\ i - 1 \in 0 .. k /\ i - 1 # k
          BY <2>4, <4>3
        <5> QED BY <3>1, <4>3, <5>1
      <4> QED BY <4>1, <4>2, <4>3
    <3> HIDE DEF last
    <3> QED BY <3>2 DEF IsEnd
  <2> HIDE DEF g
  <2> QED BY <2>7, <2>8
<1>2. n \in 0 .. n /\ n \notin Bad
  BY <1>1
<1> QED BY <1>2

\* It depends on the types of the columns alone.
LEMMA EndsAgree ==
  ASSUME NEW s, NEW n \in Nat, NEW e, IsEnd(e, s, n),
         NEW t, NEW m \in Nat, NEW g, IsEnd(g, t, m),
         m <= n, \A i \in 1 .. m : s[i].type = t[i].type
  PROVE  e[m] = g[m]
<1> DEFINE Bad == {j \in 0 .. m : e[j] # g[j]}
<1>1. ASSUME Bad # {} PROVE FALSE
  <2>1. PICK j \in Bad : \A i \in Bad : j <= i
    <3>1. Bad \in SUBSET Nat
      OBVIOUS
    <3> QED BY <1>1, <3>1, LeastNumber
  <2>2. e[0] = g[0]
    BY EndStep
  <2>3. j \in 1 .. n /\ j \in 1 .. m
    BY <2>2
  <2>4. j - 1 \in 0 .. m /\ j - 1 \notin Bad
    BY <2>1, <2>3
  <2>5. e[j - 1] = g[j - 1]
    BY <2>4
  <2>6. e[j] = e[j - 1] + Length[s[j].type]
    BY <2>3, EndStep
  <2>7. g[j] = g[j - 1] + Length[t[j].type]
    BY <2>3, EndStep
  <2>8. s[j].type = t[j].type
    BY <2>3
  <2> QED BY <2>5, <2>6, <2>7, <2>8
<1>2. m \in 0 .. m /\ m \notin Bad
  BY <1>1
<1> QED BY <1>2

LEMMA TotalIsEnd ==
  ASSUME NEW s, IsSeq(s), \A i \in DOMAIN s : s[i].type \in ColumnType
  PROVE  \E e \in [0 .. Len(s) -> Nat] : IsEnd(e, s, Len(s)) /\ TotalSize(s) = e[Len(s)]
<1>1. Len(s) \in Nat /\ DOMAIN s = 1 .. Len(s)
  BY SeqFacts
<1>2. PICK e \in [0 .. Len(s) -> Nat] : IsEnd(e, s, Len(s))
  BY <1>1, EndExists
<1> DEFINE end == CHOOSE f : IsEnd(f, s, Len(s))
<1>3. IsEnd(end, s, Len(s))
  BY <1>2
<1>4. TotalSize(s) = end[Len(s)]
  BY DEF TotalSize, IsEnd
<1> HIDE DEF end
<1>5. end[Len(s)] = e[Len(s)]
  BY <1>1, <1>2, <1>3, EndsAgree
<1> QED BY <1>2, <1>4, <1>5

\* The size of a row, column by column.
LEMMA TotalFacts ==
  ASSUME NEW s, AreColumns(s)
  PROVE  \E e \in [0 .. Len(s) -> Nat] :
           /\ e[0] = HeaderSize /\ TotalSize(s) = e[Len(s)]
           /\ \A i \in 1 .. Len(s) : /\ e[i] = e[i - 1] + Length[s[i].type]
                                     /\ Offset(i, s) = e[i - 1]
<1>1. IsSeq(s) /\ Len(s) \in Nat /\ DOMAIN s = 1 .. Len(s)
      /\ \A i \in DOMAIN s : s[i].type \in ColumnType
  BY SeqFacts DEF AreColumns
<1>2. PICK e \in [0 .. Len(s) -> Nat] : IsEnd(e, s, Len(s)) /\ TotalSize(s) = e[Len(s)]
  BY <1>1, TotalIsEnd
<1>3. ASSUME NEW i \in 1 .. Len(s) PROVE Offset(i, s) = e[i - 1]
  <2>1. PICK p : p = SubSeq(s, 1, i - 1)
    OBVIOUS
  <2>2. s \in Seq(ToSet(s)) /\ i - 1 \in Nat /\ \A j \in 1 .. i - 1 : s[j] \in ToSet(s)
    BY <1>1 DEF IsSeq, ToSet
  <2>3. p \in Seq(ToSet(s)) /\ Len(p) = i - 1 /\ \A j \in 1 .. i - 1 : p[j] = s[j]
    BY <1>1, <2>1, <2>2, SubSeqProperties
  <2>4. IsSeq(p) /\ DOMAIN p = 1 .. i - 1
    BY <2>2, <2>3, SeqIsSeq, SeqFacts
  <2>5. \A j \in 1 .. i - 1 : j \in DOMAIN s
    BY <1>1
  <2>6. \A j \in DOMAIN p : p[j].type \in ColumnType
    BY <1>1, <2>3, <2>4, <2>5
  <2>7. PICK g \in [0 .. Len(p) -> Nat] : IsEnd(g, p, Len(p)) /\ TotalSize(p) = g[Len(p)]
    BY <2>4, <2>6, TotalIsEnd
  <2>8. g[i - 1] = e[i - 1]
    <3>1. PICK k, n : k = i - 1 /\ n = Len(s)
      OBVIOUS
    <3>2. k \in Nat /\ n \in Nat /\ k <= n /\ Len(p) = k
      BY <1>1, <2>2, <2>3, <3>1
    <3>3. IsEnd(e, s, n) /\ IsEnd(g, p, k) /\ \A j \in 1 .. k : s[j].type = p[j].type
      <4>1. IsEnd(e, s, n)
        BY <1>2, <3>1
      <4>2. IsEnd(g, p, k)
        BY <2>3, <2>7, <3>1
      <4>3. \A j \in 1 .. k : s[j].type = p[j].type
        BY <2>3, <3>1
      <4> QED BY <4>1, <4>2, <4>3
    <3>4. e[k] = g[k]
      <4>1. n \in Nat /\ k \in Nat /\ k <= n
        BY <3>2
      <4>2. IsEnd(e, s, n) /\ IsEnd(g, p, k)
        BY <3>3
      <4>3. \A j \in 1 .. k : s[j].type = p[j].type
        BY <3>3
      <4> QED BY <4>1, <4>2, <4>3, EndsAgree
    <3> QED BY <3>1, <3>4
  <2> QED BY <2>1, <2>3, <2>7, <2>8 DEF Offset
<1>4. e[0] = HeaderSize /\ \A i \in 1 .. Len(s) : e[i] = e[i - 1] + Length[s[i].type]
  BY <1>1, <1>2, EndStep
<1> QED BY <1>2, <1>3, <1>4

\* Sequences one behind the other, up to the n-th.
IsFlat(f, b, n) == f = [i \in 1 .. n |-> IF i = 1 THEN b[i] ELSE f[i - 1] \o b[i]]

LEMMA FlatFirst ==
  ASSUME NEW b, NEW n \in Nat, n # 0, NEW f, IsFlat(f, b, n)
  PROVE  f[1] = b[1]
<1>1. \A i \in 1 .. n : f[i] = IF i = 1 THEN b[i] ELSE f[i - 1] \o b[i]
  BY DEF IsFlat
<1>2. 1 \in 1 .. n
  OBVIOUS
<1> QED BY <1>1, <1>2

LEMMA FlatNext ==
  ASSUME NEW b, NEW n \in Nat, NEW f, IsFlat(f, b, n), NEW i \in 2 .. n
  PROVE  f[i] = f[i - 1] \o b[i]
<1>1. \A j \in 1 .. n : f[j] = IF j = 1 THEN b[j] ELSE f[j - 1] \o b[j]
  BY DEF IsFlat
<1>2. i \in 1 .. n /\ i # 1
  OBVIOUS
<1> QED BY <1>1, <1>2

LEMMA FlatExists ==
  ASSUME NEW T, NEW b, NEW n \in Nat, \A i \in 1 .. n : b[i] \in Seq(T)
  PROVE  \E f \in [1 .. n -> Seq(T)] : IsFlat(f, b, n)
<1> DEFINE Bad == {k \in 0 .. n : ~ \E f \in [1 .. k -> Seq(T)] : IsFlat(f, b, k)}
<1>1. ASSUME Bad # {} PROVE FALSE
  <2>1. PICK k \in Bad : \A j \in Bad : k <= j
    <3>1. Bad \in SUBSET Nat
      OBVIOUS
    <3> QED BY <1>1, <3>1, LeastNumber
  <2>2. k \in 0 .. n
    OBVIOUS
  <2>3. k # 0
    <3> DEFINE f == [i \in 1 .. 0 |-> <<>>]
    <3>1. 1 .. 0 = {}
      OBVIOUS
    <3>2. f \in [1 .. 0 -> Seq(T)]
      BY <3>1
    <3>3. IsFlat(f, b, 0)
      BY <3>1 DEF IsFlat
    <3> QED BY <3>2, <3>3
  <2>4. k - 1 \in 0 .. n /\ k - 1 \notin Bad /\ k \in 1 .. n /\ k - 1 \in Nat
    BY <2>1, <2>2, <2>3
  <2>5. PICK f \in [1 .. k - 1 -> Seq(T)] : IsFlat(f, b, k - 1)
    BY <2>4
  <2> DEFINE last == IF k = 1 THEN b[k] ELSE f[k - 1] \o b[k]
             g == [i \in 1 .. k |-> IF i = k THEN last ELSE f[i]]
  <2>6. last \in Seq(T)
    <3>1. b[k] \in Seq(T)
      BY <2>4
    <3>2. k # 1 => f[k - 1] \in Seq(T)
      BY <2>4, <2>5
    <3> QED BY <3>1, <3>2, ConcatProperties
  <2>7. g \in [1 .. k -> Seq(T)]
    <3>1. \A i \in 1 .. k : i # k => i \in 1 .. k - 1
      BY <2>4
    <3> HIDE DEF last
    <3> QED BY <2>5, <2>6, <3>1
  <2>8. \A i \in 1 .. k : g[i] = IF i = k THEN last ELSE f[i]
    OBVIOUS
  <2>9. k = 1 => last = b[1]
    OBVIOUS
  <2>10. k # 1 => last = f[k - 1] \o b[k]
    OBVIOUS
  <2>11. DOMAIN g = 1 .. k
    OBVIOUS
  <2>12. g = [i \in 1 .. k |-> g[i]]
    OBVIOUS
  <2> HIDE DEF last, g, Bad
  <2>13. /\ k - 1 # 0 => f[1] = b[1]
         /\ \A i \in 2 .. k - 1 : f[i] = f[i - 1] \o b[i]
    <3>1. PICK m : m = k - 1
      OBVIOUS
    <3>2. m \in Nat /\ IsFlat(f, b, m)
      BY <2>4, <2>5, <3>1
    <3>3. ASSUME m # 0 PROVE f[1] = b[1]
      <4>1. /\ DOMAIN f = 1 .. m
            /\ \A i \in 1 .. m : f[i] = IF i = 1 THEN b[i] ELSE f[i - 1] \o b[i]
        BY <3>2 DEF IsFlat
      <4>2. 1 \in 1 .. m
        BY <3>2, <3>3
      <4> QED BY <4>1, <4>2
    <3>4. ASSUME NEW i \in 2 .. m PROVE f[i] = f[i - 1] \o b[i]
      BY <3>2, FlatNext
    <3> QED BY <3>1, <3>3, <3>4
  <2>14. ASSUME NEW i \in 1 .. k PROVE g[i] = IF i = 1 THEN b[i] ELSE g[i - 1] \o b[i]
    <3>1. CASE k = 1
      <4>1. i = 1
        BY <3>1
      <4> QED BY <2>8, <2>9, <3>1, <4>1
    <3>2. CASE i = k /\ k # 1
      <4>1. k - 1 \in 1 .. k /\ k - 1 # k
        BY <2>4, <3>2
      <4>2. g[k - 1] = f[k - 1]
        BY <2>8, <4>1
      <4> QED BY <2>8, <2>10, <3>2, <4>2
    <3>3. CASE i = 1 /\ k # 1
      BY <2>4, <2>8, <2>13, <3>3
    <3>4. CASE i # 1 /\ i # k
      <4>1. i \in 2 .. k - 1 /\ i - 1 \in 1 .. k /\ i - 1 # k
        BY <2>4, <3>4
      <4>2. g[i] = f[i] /\ g[i - 1] = f[i - 1]
        BY <2>8, <3>4, <4>1
      <4> QED BY <2>13, <3>4, <4>1, <4>2
    <3> QED BY <3>1, <3>2, <3>3, <3>4
  <2>15. IsFlat(g, b, k)
    BY <2>12, <2>14 DEF IsFlat
  <2> QED BY <2>7, <2>15 DEF Bad
<1>2. n \in 0 .. n /\ n \notin Bad
  BY <1>1
<1> QED BY <1>2

LEMMA FlatsAgree ==
  ASSUME NEW b, NEW n \in Nat, NEW f, IsFlat(f, b, n), NEW g, IsFlat(g, b, n),
         NEW k \in 1 .. n
  PROVE  f[k] = g[k]
<1> DEFINE Bad == {j \in 1 .. n : f[j] # g[j]}
<1>1. ASSUME Bad # {} PROVE FALSE
  <2>1. PICK j \in Bad : \A i \in Bad : j <= i
    <3>1. Bad \in SUBSET Nat
      OBVIOUS
    <3> QED BY <1>1, <3>1, LeastNumber
  <2>2. f[1] = b[1] /\ g[1] = b[1]
    <3>1. n # 0
      OBVIOUS
    <3> QED BY <3>1, FlatFirst
  <2>3. j \in 2 .. n
    BY <2>2
  <2>4. j - 1 \in 1 .. n /\ j - 1 \notin Bad
    BY <2>1, <2>3
  <2>5. f[j - 1] = g[j - 1]
    BY <2>4
  <2>6. f[j] = f[j - 1] \o b[j]
    BY <2>3, FlatNext
  <2>7. g[j] = g[j - 1] \o b[j]
    BY <2>3, FlatNext
  <2> QED BY <2>5, <2>6, <2>7
<1> QED BY <1>1

\* Flattening, one sequence after the other.
LEMMA FlattenIsFlat ==
  ASSUME NEW T, NEW b \in Seq(Seq(T)), Len(b) # 0
  PROVE  \E f \in [1 .. Len(b) -> Seq(T)] :
           /\ FlattenSeq(b) = f[Len(b)] /\ f[1] = b[1]
           /\ \A i \in 2 .. Len(b) : f[i] = f[i - 1] \o b[i]
<1>1. Len(b) \in Nat /\ DOMAIN b = 1 .. Len(b) /\ \A i \in 1 .. Len(b) : b[i] \in Seq(T)
  BY LenProperties, ElementOfSeq
<1>2. PICK f \in [1 .. Len(b) -> Seq(T)] : IsFlat(f, b, Len(b))
  BY <1>1, FlatExists
<1> DEFINE flatten == CHOOSE g : IsFlat(g, b, Len(b))
<1>3. IsFlat(flatten, b, Len(b))
  BY <1>2
<1>4. FlattenSeq(b) = flatten[Len(b)]
  BY DEF FlattenSeq, IsFlat
<1> HIDE DEF flatten
<1>5. Len(b) \in 1 .. Len(b)
  BY <1>1
<1>6. flatten[Len(b)] = f[Len(b)]
  BY <1>1, <1>2, <1>3, <1>5, FlatsAgree
<1>7. f[1] = b[1]
  BY <1>1, <1>2, FlatFirst
<1>8. ASSUME NEW i \in 2 .. Len(b) PROVE f[i] = f[i - 1] \o b[i]
  BY <1>1, <1>2, FlatNext
<1> QED BY <1>2, <1>4, <1>6, <1>7, <1>8

LEMMA FlattenIsSeq ==
  ASSUME NEW T, NEW b \in Seq(Seq(T))
  PROVE  FlattenSeq(b) \in Seq(T)
<1>1. CASE Len(b) = 0
  <2>1. b = <<>>
    BY <1>1, EmptySeq
  <2>2. FlattenSeq(b) = b
    BY <1>1 DEF FlattenSeq
  <2> QED BY <2>1, <2>2, EmptySeq
<1>2. CASE Len(b) # 0
  <2>1. PICK f \in [1 .. Len(b) -> Seq(T)] : FlattenSeq(b) = f[Len(b)]
    BY <1>2, FlattenIsFlat
  <2>2. Len(b) \in 1 .. Len(b)
    BY <1>2, LenProperties
  <2> QED BY <2>1, <2>2
<1> QED BY <1>1, <1>2

\* What is before the end of a sequence stays there.
Prefix(p, x) == Len(p) <= Len(x) /\ \A k \in 1 .. Len(p) : x[k] = p[k]

LEMMA FlatKeeps ==
  ASSUME NEW T, NEW b \in Seq(Seq(T)), NEW n, n = Len(b), NEW f \in [1 .. n -> Seq(T)],
         \A i \in 2 .. n : f[i] = f[i - 1] \o b[i], NEW i \in 1 .. n
  PROVE  Prefix(f[i], f[n])
<1> DEFINE Kept(j) == /\ Len(f[i]) <= Len(f[j])
                      /\ \A k \in 1 .. Len(f[i]) : f[j][k] = f[i][k]
           Bad == {j \in i .. n : ~Kept(j)}
<1>0. n \in Nat /\ i \in Nat /\ i <= n /\ \A j \in 1 .. n : b[j] \in Seq(T)
  BY LenProperties, ElementOfSeq
<1>1. ASSUME Bad # {} PROVE FALSE
  <2>1. PICK j \in Bad : \A m \in Bad : j <= m
    <3>1. Bad \in SUBSET Nat
      BY <1>0
    <3> QED BY <1>1, <3>1, LeastNumber
  <2>2. Kept(i)
    BY LenProperties
  <2>3. j \in i .. n /\ j # i /\ ~Kept(j)
    BY <2>2
  <2>4. j - 1 \in i .. n /\ j - 1 \notin Bad /\ j \in 2 .. n /\ j - 1 \in 1 .. n
    BY <1>0, <2>1, <2>3
  <2>5. Kept(j - 1)
    BY <2>4
  <2> HIDE DEF Bad
  <2>6. PICK p, q : p = f[j - 1] /\ q = b[j]
    OBVIOUS
  <2>7. p \in Seq(T) /\ q \in Seq(T) /\ f[j] = p \o q
    <3>1. f[j] = f[j - 1] \o b[j]
      BY <2>4
    <3>2. \A m \in 1 .. n : f[m] \in Seq(T)
      OBVIOUS
    <3>3. p \in Seq(T) /\ q \in Seq(T)
      <4>1. f[j - 1] \in Seq(T)
        BY <2>4, <3>2
      <4>2. j \in 1 .. n
        BY <1>0, <2>4
      <4>3. b[j] \in Seq(T)
        BY <1>0, <4>2
      <4> QED BY <2>6, <4>1, <4>3
    <3>4. f[j] = p \o q
      BY <2>6, <3>1, Zenon
    <3> QED BY <3>3, <3>4
  <2>8. Len(f[j]) = Len(p) + Len(q) /\ \A k \in 1 .. Len(p) : f[j][k] = p[k]
    <3>1. /\ Len(p \o q) = Len(p) + Len(q) /\ Len(p) \in Nat /\ Len(q) \in Nat
          /\ \A k \in 1 .. Len(p) + Len(q) : (p \o q)[k] = IF k <= Len(p) THEN p[k] ELSE q[k - Len(p)]
      BY <2>7, ConcatProperties, LenProperties
    <3> QED BY <2>7, <3>1
  <2>9. Len(p) \in Nat /\ Len(q) \in Nat /\ Len(f[i]) \in Nat
    BY <2>7, LenProperties
  <2>10. PICK l : l = Len(f[i])
    OBVIOUS
  <2>11. l <= Len(p) /\ \A k \in 1 .. l : p[k] = f[i][k]
    BY <2>5, <2>6, <2>10
  <2>12. l \in Nat
    BY <2>9, <2>10
  <2>13. l <= Len(f[j]) /\ \A k \in 1 .. l : f[j][k] = f[i][k]
    BY <2>8, <2>9, <2>11, <2>12
  <2> QED BY <2>3, <2>10, <2>13
<1>2. Kept(n)
  <2>1. n \in i .. n
    BY <1>0
  <2> QED BY <1>1, <2>1
<1> QED BY <1>2 DEF Prefix

\* What a column of a type can hold.
Fits(v, type) ==
  /\ IsSeq(v)
  /\ IF type = "CHAR" THEN Len(v) < Length[type] /\ \A k \in 1 .. Len(v) : v[k] # Nul
     ELSE Len(v) = Length[type]

LEMMA FunIsSeq ==
  ASSUME NEW n \in Nat, NEW T, NEW s, s \in [1 .. n -> T]
  PROVE  s \in Seq(T) /\ Len(s) = n
  OBVIOUS

LEMMA LengthFacts ==
  ASSUME NEW type \in ColumnType
  PROVE  Length[type] \in Nat /\ Length[type] # 0
  BY TupleAssumption

LEMMA MinOfTwo ==
  ASSUME NEW a \in Nat, NEW b \in Nat
  PROVE  Min({a, b}) \in Nat /\ Min({a, b}) <= a /\ Min({a, b}) <= b
<1>1. \E x \in {a, b} : \A y \in {a, b} : x =< y
  OBVIOUS
<1> QED BY <1>1 DEF Min

\* The conversion of a literal fills no CHAR column and every other one.
LEMMA KeepFits ==
  ASSUME NEW literal, NEW type \in ColumnType, type = "CHAR" => IsLiteral(literal)
  PROVE  Fits(Keep(literal, type), type)
<1>1. Length[type] \in Nat /\ Length[type] # 0
  BY LengthFacts
<1>2. CASE type = "CHAR"
  <2>1. PICK c : c = literal.CHAR
    OBVIOUS
  <2>2. c \in Seq(ToSet(c) \ {Empty})
    BY <1>2, <2>1 DEF IsLiteral
  <2>3. Len(c) \in Nat /\ \A i \in 1 .. Len(c) : c[i] # Empty
    BY <2>2, LenProperties, ElementOfSeq
  <2>4. PICK m : m = Min({Len(c), Length.CHAR - 1})
    OBVIOUS
  <2>5. m \in Nat /\ m <= Len(c) /\ m <= Length.CHAR - 1
    BY <1>1, <1>2, <2>3, <2>4, MinOfTwo
  <2>6. PICK s : s = [i \in 1 .. m |-> <<c[i], 0>>]
    OBVIOUS
  <2>7. Keep(literal, type) = s
    BY <1>2, <2>1, <2>4, <2>6 DEF Keep
  <2>8. s \in [1 .. m -> {<<c[i], 0>> : i \in 1 .. m}]
    BY <2>6
  <2>9. s \in Seq({<<c[i], 0>> : i \in 1 .. m}) /\ Len(s) = m
    BY <2>5, <2>8, FunIsSeq
  <2>10. IsSeq(s)
    BY <2>9, SeqIsSeq
  <2>11. \A k \in 1 .. m : s[k] # Nul
    BY <2>3, <2>5, <2>6 DEF Nul
  <2> QED BY <1>1, <1>2, <2>5, <2>7, <2>9, <2>10, <2>11 DEF Fits
<1>3. CASE type # "CHAR"
  <2>1. PICK m, s : m = Length[type] /\ s = [k \in 1 .. m |-> <<literal[type], k>>]
    OBVIOUS
  <2>2. Keep(literal, type) = s
    BY <1>3, <2>1 DEF Keep
  <2>3. m \in Nat /\ s \in [1 .. m -> {<<literal[type], k>> : k \in 1 .. m}]
    BY <1>1, <2>1
  <2>4. s \in Seq({<<literal[type], k>> : k \in 1 .. m}) /\ Len(s) = m
    BY <2>3, FunIsSeq
  <2>5. IsSeq(s)
    BY <2>4, SeqIsSeq
  <2> QED BY <1>3, <2>1, <2>2, <2>4, <2>5 DEF Fits
<1> QED BY <1>2, <1>3

\* A value and the zero bytes behind it.
LEMMA Filled ==
  ASSUME NEW v, IsSeq(v), NEW n \in Nat, Len(v) <= n
  PROVE  /\ ZeroFilled(v, n) \in Seq(ToSet(v) \cup {Nul}) /\ Len(ZeroFilled(v, n)) = n
         /\ \A k \in 1 .. n : ZeroFilled(v, n)[k] = IF k <= Len(v) THEN v[k] ELSE Nul
<1>1. PICK T : T = ToSet(v) \cup {Nul}
  OBVIOUS
<1>2. PICK m : m = n - Len(v)
  OBVIOUS
<1>3. v \in Seq(T) /\ Len(v) \in Nat /\ m \in Nat /\ Len(v) + m = n
  BY <1>1, <1>2, SeqMonotonic, SeqFacts DEF IsSeq
<1>4. PICK z : z = [k \in 1 .. m |-> Nul]
  OBVIOUS
<1>5. z \in [1 .. m -> T]
  BY <1>1, <1>4
<1>6. z \in Seq(T) /\ Len(z) = m
  BY <1>3, <1>5, FunIsSeq
<1>7. /\ v \o z \in Seq(T) /\ Len(v \o z) = Len(v) + m
      /\ \A k \in 1 .. Len(v) + m : (v \o z)[k] = IF k <= Len(v) THEN v[k] ELSE z[k - Len(v)]
  BY <1>3, <1>6, ConcatProperties
<1>8. ZeroFilled(v, n) = v \o z
  BY <1>2, <1>4 DEF ZeroFilled
<1>9. ASSUME NEW k \in 1 .. n PROVE (v \o z)[k] = IF k <= Len(v) THEN v[k] ELSE Nul
  <2>1. k \in 1 .. Len(v) + m /\ (k > Len(v) => k - Len(v) \in 1 .. m)
    BY <1>3
  <2>2. k > Len(v) => z[k - Len(v)] = Nul
    BY <1>4, <2>1
  <2> QED BY <1>3, <1>7, <2>1, <2>2
<1> QED BY <1>1, <1>3, <1>7, <1>8, <1>9

LEMMA Behind ==
  ASSUME NEW p \in Nat, NEW q \in Nat, NEW k \in 1 .. q
  PROVE  p + k \in 1 .. p + q /\ ~ (p + k <= p) /\ (p + k) - p = k
  OBVIOUS

LEMMA Between ==
  ASSUME NEW x \in Nat, NEW z \in Nat, NEW y, x + z = y
  PROVE  y - x = z /\ x <= y
  OBVIOUS

\* Pieces, and the sums of their lengths up to each.
Pieces(b, T, n) == b \in Seq(Seq(T)) /\ Len(b) = n
Sums(e, b, n) == e \in [0 .. n -> Nat] /\ \A i \in 1 .. n : e[i] = e[i - 1] + Len(b[i])
Joined(f, b, T, n) ==
  /\ f \in [1 .. n -> Seq(T)] /\ f[1] = b[1]
  /\ \A i \in 2 .. n : f[i] = f[i - 1] \o b[i]

\* What a lemma concludes of a piece, of a join and of the whole, by name: an
\* application of the lemma is found by the name and then expanded.
PieceAt(b, T, e, i) ==
  /\ b[i] \in Seq(T) /\ Len(b[i]) \in Nat
  /\ e[i] \in Nat /\ e[i - 1] \in Nat /\ e[0] \in Nat
  /\ e[i] = e[i - 1] + Len(b[i])
JoinAt(b, f, n, i) ==
  /\ i \in 1 .. n /\ i - 1 \in 1 .. n
  /\ Len(f[i]) = Len(f[i - 1]) + Len(b[i])
  /\ \A k \in 1 .. Len(b[i]) : f[i][Len(f[i - 1]) + k] = b[i][k]
EndAt(f, T, e, i) == f[i] \in Seq(T) /\ Len(f[i]) \in Nat /\ e[0] + Len(f[i]) = e[i]
WholeOf(x, b, T, e, n) ==
  /\ x \in Seq(T) /\ e[0] + Len(x) = e[n]
  /\ \A i \in 1 .. n : e[0] <= e[i - 1]
  /\ \A i \in 1 .. n : \A k \in 1 .. Len(b[i]) : x[e[i - 1] - e[0] + k] = b[i][k]

LEMMA PieceFacts ==
  ASSUME NEW T, NEW n \in Nat, NEW b, Pieces(b, T, n), NEW e, Sums(e, b, n), NEW i \in 1 .. n
  PROVE  PieceAt(b, T, e, i)
<1>1. b[i] \in Seq(T)
  BY ElementOfSeq DEF Pieces
<1>2. 0 \in 0 .. n /\ i \in 0 .. n /\ i - 1 \in 0 .. n
  OBVIOUS
<1>3. e[i] \in Nat /\ e[i - 1] \in Nat /\ e[0] \in Nat
  BY <1>2 DEF Sums
<1> QED BY <1>1, <1>3, LenProperties DEF Sums, PieceAt

\* A piece begins where what is before it ends.
LEMMA JoinFacts ==
  ASSUME NEW T, NEW n \in Nat, NEW b, Pieces(b, T, n), NEW e, Sums(e, b, n),
         NEW f, Joined(f, b, T, n), NEW i \in 2 .. n
  PROVE  JoinAt(b, f, n, i)
<1>1. i \in 1 .. n /\ i - 1 \in 1 .. n
  OBVIOUS
<1>2. PICK p, q : p = f[i - 1] /\ q = b[i]
  OBVIOUS
<1>3. p \in Seq(T) /\ q \in Seq(T)
  <2>1. PieceAt(b, T, e, i)
    BY <1>1, PieceFacts
  <2> QED BY <1>1, <1>2, <2>1 DEF Joined, PieceAt
<1>4. Len(p) \in Nat /\ Len(q) \in Nat
  BY <1>3, LenProperties
<1>5. /\ Len(p \o q) = Len(p) + Len(q)
      /\ \A k \in 1 .. Len(p) + Len(q) : (p \o q)[k] = IF k <= Len(p) THEN p[k] ELSE q[k - Len(p)]
  BY <1>3, ConcatProperties
<1>6. f[i] = p \o q
  BY <1>2, Zenon DEF Joined
<1>7. ASSUME NEW k \in 1 .. Len(q) PROVE (p \o q)[Len(p) + k] = q[k]
  <2>1. Len(p) + k \in 1 .. Len(p) + Len(q) /\ ~ (Len(p) + k <= Len(p)) /\ (Len(p) + k) - Len(p) = k
    BY <1>4, Behind
  <2> QED BY <1>5, <2>1
<1> QED BY <1>1, <1>2, <1>5, <1>6, <1>7 DEF JoinAt

LEMMA JoinLength ==
  ASSUME NEW T, NEW n \in Nat, NEW b, Pieces(b, T, n), NEW e, Sums(e, b, n),
         NEW f, Joined(f, b, T, n), NEW i \in 1 .. n
  PROVE  EndAt(f, T, e, i)
<1> DEFINE Bad == {j \in 1 .. n : e[0] + Len(f[j]) # e[j]}
<1>1. \A j \in 1 .. n : f[j] \in Seq(T) /\ Len(f[j]) \in Nat
  BY LenProperties DEF Joined
<1>2. ASSUME Bad # {} PROVE FALSE
  <2>1. PICK j \in Bad : \A m \in Bad : j <= m
    <3>1. Bad \in SUBSET Nat
      OBVIOUS
    <3> QED BY <1>2, <3>1, LeastNumber
  <2>2. j # 1
    <3>1. 1 \in 1 .. n /\ 1 - 1 = 0
      OBVIOUS
    <3>2. e[1] = e[1 - 1] + Len(b[1])
      BY <3>1, Zenon DEF Sums
    <3>3. f[1] = b[1]
      BY DEF Joined
    <3>4. e[0] + Len(f[1]) = e[1]
      BY <3>1, <3>2, <3>3
    <3> QED BY <3>4
  <2>3. j \in 2 .. n /\ j - 1 \in 1 .. n /\ j \in 1 .. n
    BY <2>2
  <2>4. j - 1 \notin Bad
    BY <2>1, <2>3
  <2>5. e[0] + Len(f[j - 1]) = e[j - 1]
    BY <2>3, <2>4
  <2>6. Len(f[j]) = Len(f[j - 1]) + Len(b[j])
    <3>1. JoinAt(b, f, n, j)
      BY <2>3, JoinFacts
    <3> QED BY <3>1 DEF JoinAt
  <2>7. e[j] = e[j - 1] + Len(b[j]) /\ Len(b[j]) \in Nat /\ e[0] \in Nat /\ Len(f[j - 1]) \in Nat
    <3>1. PieceAt(b, T, e, j)
      BY <2>3, PieceFacts
    <3> QED BY <1>1, <2>3, <3>1 DEF PieceAt
  <2>8. e[0] + Len(f[j]) # e[j]
    OBVIOUS
  <2>9. PICK x, y, z, u, v, w : /\ x = e[0] /\ y = e[j - 1] /\ z = e[j]
                                /\ u = Len(f[j - 1]) /\ v = Len(f[j]) /\ w = Len(b[j])
    OBVIOUS
  <2> HIDE DEF Bad
  <2>10. /\ x + u = y /\ v = u + w /\ z = y + w /\ x + v # z
    BY <2>5, <2>6, <2>7, <2>8, <2>9
  <2>11. x \in Nat /\ u \in Nat /\ w \in Nat
    BY <2>7, <2>9
  <2> QED BY <2>10, <2>11
<1> QED BY <1>1, <1>2 DEF EndAt

\* Flattening puts each piece behind those before it.
LEMMA FlatPieces ==
  ASSUME NEW T, NEW n \in Nat, n # 0, NEW b, Pieces(b, T, n), NEW e, Sums(e, b, n)
  PROVE  WholeOf(FlattenSeq(b), b, T, e, n)
<1>1. PICK f : Joined(f, b, T, n) /\ FlattenSeq(b) = f[n]
  BY FlattenIsFlat DEF Joined, Pieces
<1>2. n \in 1 .. n
  OBVIOUS
<1>3. FlattenSeq(b) \in Seq(T) /\ e[0] + Len(FlattenSeq(b)) = e[n]
  <2>1. EndAt(f, T, e, n)
    BY <1>1, <1>2, JoinLength
  <2> QED BY <1>1, <2>1 DEF EndAt
<1>4. ASSUME NEW i \in 1 .. n
      PROVE  /\ e[0] <= e[i - 1]
             /\ \A k \in 1 .. Len(b[i]) : f[i][e[i - 1] - e[0] + k] = b[i][k]
  <2>0. e[0] \in Nat
    <3>1. PieceAt(b, T, e, i)
      BY PieceFacts
    <3> QED BY <3>1 DEF PieceAt
  <2>1. CASE i = 1
    <3>1. e[i - 1] = e[0]
      BY <2>1
    <3>2. e[0] <= e[0] /\ \A k \in Nat : e[0] - e[0] + k = k
      BY <2>0
    <3>3. \A k \in 1 .. Len(b[i]) : k \in Nat
      OBVIOUS
    <3>4. f[i] = b[i]
      BY <1>1, <2>1 DEF Joined
    <3> QED BY <3>1, <3>2, <3>3, <3>4
  <2>2. CASE i # 1
    <3>1. i \in 2 .. n
      BY <2>2
    <3>2. /\ i - 1 \in 1 .. n
          /\ \A k \in 1 .. Len(b[i]) : f[i][Len(f[i - 1]) + k] = b[i][k]
      <4>1. JoinAt(b, f, n, i)
        BY <1>1, <3>1, JoinFacts
      <4> QED BY <4>1 DEF JoinAt
    <3>3. e[0] + Len(f[i - 1]) = e[i - 1] /\ Len(f[i - 1]) \in Nat
      <4>1. EndAt(f, T, e, i - 1)
        BY <1>1, <3>2, JoinLength
      <4> QED BY <4>1 DEF EndAt
    <3>4. e[i - 1] - e[0] = Len(f[i - 1]) /\ e[0] <= e[i - 1]
      BY <2>0, <3>3, Between, Zenon
    <3> QED BY <3>2, <3>4
  <2> QED BY <2>1, <2>2
<1>5. ASSUME NEW i \in 1 .. n, NEW k \in 1 .. Len(b[i])
      PROVE  f[n][e[i - 1] - e[0] + k] = b[i][k]
  <2>1. PICK x : x = e[i - 1] - e[0] + k
    OBVIOUS
  <2>2. x \in 1 .. Len(f[i])
    <3>1. PICK u, v, w, l : u = e[0] /\ v = e[i - 1] /\ w = Len(b[i]) /\ l = Len(f[i])
      OBVIOUS
    <3>2. u + l = e[i] /\ l \in Nat
      <4>1. e[0] + Len(f[i]) = e[i] /\ Len(f[i]) \in Nat
        <5>1. EndAt(f, T, e, i)
          BY <1>1, JoinLength
        <5> QED BY <5>1 DEF EndAt
      <4> QED BY <3>1, <4>1, Zenon
    <3>3. e[i] = v + w /\ u \in Nat /\ v \in Nat /\ w \in Nat
      <4>1. /\ e[i] = e[i - 1] + Len(b[i]) /\ Len(b[i]) \in Nat
            /\ e[0] \in Nat /\ e[i - 1] \in Nat
        <5>1. PieceAt(b, T, e, i)
          BY PieceFacts
        <5> QED BY <5>1 DEF PieceAt
      <4> QED BY <3>1, <4>1, Zenon
    <3>4. u <= v
      BY <1>4, <3>1
    <3>5. u + l = v + w /\ k \in 1 .. w /\ x = v - u + k
      BY <2>1, <3>1, <3>2, <3>3
    <3>6. x \in 1 .. l
      BY <3>2, <3>3, <3>4, <3>5
    <3> QED BY <3>1, <3>6
  <2>3. f[n][x] = f[i][x]
    <3>1. \A m \in 1 .. Len(f[i]) : f[n][m] = f[i][m]
      <4>1. b \in Seq(Seq(T)) /\ n = Len(b) /\ f \in [1 .. n -> Seq(T)]
            /\ \A j \in 2 .. n : f[j] = f[j - 1] \o b[j]
        BY <1>1 DEF Joined, Pieces
      <4>2. Prefix(f[i], f[n])
        BY <4>1, FlatKeeps
      <4> QED BY <4>2 DEF Prefix
    <3> QED BY <2>2, <3>1
  <2>4. f[i][x] = b[i][k]
    BY <1>4, <2>1
  <2> QED BY <2>1, <2>3, <2>4
<1> QED BY <1>1, <1>3, <1>4, <1>5 DEF WholeOf

\* Values for all the columns of a schema.
AllFit(values, schema) == \A i \in DOMAIN schema : Fits(values[i], schema[i].type)

LEMMA Serialized ==
  ASSUME NEW schema, AreColumns(schema), NEW values, AllFit(values, schema)
  PROVE  /\ IsSeq(Serialize(values, schema))
         /\ Len(Serialize(values, schema)) = TotalSize(schema)
         /\ \A i \in DOMAIN schema :
              /\ Offset(i, schema) \in Nat
              /\ Offset(i, schema) + Length[schema[i].type] <= TotalSize(schema)
              /\ \A k \in 1 .. Length[schema[i].type] :
                   Serialize(values, schema)[Offset(i, schema) + k]
                     = IF k <= Len(values[i]) THEN values[i][k] ELSE Nul
<1>1. IsSeq(schema) /\ Len(schema) \in Nat /\ DOMAIN schema = 1 .. Len(schema)
      /\ \A i \in DOMAIN schema : schema[i].type \in ColumnType
  BY SeqFacts DEF AreColumns
<1>2. PICK e \in [0 .. Len(schema) -> Nat] :
           /\ e[0] = HeaderSize /\ TotalSize(schema) = e[Len(schema)]
           /\ \A i \in 1 .. Len(schema) : /\ e[i] = e[i - 1] + Length[schema[i].type]
                                          /\ Offset(i, schema) = e[i - 1]
  BY TotalFacts
<1>3. PICK n \in Nat : n = Len(schema)
  BY <1>1
<1>4. PICK size, h : size = TotalSize(schema) /\ h = [k \in 1 .. HeaderSize |-> <<"size", size>>]
  OBVIOUS
<1>5. PICK b : b = [i \in 1 .. n |-> ZeroFilled(values[i], Length[schema[i].type])]
  OBVIOUS
<1>6. Serialize(values, schema) = h \o FlattenSeq(b)
  BY <1>1, <1>3, <1>4, <1>5 DEF Serialize
<1>7. PICK T : T = UNION {ToSet(values[i]) : i \in 1 .. n} \cup {Nul, <<"size", size>>}
  OBVIOUS
<1>8. ASSUME NEW i \in 1 .. n
      PROVE  /\ b[i] \in Seq(T) /\ Len(b[i]) = Length[schema[i].type]
             /\ Length[schema[i].type] \in Nat
             /\ \A k \in 1 .. Length[schema[i].type] :
                  b[i][k] = IF k <= Len(values[i]) THEN values[i][k] ELSE Nul
  <2>1. PICK v, type, m : v = values[i] /\ type = schema[i].type /\ m = Length[type]
    OBVIOUS
  <2>2. Fits(v, type) /\ type \in ColumnType
    BY <1>1, <1>3, <2>1 DEF AllFit
  <2>3. m \in Nat /\ IsSeq(v)
    BY <2>1, <2>2, LengthFacts DEF Fits
  <2>4. Len(v) <= m
    BY <2>1, <2>2, <2>3, SeqFacts DEF Fits
  <2>5. /\ ZeroFilled(v, m) \in Seq(ToSet(v) \cup {Nul}) /\ Len(ZeroFilled(v, m)) = m
        /\ \A k \in 1 .. m : ZeroFilled(v, m)[k] = IF k <= Len(v) THEN v[k] ELSE Nul
    BY <2>3, <2>4, Filled
  <2>6. ToSet(v) \cup {Nul} \subseteq T
    BY <1>7, <2>1
  <2>7. ZeroFilled(v, m) \in Seq(T)
    BY <2>5, <2>6, SeqMonotonic
  <2>8. b[i] = ZeroFilled(v, m)
    BY <1>5, <2>1
  <2> QED BY <2>1, <2>3, <2>5, <2>7, <2>8
<1>9. b \in Seq(Seq(T)) /\ Len(b) = n
  <2>1. b \in [1 .. n -> Seq(T)]
    BY <1>5, <1>8
  <2> QED BY <2>1, FunIsSeq
<1>10. h \in Seq(T) /\ Len(h) = HeaderSize /\ HeaderSize \in Nat
  <2>1. HeaderSize \in Nat
    BY TupleAssumption
  <2>2. PICK x : x = <<"size", size>>
    OBVIOUS
  <2>3. h = [k \in 1 .. HeaderSize |-> x] /\ x \in T
    BY <1>4, <1>7, <2>2
  <2>4. h \in [1 .. HeaderSize -> T]
    BY <2>3
  <2> QED BY <2>1, <2>4, FunIsSeq
<1>11. CASE n = 0
  <2>1. b = <<>>
    BY <1>9, <1>11, EmptySeq
  <2>2. FlattenSeq(b) = <<>>
    BY <1>9, <1>11, <2>1 DEF FlattenSeq
  <2>3. h \o <<>> = h
    BY <1>10, ConcatEmptySeq
  <2>4. Serialize(values, schema) = h
    BY <1>6, <2>2, <2>3
  <2>5. IsSeq(h)
    BY <1>10, SeqIsSeq
  <2>6. DOMAIN schema = {}
    BY <1>1, <1>3, <1>11
  <2>7. TotalSize(schema) = HeaderSize
    BY <1>2, <1>3, <1>11
  <2> QED BY <1>10, <2>4, <2>5, <2>6, <2>7
<1>12. CASE n # 0
  <2>1. Sums(e, b, n) /\ Pieces(b, T, n)
    BY <1>2, <1>3, <1>8, <1>9 DEF Sums, Pieces
  <2>2. PICK x : x = FlattenSeq(b)
    OBVIOUS
  <2>3. /\ x \in Seq(T) /\ e[0] + Len(x) = e[n]
        /\ \A i \in 1 .. n : e[0] <= e[i - 1]
        /\ \A i \in 1 .. n : \A k \in 1 .. Len(b[i]) : x[e[i - 1] - e[0] + k] = b[i][k]
    <3>1. WholeOf(FlattenSeq(b), b, T, e, n)
      BY <1>12, <2>1, FlatPieces
    <3> QED BY <2>2, <3>1 DEF WholeOf
  <2>4. /\ h \o x \in Seq(T) /\ Len(h \o x) = Len(h) + Len(x)
        /\ \A k \in 1 .. Len(h) + Len(x) : (h \o x)[k] = IF k <= Len(h) THEN h[k] ELSE x[k - Len(h)]
    BY <1>10, <2>3, ConcatProperties
  <2>5. Len(x) \in Nat /\ \A i \in 0 .. n : e[i] \in Nat
    BY <2>1, <2>3, LenProperties DEF Sums
  <2>6. PICK s : s = h \o x
    OBVIOUS
  <2>7. Serialize(values, schema) = s /\ IsSeq(s) /\ Len(s) = TotalSize(schema)
    <3>1. Len(s) = HeaderSize + Len(x) /\ e[0] = HeaderSize /\ TotalSize(schema) = e[n]
      BY <1>2, <1>3, <1>10, <2>4, <2>6
    <3> QED BY <1>6, <2>2, <2>3, <2>4, <2>6, <3>1, SeqIsSeq
  <2>8. ASSUME NEW i \in 1 .. n
        PROVE  /\ e[i - 1] \in Nat /\ e[i - 1] + Len(b[i]) <= TotalSize(schema)
               /\ \A k \in 1 .. Len(b[i]) : s[e[i - 1] + k] = b[i][k]
    <3>1. i - 1 \in 0 .. n /\ i \in 0 .. n
      OBVIOUS
    <3>2. e[i] = e[i - 1] + Len(b[i]) /\ e[0] <= e[i - 1] /\ e[i - 1] \in Nat /\ Len(b[i]) \in Nat
      BY <1>8, <2>1, <2>3, <2>5, <3>1 DEF Sums
    <3>3. e[i] <= e[n]
      <4> DEFINE Bad == {j \in i .. n : ~ (e[i] <= e[j])}
      <4>1. ASSUME Bad # {} PROVE FALSE
        <5>1. PICK j \in Bad : \A m \in Bad : j <= m
          <6>1. Bad \in SUBSET Nat
            OBVIOUS
          <6> QED BY <4>1, <6>1, LeastNumber
        <5>2. j \in 1 .. n /\ j # i /\ j - 1 \in i .. n /\ j - 1 \in 0 .. n
          <6>1. e[i] <= e[i]
            BY <2>5, <3>1
          <6>2. j # i
            BY <6>1
          <6> QED BY <6>2
        <5>3. j - 1 \notin Bad
          BY <5>1, <5>2
        <5>4. e[i] <= e[j - 1]
          BY <5>2, <5>3
        <5>5. e[j] = e[j - 1] + Len(b[j]) /\ Len(b[j]) \in Nat /\ e[j - 1] \in Nat /\ e[i] \in Nat
          BY <1>8, <2>1, <2>5, <3>1, <5>2 DEF Sums
        <5>6. ~ (e[i] <= e[j])
          OBVIOUS
        <5> HIDE DEF Bad
        <5> QED BY <5>4, <5>5, <5>6
      <4>2. n \in i .. n
        OBVIOUS
      <4> QED BY <4>1, <4>2
    <3>4. TotalSize(schema) = e[n] /\ e[0] = HeaderSize /\ n \in 0 .. n
      BY <1>2, <1>3
    <3>5. e[n] \in Nat /\ e[0] \in Nat
      BY <2>5, <3>4
    <3>6. ASSUME NEW k \in 1 .. Len(b[i]) PROVE s[e[i - 1] + k] = b[i][k]
      <4>1. PICK y : y = e[i - 1] - e[0] + k
        OBVIOUS
      <4>2. y \in 1 .. Len(x) /\ e[i - 1] + k = HeaderSize + y
        <5>1. PICK u, v, w, l, z : /\ u = e[0] /\ v = e[i - 1] /\ w = Len(b[i])
                                   /\ l = Len(x) /\ z = e[n]
          OBVIOUS
        <5>2. u \in Nat /\ v \in Nat /\ w \in Nat /\ l \in Nat
          BY <2>5, <3>2, <3>5, <5>1
        <5>3. u + l = z /\ v + w <= z /\ u <= v /\ HeaderSize = u /\ y = v - u + k
          BY <2>3, <3>2, <3>3, <3>4, <4>1, <5>1
        <5>4. k \in 1 .. w
          BY <5>1
        <5>5. y \in 1 .. l /\ v + k = HeaderSize + y
          BY <5>2, <5>3, <5>4
        <5> QED BY <5>1, <5>5
      <4>3. s[HeaderSize + y] = x[y]
        <5>1. HeaderSize + y \in 1 .. Len(h) + Len(x) /\ ~ (HeaderSize + y <= Len(h))
              /\ (HeaderSize + y) - Len(h) = y
          BY <1>10, <2>5, <4>2
        <5> QED BY <2>4, <2>6, <5>1
      <4>4. x[y] = b[i][k]
        BY <2>3, <4>1
      <4> QED BY <4>2, <4>3, <4>4
    <3> QED BY <3>2, <3>3, <3>4, <3>6
  <2>9. ASSUME NEW i \in 1 .. n
        PROVE  /\ Offset(i, schema) \in Nat
               /\ Offset(i, schema) + Length[schema[i].type] <= TotalSize(schema)
               /\ \A k \in 1 .. Length[schema[i].type] :
                    s[Offset(i, schema) + k] = IF k <= Len(values[i]) THEN values[i][k] ELSE Nul
    <3>1. Offset(i, schema) = e[i - 1]
      BY <1>2, <1>3
    <3>2. Len(b[i]) = Length[schema[i].type]
          /\ \A k \in 1 .. Length[schema[i].type] :
               b[i][k] = IF k <= Len(values[i]) THEN values[i][k] ELSE Nul
      BY <1>8
    <3>3. PICK m : m = Length[schema[i].type]
      OBVIOUS
    <3>4. e[i - 1] \in Nat /\ e[i - 1] + m <= TotalSize(schema)
          /\ \A k \in 1 .. m : s[e[i - 1] + k] = b[i][k]
      BY <2>8, <3>2, <3>3
    <3>5. \A k \in 1 .. m : s[e[i - 1] + k] = IF k <= Len(values[i]) THEN values[i][k] ELSE Nul
      BY <3>2, <3>3, <3>4
    <3> QED BY <3>1, <3>3, <3>4, <3>5
  <2>10. DOMAIN schema = 1 .. n
    BY <1>1, <1>3
  <2> QED BY <2>7, <2>9, <2>10
<1> QED BY <1>11, <1>12

\* What a row is made of is what is read from it.
LEMMA ReadBack ==
  ASSUME NEW schema, AreColumns(schema), NEW values, AllFit(values, schema),
         NEW i \in DOMAIN schema
  PROVE  GetValue(Serialize(values, schema), i, schema) = values[i]
<1>1. PICK bytes, v, type, m, at : /\ bytes = Serialize(values, schema) /\ v = values[i]
                                   /\ type = schema[i].type /\ m = Length[type]
                                   /\ at = Offset(i, schema)
  OBVIOUS
<1>2. IsSeq(bytes) /\ Len(bytes) \in Nat /\ at \in Nat /\ at + m <= Len(bytes)
  BY <1>1, Serialized, SeqFacts
<1>3. \A k \in 1 .. m : bytes[at + k] = IF k <= Len(v) THEN v[k] ELSE Nul
  BY <1>1, Serialized
<1>4. type \in ColumnType /\ Fits(v, type) /\ m \in Nat /\ m # 0
  BY <1>1, LengthFacts DEF AreColumns, AllFit
<1>5. IsSeq(v) /\ Len(v) \in Nat /\ Len(v) <= m /\ (type = "CHAR" => Len(v) < m)
      /\ (type # "CHAR" => Len(v) = m)
  <2>1. IsSeq(v)
    BY <1>4 DEF Fits
  <2> QED BY <1>1, <1>4, <2>1, SeqFacts DEF Fits
<1>6. PICK S : S = ToSet(bytes) \cup ToSet(v) \cup {Nul}
  OBVIOUS
<1>7. bytes \in Seq(S) /\ v \in Seq(S)
  BY <1>2, <1>5, <1>6, SeqMonotonic DEF IsSeq
<1>8. PICK rest : rest = SubSeq(bytes, at + 1, Len(bytes))
  OBVIOUS
<1>9. /\ rest \in Seq(S) /\ Len(rest) = Len(bytes) - at
      /\ \A k \in 1 .. Len(bytes) - at : rest[k] = bytes[at + k]
  <2>1. \A k \in at + 1 .. Len(bytes) : bytes[k] \in S
    BY <1>2, <1>7, ElementOfSeq
  <2>2. PICK j, l : j = at + 1 /\ l = Len(bytes)
    OBVIOUS
  <2>3. j \in Nat /\ l \in Nat /\ j <= l + 1 /\ l - j + 1 = Len(bytes) - at
    BY <1>2, <2>2, <1>4
  <2>4. /\ SubSeq(bytes, j, l) \in Seq(S) /\ Len(SubSeq(bytes, j, l)) = Len(bytes) - at
        /\ \A k \in 1 .. Len(bytes) - at : SubSeq(bytes, j, l)[k] = bytes[j + k - 1]
    BY <2>1, <2>2, <2>3, <1>2, <1>4, SubSeqProperties
  <2>5. \A k \in 1 .. Len(bytes) - at : j + k - 1 = at + k
    BY <1>2, <2>2
  <2> QED BY <1>8, <2>2, <2>4, <2>5
<1>10. ASSUME NEW k \in 1 .. m PROVE rest[k] = IF k <= Len(v) THEN v[k] ELSE Nul
  <2>1. k \in 1 .. Len(bytes) - at
    BY <1>2, <1>4
  <2> QED BY <1>3, <1>9, <2>1
<1>11. SubSeq(rest, 1, Len(v)) = v
  <2>1. \A k \in 1 .. Len(v) : k \in 1 .. Len(rest) /\ k \in 1 .. m
    BY <1>2, <1>4, <1>5, <1>9
  <2>2. \A k \in 1 .. Len(v) : rest[k] \in S
    BY <1>9, <2>1, ElementOfSeq
  <2>3. /\ SubSeq(rest, 1, Len(v)) \in Seq(S) /\ Len(SubSeq(rest, 1, Len(v))) = Len(v)
        /\ \A k \in 1 .. Len(v) : SubSeq(rest, 1, Len(v))[k] = rest[k]
    BY <1>5, <2>2, SubSeqProperties
  <2>4. \A k \in 1 .. Len(v) : SubSeq(rest, 1, Len(v))[k] = v[k]
    BY <1>10, <2>1, <2>3
  <2> QED BY <1>7, <2>3, <2>4, SeqEqual
<1>12. CASE type # "CHAR"
  BY <1>1, <1>5, <1>8, <1>11, <1>12 DEF GetValue
<1>13. CASE type = "CHAR"
  <2>1. PICK r : r = Append(rest, Nul)
    OBVIOUS
  <2>2. /\ Len(r) = Len(rest) + 1 /\ r \in Seq(S)
        /\ \A k \in 1 .. Len(rest) : r[k] = rest[k]
    <3>1. Nul \in S
      BY <1>6
    <3> QED BY <1>9, <2>1, <3>1, AppendProperties
  <2>3. \A k \in 1 .. Len(v) : v[k] # Nul
    BY <1>4, <1>13 DEF Fits
  <2>4. Len(v) + 1 \in 1 .. m /\ Len(v) + 1 \in 1 .. Len(rest) /\ Len(v) + 1 \in 1 .. Len(r)
    BY <1>2, <1>4, <1>5, <1>9, <1>13, <2>2
  <2>5. r[Len(v) + 1] = Nul
    BY <1>5, <1>10, <2>2, <2>4
  <2>6. \A k \in 1 .. Len(v) : r[k] # Nul
    <3>1. \A k \in 1 .. Len(v) : k \in 1 .. m /\ k \in 1 .. Len(rest)
      BY <1>2, <1>4, <1>5, <1>9
    <3> QED BY <1>10, <2>2, <2>3, <3>1
  <2> DEFINE I == {k \in 1 .. Len(r) : r[k] = Nul}
  <2>7. Len(v) + 1 \in I /\ \A k \in I : Len(v) + 1 =< k
    <3>1. \A k \in I : k \in 1 .. Len(r) /\ r[k] = Nul
      OBVIOUS
    <3> QED BY <1>5, <2>4, <2>5, <2>6, <3>1
  <2>8. I # {} /\ \A x \in I : (\A y \in I : x =< y) => x = Len(v) + 1
    <3>1. \A x \in I : x \in Nat
      OBVIOUS
    <3> HIDE DEF I
    <3> QED BY <1>5, <2>7, <3>1
  <2>9. Min(I) = Len(v) + 1
    <3> HIDE DEF I
    <3> QED BY <2>7, <2>8 DEF Min
  <2>10. SelectInSeq(Append(rest, Nul), LAMBDA b : b = Nul) = Min(I)
    BY <2>1, <2>8 DEF SelectInSeq
  <2>11. SelectInSeq(Append(rest, Nul), LAMBDA b : b = Nul) - 1 = Len(v)
    BY <1>5, <2>9, <2>10
  <2>12. GetValue(bytes, i, schema)
           = SubSeq(rest, 1, SelectInSeq(Append(rest, Nul), LAMBDA b : b = Nul) - 1)
    BY <1>1, <1>8, <1>13 DEF GetValue
  <2> HIDE DEF I
  <2> QED BY <1>1, <1>11, <2>11, <2>12
<1> QED BY <1>12, <1>13

LEMMA KeepsFit ==
  ASSUME NEW schema, AreColumns(schema), NEW literals, AreLiterals(literals),
         Len(literals) = Len(schema)
  PROVE  AllFit([i \in DOMAIN schema |-> Keep(literals[i], schema[i].type)], schema)
<1>1. DOMAIN schema = DOMAIN literals
  BY SeqFacts DEF AreColumns, AreLiterals
<1>2. ASSUME NEW i \in DOMAIN schema
      PROVE  Fits([j \in DOMAIN schema |-> Keep(literals[j], schema[j].type)][i], schema[i].type)
  <2>1. IsLiteral(literals[i]) /\ schema[i].type \in ColumnType
    BY <1>1 DEF AreColumns, AreLiterals
  <2>2. PICK l, t : l = literals[i] /\ t = schema[i].type
    OBVIOUS
  <2>3. Fits(Keep(l, t), t)
    BY <2>1, <2>2, KeepFits
  <2>4. [j \in DOMAIN schema |-> Keep(literals[j], schema[j].type)][i] = Keep(l, t)
    BY <2>2
  <2> QED BY <2>2, <2>3, <2>4
<1> QED BY <1>2 DEF AllFit

\* Whatever the types of the columns and their number, and however long the
\* characters of a literal: the row that InsertTuple makes of literals has the
\* size of its schema, and GetValue reads from each column what the conversion
\* kept of its literal.
THEOREM RowsReadBack ==
  ASSUME NEW schema, AreColumns(schema), NEW literals, AreLiterals(literals),
         Len(literals) = Len(schema)
  PROVE  /\ Len(FromLiterals(literals, schema)) = TotalSize(schema)
         /\ \A i \in DOMAIN schema :
              GetValue(FromLiterals(literals, schema), i, schema)
                = Keep(literals[i], schema[i].type)
<1>1. PICK values : values = [i \in DOMAIN schema |-> Keep(literals[i], schema[i].type)]
  OBVIOUS
<1>2. AllFit(values, schema) /\ FromLiterals(literals, schema) = Serialize(values, schema)
  BY <1>1, KeepsFit DEF FromLiterals
<1>3. Len(Serialize(values, schema)) = TotalSize(schema)
  BY <1>2, Serialized
<1>4. ASSUME NEW i \in DOMAIN schema PROVE GetValue(Serialize(values, schema), i, schema) = values[i]
  BY <1>2, ReadBack
<1>5. \A i \in DOMAIN schema : values[i] = Keep(literals[i], schema[i].type)
  BY <1>1
<1> QED BY <1>2, <1>3, <1>4, <1>5

-----------------------------------------------------------------------------
(* The tables that the catalog has.                                        *)

\* Each row is made of literals, one for each column.
Kept(t) ==
  /\ t.name # Empty
  /\ AreColumns(t.columns)
  /\ IsSeq(t.rows) /\ Len(t.rows) = Len(t.given)
  /\ \A k \in DOMAIN t.given :
       /\ AreLiterals(t.given[k]) /\ Len(t.given[k]) = Len(t.columns)
       /\ t.rows[k] = FromLiterals(t.given[k], t.columns)

\* What the binder found is still so.
RowsFit ==
  stage \in {"open", "next"} =>
    /\ query.kind = "insert" => Len(query.values) = Len(Columns)
    /\ query.kind = "bulk" => \A i \in DOMAIN query.sets : Len(query.sets[i]) = Len(Columns)

Typed ==
  /\ \A i \in DOMAIN tables : Kept(tables[i])
  /\ RowsFit
  /\ stage \in {"idle", "bind", "open", "next", "close"}
  /\ cursor \in Nat \ {0}
  /\ out.type \in OutputType /\ out.ok \in BOOLEAN
  /\ result.success \in BOOLEAN

LEMMA QueryFacts ==
  ASSUME Inv, query.kind # "none"
  PROVE  /\ query \in Queries
         /\ query.kind = "insert" => AreLiterals(query.values)
         /\ query.kind = "bulk" =>
              IsSeq(query.sets) /\ \A i \in DOMAIN query.sets : AreLiterals(query.sets[i])
         /\ query.kind = "select" => IsSeq(query.columns)
         /\ query.kind = "create" => query.table # Empty /\ AreColumns(query.columns)
<1>1. query \in Queries
  BY DEF Inv, NoQuery
<1> QED BY <1>1, QueryAssumption

LEMMA InsertKeeps ==
  ASSUME Tables(tables), \A i \in DOMAIN tables : Kept(tables[i]), Exists,
         NEW vs, AreLiterals(vs), Len(vs) = Len(Columns), InsertTuple(vs)
  PROVE  /\ \A i \in DOMAIN tables' : Kept(tables'[i])
         /\ \A i \in DOMAIN tables' : tables'[i].columns = tables[i].columns
<1> DEFINE t == tables[TableRef]
<1>1. TableRef \in DOMAIN tables /\ IsTable(t) /\ Kept(t)
  BY Ref DEF Tables
<1>2. PICK row, r, g : /\ row = FromLiterals(vs, Columns)
                       /\ r = Append(t.rows, row) /\ g = Append(t.given, vs)
  OBVIOUS
<1>3. PICK u : u = [name |-> t.name, columns |-> t.columns, rows |-> r, given |-> g]
  OBVIOUS
<1>4. tables' = [tables EXCEPT ![TableRef] = u]
  <2>1. [t EXCEPT !.rows = r, !.given = g] = u
    BY <1>1, <1>3, GrownTable
  <2>2. tables' = [tables EXCEPT ![TableRef] = [t EXCEPT !.rows = r, !.given = g]]
    BY <1>2, Zenon DEF InsertTuple
  <2> QED BY <2>1, <2>2
<1>5. u.name = t.name /\ u.columns = t.columns /\ u.rows = r /\ u.given = g
  BY <1>3
<1>6. /\ IsSeq(g) /\ Len(g) = Len(t.given) + 1
      /\ \A k \in 1 .. Len(t.given) : g[k] = t.given[k]
      /\ g[Len(t.given) + 1] = vs
  <2>1. PICK given : given = t.given
    OBVIOUS
  <2>2. IsSeq(given) /\ g = Append(given, vs)
    BY <1>1, <1>2, <2>1 DEF IsTable
  <2>3. LongerBy(given, vs, g)
    BY <2>2, AppendGrows
  <2> QED BY <2>1, <2>3 DEF LongerBy
<1>7. /\ IsSeq(r) /\ Len(r) = Len(t.rows) + 1
      /\ \A k \in 1 .. Len(t.rows) : r[k] = t.rows[k]
      /\ r[Len(t.rows) + 1] = row
  <2>1. PICK rows : rows = t.rows
    OBVIOUS
  <2>2. IsSeq(rows) /\ r = Append(rows, row)
    BY <1>1, <1>2, <2>1 DEF Kept
  <2>3. LongerBy(rows, row, r)
    BY <2>2, AppendGrows
  <2> QED BY <2>1, <2>3 DEF LongerBy
<1>8. PICK n : n = Len(t.given)
  OBVIOUS
<1>9. n \in Nat /\ DOMAIN t.given = 1 .. n /\ DOMAIN g = 1 .. n + 1 /\ Len(t.rows) = n
  BY <1>1, <1>6, <1>8, SeqFacts DEF IsTable, Kept
<1>10. ASSUME NEW k \in DOMAIN g
       PROVE  /\ AreLiterals(g[k]) /\ Len(g[k]) = Len(t.columns)
              /\ r[k] = FromLiterals(g[k], t.columns)
  <2>1. CASE k \in 1 .. n
    <3>1. g[k] = t.given[k] /\ r[k] = t.rows[k]
      BY <1>6, <1>7, <1>8, <1>9, <2>1
    <3>2. k \in DOMAIN t.given
      BY <1>9, <2>1
    <3>3. /\ AreLiterals(t.given[k]) /\ Len(t.given[k]) = Len(t.columns)
          /\ t.rows[k] = FromLiterals(t.given[k], t.columns)
      BY <1>1, <3>2 DEF Kept
    <3> QED BY <3>1, <3>3
  <2>2. CASE k = n + 1
    <3>1. g[k] = vs /\ r[k] = row
      BY <1>6, <1>7, <1>8, <1>9, <2>2
    <3> QED BY <1>2, <3>1 DEF Columns
  <2> QED BY <1>9, <2>1, <2>2
<1>11. Kept(u)
  <2>1. Len(r) = Len(g)
    BY <1>6, <1>7, <1>8, <1>9
  <2> QED BY <1>1, <1>5, <1>7, <1>10, <2>1 DEF Kept
<1>12. DOMAIN tables' = DOMAIN tables
       /\ \A i \in DOMAIN tables : tables'[i] = IF i = TableRef THEN u ELSE tables[i]
  BY <1>4
<1> QED BY <1>5, <1>11, <1>12

\* The columns that were stored, and where the last of them stands.
LEMMA StoredFacts ==
  ASSUME AreColumns(query.columns), query.columns # <<>>, NEW stored
  PROVE  /\ AreColumns(StoredColumns(stored))
         /\ Last(query.columns) \in stored =>
              Last(StoredColumns(stored)) = Last(query.columns)
         /\ Last(query.columns) \notin stored => StoredColumns(stored) # query.columns
<1>1. PICK cs, n : cs = query.columns /\ n = Len(cs)
  OBVIOUS
<1>2. IsSeq(cs) /\ n \in Nat /\ n # 0 /\ DOMAIN cs = 1 .. n
      /\ \A i \in 1 .. n : cs[i].type \in ColumnType /\ cs[i] \in ToSet(cs)
  <2>1. IsSeq(cs) /\ Len(cs) \in Nat /\ DOMAIN cs = 1 .. Len(cs)
    BY <1>1, SeqFacts DEF AreColumns
  <2>2. n # 0
    BY <1>1, <2>1, EmptySeq DEF IsSeq
  <2>3. \A i \in DOMAIN cs : cs[i].type \in ColumnType
    BY <1>1 DEF AreColumns
  <2> QED BY <1>1, <2>1, <2>2, <2>3 DEF ToSet
<1>3. PICK T : T = ToSet(cs) \cap stored
  OBVIOUS
<1>4. PICK b : b = [i \in 1 .. n |-> IF cs[i] \in stored THEN <<cs[i]>> ELSE <<>>]
  OBVIOUS
<1>5. StoredColumns(stored) = FlattenSeq(b)
  BY <1>1, <1>2, <1>4 DEF StoredColumns
<1>6. b \in Seq(Seq(T)) /\ Len(b) = n
  <2>1. ASSUME NEW i \in 1 .. n PROVE b[i] \in Seq(T)
    <3>1. b[i] = IF cs[i] \in stored THEN <<cs[i]>> ELSE <<>>
      BY <1>4
    <3>2. cs[i] \in stored => <<cs[i]>> \in Seq(T)
      BY <1>2, <1>3
    <3>3. <<>> \in Seq(T)
      BY EmptySeq
    <3> QED BY <3>1, <3>2, <3>3
  <2>2. b \in [1 .. n -> Seq(T)]
    BY <1>4, <2>1
  <2> QED BY <1>2, <2>2, FunIsSeq
<1>7. PICK x : x = FlattenSeq(b)
  OBVIOUS
<1>8. x \in Seq(T)
  BY <1>6, <1>7, FlattenIsSeq
<1>9. AreColumns(x)
  <2>1. IsSeq(x)
    BY <1>8, SeqIsSeq
  <2>2. \A i \in DOMAIN x : x[i] \in T
    BY <1>8, LenProperties
  <2>3. \A c \in T : c.type \in ColumnType
    BY <1>2, <1>3 DEF ToSet
  <2> QED BY <2>1, <2>2, <2>3 DEF AreColumns
<1>10. ASSUME cs[n] \in stored PROVE Last(x) = cs[n]
  <2>1. b[n] = <<cs[n]>>
    BY <1>2, <1>4, <1>10
  <2>2. PICK f \in [1 .. n -> Seq(T)] :
             /\ FlattenSeq(b) = f[n] /\ f[1] = b[1]
             /\ \A i \in 2 .. n : f[i] = f[i - 1] \o b[i]
    BY <1>2, <1>6, FlattenIsFlat
  <2>3. CASE n = 1
    <3>1. PICK c : c = cs[n]
      OBVIOUS
    <3>2. x = <<c>>
      BY <1>7, <2>1, <2>2, <2>3, <3>1
    <3>3. Len(<<c>>) = 1 /\ <<c>>[1] = c
      OBVIOUS
    <3> QED BY <3>1, <3>2, <3>3 DEF Last
  <2>4. CASE n # 1
    <3>1. n \in 2 .. n /\ n - 1 \in 1 .. n
      BY <1>2, <2>4
    <3>2. PICK p, e : p = f[n - 1] /\ e = <<cs[n]>>
      OBVIOUS
    <3>3. p \in Seq(T) /\ Len(p) \in Nat /\ e \in Seq(T) /\ Len(e) = 1 /\ e[1] = cs[n]
      <4>1. e \in Seq(T)
        BY <1>2, <1>3, <1>10, <3>1, <3>2
      <4> QED BY <2>2, <3>1, <3>2, <4>1, LenProperties
    <3>4. /\ Len(p \o e) = Len(p) + Len(e)
          /\ \A k \in 1 .. Len(p) + Len(e) : (p \o e)[k] = IF k <= Len(p) THEN p[k] ELSE e[k - Len(p)]
      BY <3>3, ConcatProperties
    <3>5. x = p \o e
      BY <1>7, <2>1, <2>2, <3>1, <3>2, Zenon
    <3>6. Len(p) + 1 \in 1 .. Len(p) + Len(e) /\ ~ (Len(p) + 1 <= Len(p))
          /\ (Len(p) + 1) - Len(p) = 1
      BY <3>3
    <3>7. (p \o e)[Len(p) + 1] = e[1]
      BY <3>4, <3>6
    <3> QED BY <3>3, <3>4, <3>5, <3>7 DEF Last
  <2> QED BY <2>3, <2>4
<1>11. ASSUME cs[n] \notin stored PROVE x # cs
  <2>1. n \in DOMAIN cs
    BY <1>2
  <2>2. cs[n] \notin T
    BY <1>3, <1>11
  <2>3. \A i \in DOMAIN x : x[i] \in T
    BY <1>8, LenProperties
  <2> QED BY <2>1, <2>2, <2>3
<1> QED BY <1>1, <1>5, <1>7, <1>9, <1>10, <1>11 DEF Last

\* The new table comes behind the others.
LEMMA StoreKeeps ==
  ASSUME Tables(tables), \A i \in DOMAIN tables : Kept(tables[i]),
         query.table # Empty, AreColumns(query.columns), query.columns # <<>>,
         NEW named, NEW stored, StoreTable(named, stored)
  PROVE  /\ \A i \in DOMAIN tables' : Kept(tables'[i])
         /\ \A i \in DOMAIN tables' \ DOMAIN tables :
              tables'[i].columns = StoredColumns(stored)
<1>1. CASE ~named
  BY <1>1 DEF StoreTable
<1>2. CASE named
  <2>1. PICK t : t = [name |-> query.table, rows |-> <<>>, given |-> <<>>,
                      columns |-> StoredColumns(stored)]
    OBVIOUS
  <2>2. tables' = Append(tables, t)
    BY <1>2, <2>1 DEF StoreTable
  <2>3. IsSeq(<<>>) /\ Len(<<>>) = 0
    BY EmptySeq, SeqIsSeq
  <2>4. DOMAIN <<>> = {}
    BY <2>3, SeqFacts
  <2>5. AreColumns(StoredColumns(stored))
    BY StoredFacts
  <2>6. t.name = query.table /\ t.rows = <<>> /\ t.given = <<>> /\ t.columns = StoredColumns(stored)
    BY <2>1
  <2>7. Kept(t)
    BY <2>3, <2>4, <2>5, <2>6 DEF Kept
  <2>8. IsSeq(tables) /\ Len(tables) \in Nat /\ DOMAIN tables = 1 .. Len(tables)
    BY SeqFacts DEF Tables
  <2>9. /\ IsSeq(Append(tables, t)) /\ Len(Append(tables, t)) = Len(tables) + 1
        /\ \A i \in 1 .. Len(tables) : Append(tables, t)[i] = tables[i]
        /\ Append(tables, t)[Len(tables) + 1] = t
    <3>1. LongerBy(tables, t, Append(tables, t))
      BY <2>8, AppendGrows
    <3> QED BY <3>1 DEF LongerBy
  <2>10. DOMAIN Append(tables, t) = 1 .. Len(tables) + 1
    BY <2>9, SeqFacts
  <2>11. \A i \in 1 .. Len(tables) + 1 : i \in 1 .. Len(tables) \/ i = Len(tables) + 1
    BY <2>8
  <2> QED BY <2>2, <2>6, <2>7, <2>8, <2>9, <2>10, <2>11
<1> QED BY <1>1, <1>2

LEMMA RemoveKeeps ==
  ASSUME Tables(tables), \A i \in DOMAIN tables : Kept(tables[i]), NEW j \in DOMAIN tables
  PROVE  \A i \in DOMAIN RemoveAt(tables, j) : Kept(RemoveAt(tables, j)[i])
<1> DEFINE T == {t \in ToSet(tables) : Kept(t)}
<1>1. Len(tables) \in Nat /\ DOMAIN tables = 1 .. Len(tables) /\ j \in 1 .. Len(tables)
  BY SeqFacts DEF Tables
<1>2. \A i \in 1 .. Len(tables) : tables[i] \in T
  BY <1>1 DEF ToSet
<1>3. SubSeq(tables, 1, j - 1) \in Seq(T)
  BY <1>1, <1>2, SubSeqProperties
<1>4. SubSeq(tables, j + 1, Len(tables)) \in Seq(T)
  BY <1>1, <1>2, SubSeqProperties
<1>5. RemoveAt(tables, j) \in Seq(T)
  BY <1>3, <1>4, ConcatProperties DEF RemoveAt
<1>6. \A i \in DOMAIN RemoveAt(tables, j) : RemoveAt(tables, j)[i] \in T
  BY <1>5, LenProperties
<1> QED BY <1>6

LEMMA OutFacts ==
  /\ \A o \in Garbage : o.type \in OutputType /\ o.ok \in BOOLEAN
  /\ \A b \in BOOLEAN : Message(b).type = "MESSAGE" /\ Message(b).ok = b
  /\ \A row : TupleOutput(row).type = "TUPLE" /\ TupleOutput(row).ok = TRUE
  /\ \A d : Success(d).success = TRUE /\ Success(d).data = d
  /\ Failure.success = FALSE
  BY DEF Garbage, Message, TupleOutput, OutputType, Success, Failure

\* What the driver does with an output.
LEMMA TakeFacts ==
  ASSUME NEW o, o.type \in OutputType, o.ok \in BOOLEAN, Take(o), Typed, stage = "next"
  PROVE  /\ out' = o /\ out'.type \in OutputType /\ out'.ok \in BOOLEAN
         /\ result'.success \in BOOLEAN
         /\ stage' \in {"next", "idle"}
         /\ o.type = "MESSAGE" => stage' = "idle"
<1>1. out' = o
  BY DEF Take
<1>2. CASE o.type = "TUPLE" \/ o.type = "other"
  BY <1>1, <1>2 DEF Take, Typed
<1>3. CASE o.type = "MESSAGE"
  <2>1. stage' = "idle" /\ result' = [success |-> o.ok, data |-> <<>>]
    BY <1>3 DEF Take, Answer
  <2> QED BY <1>1, <2>1
<1> QED BY <1>2, <1>3 DEF OutputType

LEMMA TypedBegin ==
  ASSUME Inv, Typed, NEW q \in Queries, Begin(q)
  PROVE  Typed'
<1>1. /\ tables' = tables /\ stage' = "bind" /\ cursor' = 1
      /\ out' = Message(TRUE) /\ result' = Success(<<>>)
  BY DEF Begin
<1>2. out'.type \in OutputType /\ out'.ok \in BOOLEAN /\ result'.success \in BOOLEAN
  BY <1>1, OutFacts DEF OutputType
<1>3. \A i \in DOMAIN tables' : Kept(tables'[i])
  BY <1>1 DEF Typed
<1>4. RowsFit' /\ cursor' \in Nat \ {0}
  BY <1>1 DEF RowsFit
<1> QED BY <1>1, <1>2, <1>3, <1>4 DEF Typed

LEMMA TypedEarly ==
  ASSUME Inv, Typed, BindFails \/ Bind \/ Open \/ OpenThrows
  PROVE  Typed'
<1>1. tables' = tables /\ query' = query
  BY DEF BindFails, Bind, Open, OpenThrows
<1>2. Columns' = Columns
  BY <1>1 DEF Columns, TableRef, Named
<1>3. CASE Bind
  <2>1. stage' = "open" /\ out' \in Garbage /\ Binds /\ UNCHANGED <<cursor, result>>
    BY <1>3 DEF Bind
  <2>2. out'.type \in OutputType /\ out'.ok \in BOOLEAN
    BY <2>1, OutFacts
  <2>3. query.kind = "insert" => Len(query.values) = Len(Columns)
    BY <2>1 DEF Binds, ValuesFit
  <2>4. query.kind = "bulk" => \A i \in DOMAIN query.sets : Len(query.sets[i]) = Len(Columns)
    BY <2>1 DEF Binds, ValuesFit
  <2> QED BY <1>1, <1>2, <2>1, <2>2, <2>3, <2>4 DEF Typed, RowsFit
<1>4. CASE Open
  <2>1. stage = "open" /\ stage' = "next" /\ cursor' = 1 /\ UNCHANGED <<out, result>>
    BY <1>4 DEF Open
  <2>2. RowsFit'
    BY <1>1, <1>2, <2>1 DEF RowsFit, Typed
  <2> QED BY <1>1, <2>1, <2>2 DEF Typed
<1>5. CASE BindFails \/ OpenThrows
  <2>1. stage' = "idle" /\ result' = Failure /\ UNCHANGED <<out, cursor>>
    BY <1>5 DEF BindFails, OpenThrows, Answer
  <2>2. result'.success \in BOOLEAN
    BY <2>1, OutFacts
  <2> QED BY <1>1, <2>1, <2>2 DEF Typed, RowsFit
<1> QED BY <1>3, <1>4, <1>5

LEMMA TypedThrows ==
  ASSUME Typed, NextThrows, \A i \in DOMAIN tables' : Kept(tables'[i])
  PROVE  Typed'
<1>1. stage' = "idle" /\ result' = Failure /\ UNCHANGED <<out, cursor>>
  BY DEF NextThrows, Answer
<1>2. result'.success \in BOOLEAN
  BY <1>1, OutFacts
<1> QED BY <1>1, <1>2 DEF Typed, RowsFit

LEMMA TypedScan ==
  ASSUME Inv, Typed, NextRow \/ NextRowThrows
  PROVE  Typed'
<1>1. tables' = tables /\ query' = query /\ stage = "next"
      /\ query.kind \in {"select", "show"}
  BY DEF NextRow, NextRowThrows, InScan, InNext
<1>2. CASE NextRowThrows
  BY <1>1, <1>2, TypedThrows DEF NextRowThrows, Typed
<1>3. CASE NextRow
  <2>1. RowsFit'
    BY <1>1 DEF RowsFit
  <2>2. CASE Exhausted /\ UNCHANGED cursor
    <3>1. stage' = "close" /\ UNCHANGED <<out, result, cursor>>
      BY <2>2 DEF Exhausted
    <3> QED BY <1>1, <2>1, <3>1 DEF Typed
  <2>3. CASE (\E row \in {ScanRows[cursor]} : \E o \in {TupleOutput(Project(row))} : Take(o))
             /\ cursor' = cursor + 1
    <3>1. PICK o : (\E row : o = TupleOutput(row)) /\ Take(o)
      BY <2>3
    <3>2. o.type = "TUPLE" /\ o.ok = TRUE
      BY <3>1, OutFacts
    <3>3. o.type \in OutputType /\ o.ok \in BOOLEAN
      BY <3>2 DEF OutputType
    <3>4. /\ out'.type \in OutputType /\ out'.ok \in BOOLEAN
          /\ result'.success \in BOOLEAN /\ stage' \in {"next", "idle"}
      BY <1>1, <3>1, <3>3, TakeFacts
    <3>5. cursor' \in Nat \ {0}
      BY <2>3 DEF Typed
    <3> QED BY <1>1, <2>1, <3>4, <3>5 DEF Typed
  <2> QED BY <1>3, <2>2, <2>3 DEF NextRow
<1> QED BY <1>2, <1>3

LEMMA TypedInsert ==
  ASSUME Inv, Typed, NextInsert
  PROVE  Typed'
<1>1. stage = "next" /\ query.kind = "insert" /\ query' = query /\ cursor' = cursor
  BY DEF NextInsert, InNext
<1>2. /\ out'.type \in OutputType /\ out'.ok \in BOOLEAN
      /\ result'.success \in BOOLEAN /\ stage' = "idle"
  <2>1. PICK b \in BOOLEAN : Take(Message(b))
    BY DEF NextInsert
  <2>2. Message(b).type = "MESSAGE" /\ Message(b).ok = b
    BY OutFacts
  <2>3. PICK o : o = Message(b)
    OBVIOUS
  <2>4. o.type = "MESSAGE" /\ o.type \in OutputType /\ o.ok \in BOOLEAN /\ Take(o)
    BY <2>1, <2>2, <2>3 DEF OutputType
  <2> QED BY <1>1, <2>4, TakeFacts
<1>3. \A i \in DOMAIN tables' : Kept(tables'[i])
  <2>1. CASE UNCHANGED tables
    BY <2>1 DEF Typed
  <2>2. CASE InsertTuple(query.values)
    <3>1. AreLiterals(query.values) /\ Len(query.values) = Len(Columns) /\ Exists
      BY <1>1, QueryFacts DEF Typed, RowsFit, Inv, TableIsThere
    <3>2. Tables(tables) /\ \A i \in DOMAIN tables : Kept(tables[i])
      BY DEF Inv, Typed
    <3> QED BY <2>2, <3>1, <3>2, InsertKeeps
  <2> QED BY <2>1, <2>2 DEF NextInsert
<1> QED BY <1>1, <1>2, <1>3 DEF Typed, RowsFit

LEMMA TypedBulk ==
  ASSUME Inv, Typed, NextBulk
  PROVE  Typed'
<1>1. stage = "next" /\ query.kind = "bulk" /\ query' = query
  BY DEF NextBulk, InNext
<1>2. PICK o : o.type \in OutputType /\ o.ok \in BOOLEAN /\ Take(o)
  <2>1. CASE Take(out)
    BY <2>1 DEF Typed
  <2>2. ASSUME NEW b \in BOOLEAN, Take(Message(b))
        PROVE  \E o : o.type \in OutputType /\ o.ok \in BOOLEAN /\ Take(o)
    <3>1. Message(b).type \in OutputType /\ Message(b).ok \in BOOLEAN
      BY OutFacts DEF OutputType
    <3> QED BY <2>2, <3>1
  <2> QED BY <2>1, <2>2 DEF NextBulk
<1>3. /\ out'.type \in OutputType /\ out'.ok \in BOOLEAN
      /\ result'.success \in BOOLEAN /\ stage' \in {"next", "idle"}
  BY <1>1, <1>2, TakeFacts
<1>4. cursor' \in Nat \ {0}
  <2>1. cursor \in Nat \ {0}
    BY DEF Typed
  <2>2. cursor' = cursor \/ cursor' = cursor + 1
    BY DEF NextBulk
  <2> QED BY <2>1, <2>2
<1>5. Exists /\ IsSeq(query.sets) /\ (\A i \in DOMAIN query.sets : AreLiterals(query.sets[i]))
      /\ (\A i \in DOMAIN query.sets : Len(query.sets[i]) = Len(Columns))
  BY <1>1, QueryFacts DEF Typed, RowsFit, Inv, TableIsThere
<1>6. Tables(tables) /\ \A i \in DOMAIN tables : Kept(tables[i])
  BY DEF Inv, Typed
<1>7. CASE UNCHANGED tables
  <2>1. Columns' = Columns
    BY <1>1, <1>7 DEF Columns, TableRef, Named
  <2>2. RowsFit'
    BY <1>1, <1>5, <2>1 DEF RowsFit
  <2> QED BY <1>3, <1>4, <1>6, <1>7, <2>2 DEF Typed
<1>8. CASE cursor <= Len(query.sets) /\ InsertTuple(query.sets[cursor])
  <2>1. cursor \in DOMAIN query.sets
    BY <1>5, <1>8, SeqFacts DEF Typed
  <2>2. PICK vs : vs = query.sets[cursor]
    OBVIOUS
  <2>3. AreLiterals(vs) /\ Len(vs) = Len(Columns) /\ InsertTuple(vs)
    BY <1>5, <1>8, <2>1, <2>2
  <2>4. /\ \A i \in DOMAIN tables' : Kept(tables'[i])
        /\ \A i \in DOMAIN tables' : tables'[i].columns = tables[i].columns
    BY <1>5, <1>6, <2>3, InsertKeeps
  <2>5. TableRef' = TableRef /\ DOMAIN tables' = DOMAIN tables /\ TableRef \in DOMAIN tables
    BY <1>1, <1>5, <1>6, <2>3, InsertedTable, Ref
  <2>6. Columns' = Columns
    BY <2>4, <2>5 DEF Columns
  <2>7. RowsFit'
    BY <1>1, <1>5, <2>6 DEF RowsFit
  <2> QED BY <1>3, <1>4, <2>4, <2>7 DEF Typed
<1> QED BY <1>7, <1>8 DEF NextBulk

LEMMA TypedCatalog ==
  ASSUME Inv, Typed, NextCreate \/ NextCreateThrows \/ NextDrop \/ NextDropThrows,
         query.kind = "create" => query.columns # <<>>
  PROVE  Typed'
<1>1. Tables(tables) /\ \A i \in DOMAIN tables : Kept(tables[i])
  BY DEF Inv, Typed
<1>2. ASSUME NextCreate \/ NextCreateThrows PROVE \A i \in DOMAIN tables' : Kept(tables'[i])
  <2>1. PICK named, stored : StoreTable(named, stored)
    BY <1>2 DEF NextCreate, NextCreateThrows
  <2>2. query.kind = "create"
    BY <1>2 DEF NextCreate, NextCreateThrows, InNext
  <2>3. query.table # Empty /\ AreColumns(query.columns) /\ query.columns # <<>>
    BY <2>2, QueryFacts
  <2> QED BY <1>1, <2>1, <2>3, StoreKeeps
<1>3. ASSUME NextDrop \/ NextDropThrows PROVE \A i \in DOMAIN tables' : Kept(tables'[i])
  <2>1. Exists
    BY <1>3 DEF NextDrop, NextDropThrows, InNext, Inv, TableIsThere
  <2>2. TableRef \in DOMAIN tables
    BY <1>1, <2>1, Ref
  <2>3. CASE tables' = RemoveAt(tables, TableRef)
    BY <1>1, <2>2, <2>3, RemoveKeeps
  <2> QED BY <1>1, <1>3, <2>3 DEF NextDrop, NextDropThrows
<1>4. CASE NextCreateThrows \/ NextDropThrows
  BY <1>2, <1>3, <1>4, TypedThrows DEF NextCreateThrows, NextDropThrows
<1>5. CASE NextCreate
  <2>1. stage' = "close" /\ out' = Message(TRUE) /\ UNCHANGED <<cursor, result>>
    BY <1>5 DEF NextCreate
  <2>2. out'.type \in OutputType /\ out'.ok \in BOOLEAN
    BY <2>1, OutFacts DEF OutputType
  <2> QED BY <1>2, <1>5, <2>1, <2>2 DEF Typed, RowsFit
<1>6. CASE NextDrop
  <2>1. stage = "next" /\ cursor' = cursor
    BY <1>6 DEF NextDrop, InNext
  <2>2. PICK b \in BOOLEAN : Take(Message(b))
    BY <1>6 DEF NextDrop
  <2>3. PICK o : o = Message(b)
    OBVIOUS
  <2>4. o.type = "MESSAGE" /\ o.type \in OutputType /\ o.ok \in BOOLEAN /\ Take(o)
    BY <2>2, <2>3, OutFacts DEF OutputType
  <2>5. /\ out'.type \in OutputType /\ out'.ok \in BOOLEAN
        /\ result'.success \in BOOLEAN /\ stage' = "idle"
    BY <2>1, <2>4, TakeFacts
  <2> QED BY <1>3, <1>6, <2>1, <2>5 DEF Typed, RowsFit
<1> QED BY <1>4, <1>5, <1>6

LEMMA TypedClose ==
  ASSUME Typed, Close
  PROVE  Typed'
<1>1. stage' = "idle" /\ result' = Success(tuple_set) /\ UNCHANGED <<tables, cursor, out>>
  BY DEF Close, Answer
<1>2. result'.success \in BOOLEAN
  BY <1>1, OutFacts
<1> QED BY <1>1, <1>2 DEF Typed, RowsFit

-----------------------------------------------------------------------------
(* CREATE TABLE.                                                           *)

\* What it did when it is at a stage.
Creating ==
  query.kind = "create" =>
    /\ stage \in {"bind", "open", "next"} => tables = before
    /\ stage \in {"open", "next", "close"} => query.columns # <<>>
    /\ stage = "close" => \A i \in DOMAIN tables \ DOMAIN before :
                            Last(tables[i].columns) = Last(query.columns)
    /\ CreateTellsLast

LEMMA CreatingStep ==
  ASSUME Inv, Typed, Creating, Next
  PROVE  Creating'
<1>1. ASSUME NEW q \in Queries, Begin(q) PROVE Creating'
  BY <1>1 DEF Begin, Creating, CreateTellsLast, Answered
<1>2. ASSUME query.kind # "create", Step PROVE Creating'
  <2>1. query' = query
    BY <1>2 DEF Step, BindFails, Bind, Open, OpenThrows, NextRow, NextRowThrows, NextInsert,
         NextBulk, NextInsertThrows, NextCreate, NextCreateThrows, NextDrop, NextDropThrows, Close
  <2> QED BY <1>2, <2>1 DEF Creating
<1>3. ASSUME query.kind = "create", Step PROVE Creating'
  <2>1. CASE BindFails \/ Bind \/ Open
    <3>1. UNCHANGED <<tables, query, before>> /\ stage \in {"bind", "open"} /\ tables = before
      BY <1>3, <2>1 DEF BindFails, Bind, Open, Creating
    <3>2. stage' \in {"idle", "open", "next"}
      BY <2>1 DEF BindFails, Bind, Open, Answer
    <3>3. CreateTellsLast'
      BY <3>1 DEF CreateTellsLast
    <3>4. query.columns # <<>> \/ stage' = "idle"
      BY <1>3, <2>1, <3>1 DEF BindFails, Bind, Open, Binds, Answer, Creating
    <3> QED BY <3>1, <3>2, <3>3, <3>4 DEF Creating
  <2>2. CASE NextCreate \/ NextCreateThrows
    <3>1. UNCHANGED <<query, before>> /\ stage = "next"
      BY <2>2 DEF NextCreate, NextCreateThrows, InNext
    <3>2. tables = before /\ query.columns # <<>>
      BY <1>3, <3>1 DEF Creating
    <3>3. AreColumns(query.columns) /\ query.table # Empty
      BY <1>3, QueryFacts
    <3>4. Tables(tables) /\ \A i \in DOMAIN tables : Kept(tables[i])
      BY DEF Inv, Typed
    <3>5. CASE NextCreate
      <4>1. PICK named, stored : Status(stored) /\ StoreTable(named, stored)
        BY <3>5 DEF NextCreate
      <4>2. \A i \in DOMAIN tables' \ DOMAIN tables : tables'[i].columns = StoredColumns(stored)
        BY <3>2, <3>3, <3>4, <4>1, StoreKeeps
      <4>3. Last(StoredColumns(stored)) = Last(query.columns)
        BY <3>2, <3>3, <4>1, StoredFacts DEF Status
      <4>4. stage' = "close"
        BY <3>5 DEF NextCreate
      <4>5. \A i \in DOMAIN tables' \ DOMAIN before' : Last(tables'[i].columns) = Last(query'.columns)
        BY <3>1, <3>2, <4>2, <4>3
      <4> QED BY <3>1, <3>2, <4>4, <4>5 DEF Creating, CreateTellsLast, Answered
    <3>6. CASE NextCreateThrows
      <4>1. PICK named, stored : ~Status(stored) /\ StoreTable(named, stored)
        BY <3>6 DEF NextCreateThrows
      <4>2. \A i \in DOMAIN tables' \ DOMAIN tables : tables'[i].columns = StoredColumns(stored)
        BY <3>2, <3>3, <3>4, <4>1, StoreKeeps
      <4>3. StoredColumns(stored) # query.columns
        BY <3>2, <3>3, <4>1, StoredFacts DEF Status
      <4>4. stage' = "idle" /\ result' = Failure
        BY <3>6 DEF NextCreateThrows, NextThrows, Answer
      <4>5. result'.success = FALSE
        BY <4>4, OutFacts
      <4>6. \A i \in DOMAIN tables' \ DOMAIN before' : tables'[i].columns # query'.columns
        BY <3>1, <3>2, <4>2, <4>3
      <4> QED BY <4>4, <4>5, <4>6 DEF Creating, CreateTellsLast
    <3> QED BY <2>2, <3>5, <3>6
  <2>3. CASE Close
    <3>1. UNCHANGED <<query, before, tables>> /\ stage = "close" /\ stage' = "idle"
          /\ result' = Success(tuple_set)
      BY <2>3 DEF Close, Answer
    <3>2. result'.success = TRUE
      BY <3>1, OutFacts
    <3>3. \A i \in DOMAIN tables \ DOMAIN before : Last(tables[i].columns) = Last(query.columns)
      BY <1>3, <3>1 DEF Creating
    <3> QED BY <3>1, <3>2, <3>3 DEF Creating, CreateTellsLast
  <2>4. ~ (OpenThrows \/ NextRow \/ NextRowThrows \/ NextInsert \/ NextBulk \/ NextInsertThrows
             \/ NextDrop \/ NextDropThrows)
    BY <1>3 DEF OpenThrows, NextRow, NextRowThrows, NextInsert, NextBulk, NextInsertThrows,
         NextDrop, NextDropThrows, InScan, InNext
  <2> QED BY <1>3, <2>1, <2>2, <2>3, <2>4 DEF Step
<1> QED BY <1>1, <1>2, <1>3 DEF Next

LEMMA TypedStep ==
  ASSUME Inv, Typed, Creating, Next
  PROVE  Typed'
<1>1. ASSUME NextCreate \/ NextCreateThrows \/ NextDrop \/ NextDropThrows PROVE Typed'
  <2>1. stage = "next"
    BY <1>1 DEF NextCreate, NextCreateThrows, NextDrop, NextDropThrows, InNext
  <2>2. query.kind = "create" => query.columns # <<>>
    BY <2>1 DEF Creating
  <2> QED BY <1>1, <2>2, TypedCatalog
<1>2. CASE \E q \in Queries : Begin(q)
  BY <1>2, TypedBegin
<1>3. CASE BindFails \/ Bind \/ Open \/ OpenThrows
  BY <1>3, TypedEarly
<1>4. CASE NextRow \/ NextRowThrows
  BY <1>4, TypedScan
<1>5. CASE NextInsert
  BY <1>5, TypedInsert
<1>6. CASE NextBulk
  BY <1>6, TypedBulk
<1>7. CASE NextInsertThrows
  BY <1>7, TypedThrows DEF NextInsertThrows, Typed
<1>8. CASE Close
  BY <1>8, TypedClose
<1> QED BY <1>1, <1>2, <1>3, <1>4, <1>5, <1>6, <1>7, <1>8 DEF Next, Step

LEMMA TypedInduction == Spec => [](Inv /\ Typed /\ Creating)
<1>1. Init => Typed /\ Creating
  <2> SUFFICES ASSUME Init PROVE Typed /\ Creating
    OBVIOUS
  <2>1. IsSeq(<<>>) /\ Len(<<>>) = 0
    BY EmptySeq, SeqIsSeq
  <2>2. DOMAIN <<>> = {}
    BY <2>1, SeqFacts
  <2>3. out.type \in OutputType /\ out.ok \in BOOLEAN /\ result.success \in BOOLEAN
    BY OutFacts DEF Init, OutputType
  <2>4. tables = <<>> /\ stage = "idle" /\ cursor = 1 /\ query.kind = "none"
    BY DEF Init, NoQuery
  <2>5. Typed
    BY <2>2, <2>3, <2>4 DEF Typed, RowsFit
  <2>6. Creating
    BY <2>4 DEF Creating
  <2> QED BY <2>5, <2>6
<1>2. Inv /\ Typed /\ Creating /\ [Next]_vars => (Typed /\ Creating)'
  <2>1. ASSUME UNCHANGED vars, Typed, Creating PROVE (Typed /\ Creating)'
    BY <2>1 DEF vars, Typed, RowsFit, Columns, TableRef, Named, Creating, CreateTellsLast, Answered
  <2> QED BY <2>1, TypedStep, CreatingStep
<1> QED BY <1>1, <1>2, Induction, PTL DEF Spec

\* Each row is the bytes of the literals it was inserted from.
RowsAreBytes ==
  \A i \in DOMAIN tables : LET t == tables[i] IN
    \A k \in DOMAIN t.rows : t.rows[k] = FromLiterals(t.given[k], t.columns)

\* Whatever is inserted, refused, created and dropped: a table has one row for
\* each row that was given, which is as long as its columns need (TypeOK) and
\* has the bytes of the literals that were given for it; and the driver's
\* variables have their types.
THEOREM QueriesAreTyped == Spec => [](TypeOK /\ RowsAreBytes)
<1>1. Inv /\ Typed => TypeOK
  <2> SUFFICES ASSUME Inv, Typed PROVE TypeOK
    OBVIOUS
  <2>1. ASSUME NEW i \in DOMAIN tables
        PROVE  /\ Len(tables[i].rows) = Len(tables[i].given)
               /\ \A k \in DOMAIN tables[i].rows :
                    Len(tables[i].rows[k]) = TotalSize(tables[i].columns)
    <3>1. PICK t : t = tables[i]
      OBVIOUS
    <3>2. Kept(t) /\ IsTable(t)
      BY <3>1 DEF Typed, Inv, Tables
    <3>3. DOMAIN t.rows = DOMAIN t.given
      BY <3>2, SeqFacts DEF Kept, IsTable
    <3>4. ASSUME NEW k \in DOMAIN t.rows PROVE Len(t.rows[k]) = TotalSize(t.columns)
      <4>1. PICK g, cs : g = t.given[k] /\ cs = t.columns
        OBVIOUS
      <4>2. AreLiterals(g) /\ AreColumns(cs) /\ Len(g) = Len(cs) /\ t.rows[k] = FromLiterals(g, cs)
        BY <3>2, <3>3, <4>1 DEF Kept
      <4>3. Len(FromLiterals(g, cs)) = TotalSize(cs)
        BY <4>2, RowsReadBack
      <4> QED BY <4>1, <4>2, <4>3
    <3> QED BY <3>1, <3>2, <3>4 DEF Kept
  <2> QED BY <2>1 DEF Inv, Typed, TypeOK
<1>2. Inv /\ Typed => RowsAreBytes
  <2> SUFFICES ASSUME Inv, Typed, NEW i \in DOMAIN tables
               PROVE  \A k \in DOMAIN tables[i].rows :
                        tables[i].rows[k] = FromLiterals(tables[i].given[k], tables[i].columns)
    BY DEF RowsAreBytes
  <2>1. PICK t : t = tables[i]
    OBVIOUS
  <2>2. Kept(t) /\ IsTable(t)
    BY <2>1 DEF Typed, Inv, Tables
  <2>3. DOMAIN t.rows = DOMAIN t.given
    BY <2>2, SeqFacts DEF Kept, IsTable
  <2> QED BY <2>1, <2>2, <2>3 DEF Kept
<1> QED BY <1>1, <1>2, TypedInduction, PTL

\* A CREATE TABLE whose columns the heap took or refused in any pattern: its
\* answer tells whether the last one is there, and no more.
THEOREM CreatesTellLast == Spec => []CreateTellsLast
<1>1. Creating => CreateTellsLast
  BY DEF Creating, CreateTellsLast, Answered
<1> QED BY <1>1, TypedInduction, PTL

-----------------------------------------------------------------------------
(* What a scan answers.                                                    *)

LEMMA PrefixOf ==
  ASSUME NEW a, IsSeq(a), NEW e, IsSeq(e), Len(a) <= Len(e), \A i \in 1 .. Len(a) : a[i] = e[i]
  PROVE  IsPrefix(a, e) /\ (Len(a) = Len(e) => a = e)
<1>1. PICK S : S = ToSet(a) \cup ToSet(e)
  OBVIOUS
<1>2. a \in Seq(S) /\ e \in Seq(S) /\ Len(a) \in Nat /\ Len(e) \in Nat
  BY <1>1, SeqMonotonic, SeqFacts DEF IsSeq
<1>3. \A i \in 1 .. Len(a) : e[i] \in S
  BY <1>2, ElementOfSeq
<1>4. /\ SubSeq(e, 1, Len(a)) \in Seq(S) /\ Len(SubSeq(e, 1, Len(a))) = Len(a)
      /\ \A i \in 1 .. Len(a) : SubSeq(e, 1, Len(a))[i] = e[i]
  BY <1>2, <1>3, SubSeqProperties
<1>5. SubSeq(e, 1, Len(a)) = a
  BY <1>2, <1>4, SeqEqual
<1>6. SubSeq(a, 1, Len(a)) = a /\ SubSeq(e, 1, Len(e)) = e
  BY SeqFacts
<1> QED BY <1>5, <1>6 DEF IsPrefix

LEMMA MapIsSeq ==
  ASSUME NEW s, IsSeq(s), NEW m, m = [i \in DOMAIN s |-> m[i]]
  PROVE  IsSeq(m) /\ Len(m) = Len(s) /\ DOMAIN m = 1 .. Len(s)
<1>1. PICK n \in Nat : n = Len(s) /\ DOMAIN s = 1 .. n
  BY SeqFacts
<1>2. DOMAIN m = 1 .. n
  BY <1>1
<1>3. m \in [1 .. n -> {m[i] : i \in 1 .. n}]
  BY <1>1
<1>4. m \in Seq({m[i] : i \in 1 .. n}) /\ Len(m) = n
  BY <1>3, FunIsSeq
<1>5. IsSeq(m)
  BY <1>4, SeqIsSeq
<1> QED BY <1>1, <1>2, <1>4, <1>5

\* What SHOW TABLES reads of a table.
LEMMA MasterFacts ==
  ASSUME NEW n, n # Empty
  PROVE  /\ Serialize(<<GetValue(MasterRow(n), 2, MasterTables)>>, ShownColumns)
              = Serialize(<<Keep(NameValue(n), "CHAR")>>, ShownColumns)
         /\ AreColumns(ShownColumns) /\ DOMAIN ShownColumns = 1 .. 1
         /\ GetValue(Serialize(<<Keep(NameValue(n), "CHAR")>>, ShownColumns), 1, ShownColumns)
              = Keep(NameValue(n), "CHAR")
<1>1. PICK id, l : id = [INT |-> "id"] /\ l = NameValue(n)
  OBVIOUS
<1>2. IsLiteral(l)
  <2>1. l.CHAR = <<n>>
    BY <1>1 DEF NameValue
  <2>2. ToSet(<<n>>) = {n}
    BY DEF ToSet
  <2>3. <<n>> \in Seq({n} \ {Empty})
    OBVIOUS
  <2> QED BY <2>1, <2>2, <2>3 DEF IsLiteral
<1>3. PICK a, b : a = Keep(id, "INT") /\ b = Keep(l, "CHAR")
  OBVIOUS
<1>4. Fits(a, "INT") /\ Fits(b, "CHAR")
  BY <1>2, <1>3, KeepFits DEF ColumnType
<1>5. PICK cs : cs = MasterTables
  OBVIOUS
<1>6. /\ AreColumns(cs) /\ DOMAIN cs = 1 .. 2 /\ cs[1].type = "INT" /\ cs[2].type = "CHAR"
  <2>1. /\ cs \in Seq({cs[1], cs[2]}) /\ Len(cs) = 2 /\ DOMAIN cs = 1 .. 2
        /\ cs[1].type = "INT" /\ cs[2].type = "CHAR"
    BY <1>5 DEF MasterTables
  <2>2. IsSeq(cs)
    BY <2>1, SeqIsSeq
  <2>3. \A i \in DOMAIN cs : i = 1 \/ i = 2
    BY <2>1
  <2> QED BY <2>1, <2>2, <2>3 DEF AreColumns, ColumnType
<1>7. PICK v : v = [i \in DOMAIN cs |-> Keep(<<id, l>>[i], cs[i].type)]
  OBVIOUS
<1>8. v[1] = a /\ v[2] = b
  BY <1>3, <1>6, <1>7
<1>9. AllFit(v, cs)
  <2>1. \A i \in DOMAIN cs : i = 1 \/ i = 2
    BY <1>6
  <2> QED BY <1>4, <1>6, <1>8, <2>1 DEF AllFit
<1>10. GetValue(Serialize(v, cs), 2, cs) = b
  <2>1. 2 \in DOMAIN cs
    BY <1>6
  <2> QED BY <1>6, <1>8, <1>9, <2>1, ReadBack
<1>11. MasterRow(n) = Serialize(v, cs)
  BY <1>1, <1>5, <1>7 DEF MasterRow, FromLiterals
<1>12. PICK sc : sc = ShownColumns
  OBVIOUS
<1>13. AreColumns(sc) /\ DOMAIN sc = 1 .. 1 /\ sc[1].type = "CHAR"
  <2>1. sc \in Seq({sc[1]}) /\ Len(sc) = 1 /\ DOMAIN sc = 1 .. 1 /\ sc[1].type = "CHAR"
    BY <1>12 DEF ShownColumns
  <2>2. IsSeq(sc)
    BY <2>1, SeqIsSeq
  <2> QED BY <2>1, <2>2 DEF AreColumns, ColumnType
<1>14. AllFit(<<b>>, sc)
  BY <1>4, <1>13 DEF AllFit
<1>15. GetValue(Serialize(<<b>>, sc), 1, sc) = <<b>>[1]
  BY <1>13, <1>14, ReadBack
<1> QED BY <1>1, <1>3, <1>5, <1>10, <1>11, <1>12, <1>13, <1>15

\* The r-th row that a scan gives.
Shown(r) == Project(ScanRows[r])

LEMMA ScanUnchanged ==
  ASSUME UNCHANGED <<tables, query>>
  PROVE  /\ Exists' = Exists /\ Columns' = Columns /\ Projection' = Projection
         /\ ScanRows' = ScanRows
         /\ \A r : Shown(r)' = Shown(r)
<1>1. Exists' = Exists /\ Columns' = Columns
  BY DEF Exists, Columns, TableRef, Named
<1>2. Projection' = Projection
  BY <1>1 DEF Projection
<1>3. \A n : IndexOf(n)' = IndexOf(n)
  BY <1>1 DEF IndexOf
<1>4. OutputSchema' = OutputSchema
  BY <1>1, <1>2, <1>3 DEF OutputSchema
<1>5. MasterNames' = MasterNames
  BY DEF MasterNames
<1>6. ScanRows' = ScanRows
  BY <1>5 DEF ScanRows, TableRef, Named
<1>7. ASSUME NEW r PROVE Shown(r)' = Shown(r)
  <2>1. \A row : Project(row)' = Project(row)
    BY <1>1, <1>2, <1>3, <1>4 DEF Project
  <2>2. PICK row : row = ScanRows[r]
    OBVIOUS
  <2>3. row = ScanRows'[r]
    BY <1>6, <2>2
  <2>4. Project(row)' = Project(row)
    BY <2>1
  <2> QED BY <2>2, <2>3, <2>4 DEF Shown
<1> QED BY <1>1, <1>2, <1>6, <1>7

\* The rows so far.
Given(seen) ==
  /\ IsSeq(seen) /\ Len(seen) = cursor - 1
  /\ cursor \in 1 .. Len(ScanRows) + 1
  /\ \A r \in 1 .. Len(seen) : seen[r] = Shown(r)

\* The columns that the binder found.
ColumnsFound ==
  query.kind = "select" => Exists /\ ToSet(Projection) \subseteq NameSet(Columns)

Selecting ==
  query.kind \in {"select", "show"} =>
    /\ stage \in {"bind", "open"} => tuple_set = <<>>
    /\ stage \in {"open", "next", "close"} => ColumnsFound
    /\ stage \in {"next", "close"} => Given(tuple_set)
    /\ stage = "idle" /\ result.success => ColumnsFound /\ Given(result.data)

\* The names of the tables, those of the catalog first.
LEMMA NamesFacts ==
  ASSUME Inv, Typed
  PROVE  /\ IsSeq(MasterNames) /\ 1 \in DOMAIN MasterNames
         /\ \A i \in DOMAIN MasterNames : MasterNames[i] # Empty
<1>1. PICK names, m : names = MasterNames /\ m = [i \in DOMAIN tables |-> tables[i].name]
  OBVIOUS
<1>2. IsSeq(m) /\ Len(m) \in Nat /\ \A i \in 1 .. Len(m) : m[i] # Empty
  <2>1. IsSeq(tables) /\ DOMAIN tables = 1 .. Len(tables)
    BY SeqFacts DEF Inv, Tables
  <2>2. m = [i \in DOMAIN tables |-> m[i]]
    BY <1>1
  <2>3. IsSeq(m) /\ Len(m) = Len(tables)
    BY <2>1, <2>2, MapIsSeq
  <2>4. \A i \in DOMAIN tables : m[i] # Empty
    BY <1>1 DEF Typed, Kept
  <2> QED BY <2>1, <2>3, <2>4, SeqFacts
<1>3. PICK a : a = <<"master_tables", "master_columns">>
  OBVIOUS
<1>4. PICK S : S = ToSet(m) \cup {"master_tables", "master_columns"}
  OBVIOUS
<1>5. m \in Seq(S) /\ a \in Seq(S) /\ Len(a) = 2 /\ a[1] # Empty /\ a[2] # Empty
  <2>1. m \in Seq(S)
    BY <1>2, <1>4, SeqMonotonic DEF IsSeq
  <2>2. "master_tables" # Empty /\ "master_columns" # Empty
    BY Zenon DEF Empty
  <2> QED BY <1>3, <1>4, <2>1, <2>2
<1>6. /\ a \o m \in Seq(S) /\ Len(a \o m) = Len(a) + Len(m)
      /\ \A i \in 1 .. Len(a) + Len(m) : (a \o m)[i] = IF i <= Len(a) THEN a[i] ELSE m[i - Len(a)]
  BY <1>5, ConcatProperties
<1>7. names = a \o m
  BY <1>1, <1>3 DEF MasterNames
<1>8. IsSeq(names) /\ Len(names) = 2 + Len(m) /\ DOMAIN names = 1 .. 2 + Len(m)
  BY <1>5, <1>6, <1>7, SeqIsSeq, SeqFacts
<1>9. ASSUME NEW i \in 1 .. 2 + Len(m) PROVE names[i] # Empty
  <2>1. names[i] = IF i <= 2 THEN a[i] ELSE m[i - 2]
    BY <1>5, <1>6, <1>7
  <2>2. i = 1 \/ i = 2 \/ (~ (i <= 2) /\ i - 2 \in 1 .. Len(m))
    BY <1>2
  <2> QED BY <1>2, <1>5, <2>1, <2>2
<1>10. 1 \in DOMAIN names
  BY <1>2, <1>8
<1> QED BY <1>1, <1>8, <1>9, <1>10

LEMMA ScanRowsFacts ==
  ASSUME Inv, Typed, ColumnsFound, query.kind \in {"select", "show"}
  PROVE  IsSeq(ScanRows) /\ Len(ScanRows) \in Nat
<1>1. CASE query.kind = "select"
  <2>1. TableRef \in DOMAIN tables
    BY <1>1, Ref DEF Inv, ColumnsFound
  <2> QED BY <1>1, <2>1, SeqFacts DEF ScanRows, Typed, Kept
<1>2. CASE query.kind = "show"
  <2>1. IsSeq(MasterNames)
    BY NamesFacts
  <2>2. PICK m : m = ScanRows
    OBVIOUS
  <2>3. m = [i \in DOMAIN MasterNames |-> m[i]]
    <3>1. m = [i \in DOMAIN MasterNames |-> MasterRow(MasterNames[i])]
      BY <1>2, <2>2 DEF ScanRows
    <3> QED BY <3>1
  <2>4. IsSeq(m)
    BY <2>1, <2>3, MapIsSeq
  <2> QED BY <2>2, <2>4, SeqFacts
<1> QED BY <1>1, <1>2

LEMMA GivenStays ==
  ASSUME UNCHANGED <<tables, query, cursor>>, NEW seen, Given(seen)
  PROVE  Given(seen)'
<1>1. ScanRows' = ScanRows /\ \A r : Shown(r)' = Shown(r)
  BY ScanUnchanged
<1> QED BY <1>1 DEF Given

LEMMA FoundStays ==
  ASSUME UNCHANGED <<tables, query>>, ColumnsFound
  PROVE  ColumnsFound'
<1>1. Exists' = Exists /\ Columns' = Columns /\ Projection' = Projection
  BY ScanUnchanged
<1> QED BY <1>1 DEF ColumnsFound

LEMMA SelectingEarly ==
  ASSUME Inv, Typed, Selecting, BindFails \/ Bind \/ Open \/ OpenThrows \/ Close
  PROVE  Selecting'
<1>1. UNCHANGED <<tables, query, tuple_set>>
  BY DEF BindFails, Bind, Open, OpenThrows, Close
<1> SUFFICES ASSUME query.kind \in {"select", "show"} PROVE Selecting'
  BY <1>1 DEF Selecting
<1>2. CASE BindFails \/ OpenThrows
  <2>1. stage' = "idle" /\ result' = Failure
    BY <1>2 DEF BindFails, OpenThrows, Answer
  <2>2. result'.success = FALSE
    BY <2>1, OutFacts
  <2> QED BY <2>1, <2>2 DEF Selecting
<1>3. CASE Bind
  <2>1. stage = "bind" /\ stage' = "open" /\ Binds
    BY <1>3 DEF Bind
  <2>2. ColumnsFound
    BY <2>1 DEF Binds, ColumnsFound
  <2>3. ColumnsFound'
    BY <1>1, <2>2, FoundStays
  <2>4. tuple_set' = <<>>
    BY <1>1, <2>1 DEF Selecting
  <2> QED BY <2>1, <2>3, <2>4 DEF Selecting
<1>4. CASE Open
  <2>1. stage = "open" /\ stage' = "next" /\ cursor' = 1
    BY <1>4 DEF Open
  <2>2. ColumnsFound /\ tuple_set = <<>>
    BY <2>1 DEF Selecting
  <2>3. ColumnsFound'
    BY <1>1, <2>2, FoundStays
  <2>4. ScanRows' = ScanRows /\ Len(ScanRows) \in Nat
    BY <1>1, <2>2, ScanUnchanged, ScanRowsFacts
  <2>5. IsSeq(<<>>) /\ Len(<<>>) = 0
    BY EmptySeq, SeqIsSeq
  <2>6. Given(tuple_set)'
    BY <1>1, <2>1, <2>2, <2>4, <2>5 DEF Given
  <2> QED BY <2>1, <2>3, <2>6 DEF Selecting
<1>5. CASE Close
  <2>1. stage = "close" /\ stage' = "idle" /\ result' = Success(tuple_set) /\ cursor' = cursor
    BY <1>5 DEF Close, Answer
  <2>2. ColumnsFound /\ Given(tuple_set)
    BY <2>1 DEF Selecting
  <2>3. ColumnsFound'
    BY <1>1, <2>2, FoundStays
  <2>4. PICK seen : seen = tuple_set
    OBVIOUS
  <2>5. Given(seen)'
    BY <1>1, <2>1, <2>2, <2>4, GivenStays
  <2>6. result'.data = seen
    BY <2>1, <2>4, OutFacts
  <2>7. Given(result.data)'
    BY <2>5, <2>6 DEF Given
  <2> QED BY <2>1, <2>3, <2>7 DEF Selecting
<1> QED BY <1>2, <1>3, <1>4, <1>5

LEMMA SelectingNext ==
  ASSUME Inv, Typed, Selecting, NextRow \/ NextRowThrows
  PROVE  Selecting'
<1>1. /\ UNCHANGED <<tables, query>> /\ stage = "next"
      /\ query.kind \in {"select", "show"}
  BY DEF NextRow, NextRowThrows, InScan, InNext
<1>2. ColumnsFound /\ Given(tuple_set) /\ ColumnsFound'
  BY <1>1, FoundStays DEF Selecting
<1>3. PICK seen : seen = tuple_set
  OBVIOUS
<1>4. Given(seen)
  BY <1>2, <1>3
<1>5. CASE NextRowThrows
  <2>1. stage' = "idle" /\ result' = Failure
    BY <1>5 DEF NextRowThrows, NextThrows, Answer
  <2>2. result'.success = FALSE
    BY <2>1, OutFacts
  <2> QED BY <2>1, <2>2 DEF Selecting
<1>6. CASE Exhausted /\ UNCHANGED cursor
  <2>1. stage' = "close" /\ tuple_set' = seen
    BY <1>3, <1>6 DEF Exhausted
  <2>2. Given(seen)'
    BY <1>1, <1>4, <1>6, GivenStays
  <2>3. Given(tuple_set)'
    BY <2>1, <2>2 DEF Given
  <2> QED BY <1>2, <2>1, <2>3 DEF Selecting
<1>7. CASE /\ cursor <= Len(ScanRows) /\ cursor' = cursor + 1
           /\ \E row \in {ScanRows[cursor]} : \E o \in {TupleOutput(Project(row))} : Take(o)
  <2>1. PICK c, n, x : c = cursor /\ n = Len(ScanRows) /\ x = Shown(c)
    OBVIOUS
  <2>2. \E row, o : row = ScanRows[cursor] /\ o = TupleOutput(Project(row)) /\ Take(o)
    BY <1>7
  <2>3. PICK o : o = TupleOutput(x) /\ Take(o)
    BY <2>1, <2>2 DEF Shown
  <2>4. o.type = "TUPLE" /\ o.row = x
    BY <2>3 DEF TupleOutput
  <2>5. tuple_set' = Append(seen, x) /\ stage' = "next"
    BY <1>1, <1>3, <2>3, <2>4 DEF Take
  <2>6. /\ IsSeq(seen) /\ Len(seen) = c - 1 /\ c \in 1 .. n + 1 /\ n \in Nat
        /\ \A r \in 1 .. Len(seen) : seen[r] = Shown(r)
    BY <1>1, <1>2, <1>4, <2>1, ScanRowsFacts DEF Given
  <2>7. PICK more : more = Append(seen, x)
    OBVIOUS
  <2>8. /\ IsSeq(more) /\ Len(more) = Len(seen) + 1
        /\ \A i \in 1 .. Len(seen) : more[i] = seen[i]
        /\ more[Len(seen) + 1] = x
    <3>1. LongerBy(seen, x, more)
      BY <2>6, <2>7, AppendGrows
    <3> QED BY <3>1 DEF LongerBy
  <2>9. ASSUME NEW r \in 1 .. Len(more) PROVE more[r] = Shown(r)
    <3>1. CASE r \in 1 .. Len(seen)
      BY <2>6, <2>8, <3>1
    <3>2. CASE r = Len(seen) + 1
      <4>1. r = c
        BY <2>6, <3>2
      <4> QED BY <2>1, <2>8, <3>2, <4>1
    <3> QED BY <2>6, <2>8, <3>1, <3>2
  <2>10. c \in 1 .. n /\ cursor' = c + 1 /\ Len(more) = c
    BY <1>7, <2>1, <2>6, <2>8
  <2>11. Len(ScanRows') = n /\ \A r : Shown(r)' = Shown(r)
    BY <1>1, <2>1, ScanUnchanged
  <2>12. cursor' \in 1 .. n + 1 /\ Len(more) = cursor' - 1
    BY <2>6, <2>10
  <2>13. Given(more)'
    BY <2>8, <2>9, <2>11, <2>12 DEF Given
  <2>14. Given(tuple_set)'
    BY <2>5, <2>7, <2>13 DEF Given
  <2> QED BY <1>2, <2>5, <2>14 DEF Selecting
<1> QED BY <1>5, <1>6, <1>7 DEF NextRow

LEMMA SelectingStep ==
  ASSUME Inv, Typed, Selecting, Next
  PROVE  Selecting'
<1>1. ASSUME NEW q \in Queries, Begin(q) PROVE Selecting'
  BY <1>1 DEF Begin, Selecting
<1>2. CASE BindFails \/ Bind \/ Open \/ OpenThrows \/ Close
  BY <1>2, SelectingEarly
<1>3. CASE NextRow \/ NextRowThrows
  BY <1>3, SelectingNext
<1>4. ASSUME NextInsert \/ NextBulk \/ NextInsertThrows \/ NextCreate \/ NextCreateThrows
               \/ NextDrop \/ NextDropThrows
      PROVE  Selecting'
  <2>1. query' = query /\ query.kind \in {"insert", "bulk", "create", "drop"}
    BY <1>4 DEF NextInsert, NextBulk, NextInsertThrows, NextCreate, NextCreateThrows,
         NextDrop, NextDropThrows, InNext
  <2> QED BY <2>1 DEF Selecting
<1> QED BY <1>1, <1>2, <1>3, <1>4 DEF Next, Step

LEMMA SelectInduction == Spec => [](Inv /\ Typed /\ Selecting)
<1>1. Init => Selecting
  BY DEF Init, Selecting, NoQuery
<1>2. Inv /\ Typed /\ Selecting /\ [Next]_vars => Selecting'
  <2>1. ASSUME Inv, Typed, Selecting, UNCHANGED vars PROVE Selecting'
    <3>1. UNCHANGED <<tables, query, cursor>> /\ UNCHANGED <<stage, tuple_set, result>>
      BY <2>1 DEF vars
    <3>2. PICK a, b : a = tuple_set /\ b = result.data
      OBVIOUS
    <3>3. Given(a) => Given(a)'
      BY <3>1, GivenStays
    <3>4. Given(b) => Given(b)'
      BY <3>1, GivenStays
    <3>5. a = tuple_set' /\ b = result'.data
      BY <3>1, <3>2
    <3>6. Given(tuple_set) => Given(tuple_set)'
      BY <3>2, <3>3, <3>5 DEF Given
    <3>7. Given(result.data) => Given(result.data)'
      BY <3>2, <3>4, <3>5 DEF Given
    <3>8. ColumnsFound => ColumnsFound'
      BY <3>1, FoundStays
    <3> QED BY <2>1, <3>1, <3>6, <3>7, <3>8 DEF Selecting
  <2> QED BY <2>1, SelectingStep
<1> QED BY <1>1, <1>2, TypedInduction, PTL DEF Spec

\* Reading back the r-th row of a SELECT.
LEMMA SelectedRow ==
  ASSUME Inv, Typed, query.kind = "select", ColumnsFound, NEW r \in DOMAIN ScanRows
  PROVE  /\ IsSeq(Expected) /\ Len(Expected) = Len(ScanRows)
         /\ Values(Shown(r), OutputSchema) = Expected[r]
<1>1. PICK t, cs, p : t = tables[TableRef] /\ cs = t.columns /\ p = Projection
  OBVIOUS
<1>2. Kept(t) /\ IsTable(t) /\ cs = Columns
  <2>1. TableRef \in DOMAIN tables
    BY Ref DEF Inv, ColumnsFound
  <2> QED BY <1>1, <2>1 DEF Typed, Inv, Tables, Columns
<1>3. ScanRows = t.rows /\ DOMAIN t.rows = 1 .. Len(t.rows) /\ DOMAIN t.given = DOMAIN t.rows
  BY <1>1, <1>2, SeqFacts DEF ScanRows, Kept, IsTable
<1>4. PICK g : g = t.given[r]
  OBVIOUS
<1>5. AreLiterals(g) /\ Len(g) = Len(cs) /\ AreColumns(cs) /\ t.rows[r] = FromLiterals(g, cs)
  BY <1>1, <1>2, <1>3, <1>4 DEF Kept
<1>6. DOMAIN g = DOMAIN cs /\ DOMAIN cs = 1 .. Len(cs)
  BY <1>5, SeqFacts DEF AreLiterals, AreColumns
<1>7. IsSeq(p)
  <2>1. CASE query.columns = <<>>
    <3>1. p = [i \in DOMAIN cs |-> cs[i].name]
      BY <1>1, <1>2, <2>1 DEF Projection
    <3>2. p = [i \in DOMAIN cs |-> p[i]]
      BY <3>1
    <3> QED BY <1>5, <3>2, MapIsSeq DEF AreColumns
  <2>2. CASE query.columns # <<>>
    BY <1>1, <2>2, QueryFacts DEF Projection
  <2> QED BY <2>1, <2>2
<1>8. DOMAIN p = 1 .. Len(p) /\ Len(p) \in Nat
  BY <1>7, SeqFacts
<1>9. ASSUME NEW k \in DOMAIN p PROVE IndexOf(p[k]) \in DOMAIN cs
  <2>1. p[k] \in NameSet(cs)
    BY <1>1, <1>2 DEF ColumnsFound, ToSet
  <2>2. \E i \in DOMAIN cs : cs[i].name = p[k]
    BY <2>1 DEF NameSet
  <2> QED BY <1>2, <2>2 DEF IndexOf
<1>10. PICK os : os = OutputSchema
  OBVIOUS
<1>11. os = [k \in DOMAIN p |-> cs[IndexOf(p[k])]]
  BY <1>1, <1>2, <1>10 DEF OutputSchema
<1>12. AreColumns(os) /\ DOMAIN os = DOMAIN p
  <2>1. os = [k \in DOMAIN p |-> os[k]]
    BY <1>11
  <2>2. IsSeq(os)
    BY <1>7, <2>1, MapIsSeq
  <2>3. \A k \in DOMAIN p : os[k].type \in ColumnType
    BY <1>5, <1>9, <1>11 DEF AreColumns
  <2> QED BY <1>11, <2>2, <2>3 DEF AreColumns
<1>13. PICK v : v = [k \in DOMAIN p |-> GetValue(t.rows[r], IndexOf(p[k]), cs)]
  OBVIOUS
<1>14. ASSUME NEW k \in DOMAIN p
       PROVE  /\ v[k] = Keep(g[IndexOf(p[k])], os[k].type)
              /\ Fits(v[k], os[k].type)
  <2>1. PICK i \in DOMAIN cs : i = IndexOf(p[k])
    BY <1>9
  <2>2. os[k] = cs[i] /\ v[k] = GetValue(FromLiterals(g, cs), i, cs)
    BY <1>5, <1>11, <1>13, <2>1
  <2>3. GetValue(FromLiterals(g, cs), i, cs) = Keep(g[i], cs[i].type)
    BY <1>5, RowsReadBack
  <2>4. IsLiteral(g[i]) /\ cs[i].type \in ColumnType
    BY <1>5, <1>6 DEF AreLiterals, AreColumns
  <2>5. PICK l, ty : l = g[i] /\ ty = cs[i].type
    OBVIOUS
  <2>6. Fits(Keep(l, ty), ty)
    BY <2>4, <2>5, KeepFits
  <2> QED BY <2>1, <2>2, <2>3, <2>5, <2>6
<1>15. Shown(r) = Serialize(v, os)
  BY <1>1, <1>2, <1>3, <1>10, <1>13 DEF Shown, Project
<1>16. AllFit(v, os)
  BY <1>12, <1>14 DEF AllFit
<1>17. ASSUME NEW k \in DOMAIN os
       PROVE  GetValue(Serialize(v, os), k, os) = Keep(g[IndexOf(p[k])], os[k].type)
  <2>1. GetValue(Serialize(v, os), k, os) = v[k]
    BY <1>12, <1>16, ReadBack
  <2>2. v[k] = Keep(g[IndexOf(p[k])], os[k].type)
    BY <1>12, <1>14
  <2> QED BY <2>1, <2>2
<1>18. Values(Shown(r), OutputSchema) = [k \in DOMAIN p |-> Keep(g[IndexOf(p[k])], os[k].type)]
  <2>1. Values(Shown(r), OutputSchema) = [k \in DOMAIN os |-> GetValue(Serialize(v, os), k, os)]
    BY <1>10, <1>15 DEF Values
  <2> QED BY <1>12, <1>17, <2>1
<1>19. PICK x : x = Expected
  OBVIOUS
<1>20. x = [q \in DOMAIN t.given |-> [k \in DOMAIN p |-> Keep(t.given[q][IndexOf(p[k])], os[k].type)]]
  BY <1>1, <1>10, <1>19 DEF Expected
<1>21. x[r] = [k \in DOMAIN p |-> Keep(g[IndexOf(p[k])], os[k].type)]
  BY <1>3, <1>4, <1>20
<1>22. IsSeq(x) /\ Len(x) = Len(ScanRows)
  <2>1. x = [q \in DOMAIN t.given |-> x[q]]
    BY <1>20
  <2>2. IsSeq(t.given) /\ Len(t.rows) = Len(t.given)
    BY <1>2 DEF IsTable, Kept
  <2>3. IsSeq(x) /\ Len(x) = Len(t.given)
    BY <2>1, <2>2, MapIsSeq
  <2> QED BY <1>3, <2>2, <2>3
<1> QED BY <1>18, <1>19, <1>21, <1>22

\* Reading back the r-th row of a SHOW TABLES.
LEMMA ShownRow ==
  ASSUME Inv, Typed, query.kind = "show", NEW r \in DOMAIN ScanRows
  PROVE  /\ IsSeq(Expected) /\ Len(Expected) = Len(ScanRows)
         /\ Values(Shown(r), OutputSchema) = Expected[r]
<1>1. PICK names : names = MasterNames
  OBVIOUS
<1>2. IsSeq(names) /\ \A i \in DOMAIN names : names[i] # Empty
  BY <1>1, NamesFacts
<1>3. PICK rows, e : rows = ScanRows /\ e = Expected
  OBVIOUS
<1>4. rows = [i \in DOMAIN names |-> MasterRow(names[i])]
  BY <1>1, <1>3 DEF ScanRows
<1>5. e = [i \in DOMAIN names |-> <<Keep(NameValue(names[i]), "CHAR")>>]
  BY <1>1, <1>3 DEF Expected
<1>6. Len(rows) = Len(names) /\ IsSeq(e) /\ Len(e) = Len(names)
  <2>1. rows = [i \in DOMAIN names |-> rows[i]]
    BY <1>4
  <2>2. e = [i \in DOMAIN names |-> e[i]]
    BY <1>5
  <2> QED BY <1>2, <2>1, <2>2, MapIsSeq
<1>7. PICK n : n = names[r]
  OBVIOUS
<1>8. n # Empty /\ rows[r] = MasterRow(n) /\ e[r] = <<Keep(NameValue(n), "CHAR")>>
  <2>1. r \in DOMAIN names
    BY <1>3, <1>4
  <2> QED BY <1>2, <1>4, <1>5, <1>7, <2>1
<1>9. PICK k, sc : k = Keep(NameValue(n), "CHAR") /\ sc = ShownColumns
  OBVIOUS
<1>10. Shown(r) = Serialize(<<k>>, sc)
  <2>1. Shown(r) = Serialize(<<GetValue(MasterRow(n), 2, MasterTables)>>, ShownColumns)
    BY <1>3, <1>8 DEF Shown, Project, OutputSchema
  <2> QED BY <1>8, <1>9, <2>1, MasterFacts
<1>11. DOMAIN sc = 1 .. 1 /\ GetValue(Serialize(<<k>>, sc), 1, sc) = k
  BY <1>8, <1>9, MasterFacts
<1>12. Values(Shown(r), OutputSchema) = [i \in 1 .. 1 |-> GetValue(Serialize(<<k>>, sc), i, sc)]
  BY <1>9, <1>10, <1>11 DEF Values, OutputSchema
<1>13. \A i \in 1 .. 1 : i = 1
  OBVIOUS
<1>14. PICK w : w = [i \in 1 .. 1 |-> GetValue(Serialize(<<k>>, sc), i, sc)]
  OBVIOUS
<1>15. w = [i \in 1 .. 1 |-> k]
  BY <1>11, <1>13, <1>14
<1>16. w = <<k>>
  BY <1>15
<1> QED BY <1>3, <1>6, <1>8, <1>9, <1>12, <1>14, <1>16

\* However many tables and rows there are, whatever columns are asked for and
\* wherever the scan broke off: a SELECT or SHOW TABLES that is answered with
\* success gives, read back from its bytes, what was inserted, each row once
\* and in order.
THEOREM SelectsAreTables == Spec => []SelectIsTable
<1>1. Inv /\ Typed /\ Selecting => SelectIsTable
  <2> SUFFICES ASSUME Inv, Typed, Selecting, stage = "idle", result.success,
                      query.kind \in {"select", "show"}
               PROVE  LET answer == [r \in DOMAIN result.data |-> Values(result.data[r], OutputSchema)]
                      IN  /\ IsPrefix(answer, Expected)
                          /\ cursor > Len(ScanRows) => answer = Expected
    BY DEF SelectIsTable, Answered
  <2>1. ColumnsFound /\ Given(result.data)
    BY DEF Selecting
  <2>2. PICK data : data = result.data
    OBVIOUS
  <2>3. /\ IsSeq(data) /\ Len(data) = cursor - 1 /\ cursor \in 1 .. Len(ScanRows) + 1
        /\ DOMAIN data = 1 .. Len(data) /\ Len(data) \in Nat
        /\ \A r \in 1 .. Len(data) : data[r] = Shown(r)
    BY <2>1, <2>2, SeqFacts DEF Given
  <2>4. IsSeq(ScanRows) /\ Len(ScanRows) \in Nat /\ DOMAIN ScanRows = 1 .. Len(ScanRows)
    BY <2>1, ScanRowsFacts, SeqFacts
  <2>5. ASSUME NEW r \in DOMAIN ScanRows
        PROVE  /\ IsSeq(Expected) /\ Len(Expected) = Len(ScanRows)
               /\ Values(Shown(r), OutputSchema) = Expected[r]
    BY <2>1, SelectedRow, ShownRow
  <2>6. IsSeq(Expected) /\ Len(Expected) = Len(ScanRows)
    <3>1. CASE query.kind = "select"
      <4>1. PICK t : t = tables[TableRef]
        OBVIOUS
      <4>2. IsSeq(t.given) /\ Len(t.given) = Len(t.rows) /\ ScanRows = t.rows
        <5>1. TableRef \in DOMAIN tables
          BY <2>1, <3>1, Ref DEF Inv, ColumnsFound
        <5> QED BY <3>1, <4>1, <5>1 DEF Inv, Typed, Tables, IsTable, Kept, ScanRows
      <4>3. PICK e : e = Expected
        OBVIOUS
      <4>4. e = [r \in DOMAIN t.given |-> e[r]]
        <5>1. e = [r \in DOMAIN t.given |-> [k \in DOMAIN Projection |->
                     Keep(t.given[r][IndexOf(Projection[k])], OutputSchema[k].type)]]
          BY <3>1, <4>1, <4>3 DEF Expected
        <5> QED BY <5>1
      <4>5. IsSeq(e) /\ Len(e) = Len(t.given)
        BY <4>2, <4>4, MapIsSeq
      <4> QED BY <4>2, <4>3, <4>5
    <3>2. CASE query.kind = "show"
      <4>1. 1 \in DOMAIN ScanRows \/ Len(ScanRows) = 0
        BY <2>4
      <4>2. Len(ScanRows) # 0
        <5>1. 1 \in DOMAIN MasterNames
          BY NamesFacts
        <5>2. 1 \in DOMAIN ScanRows
          BY <3>2, <5>1 DEF ScanRows
        <5> QED BY <2>4, <5>2
      <4> QED BY <2>5, <4>1, <4>2
    <3> QED BY <3>1, <3>2
  <2>7. PICK os, e : os = OutputSchema /\ e = Expected
    OBVIOUS
  <2>8. PICK answer : answer = [r \in DOMAIN data |-> Values(data[r], os)]
    OBVIOUS
  <2>9. IsSeq(answer) /\ Len(answer) = Len(data)
    <3>1. answer = [r \in DOMAIN data |-> answer[r]]
      BY <2>8
    <3> QED BY <2>3, <3>1, MapIsSeq
  <2>10. ASSUME NEW r \in 1 .. Len(answer) PROVE answer[r] = e[r]
    <3>1. r \in DOMAIN data /\ r \in DOMAIN ScanRows
      BY <2>3, <2>4, <2>9
    <3>2. answer[r] = Values(Shown(r), os)
      BY <2>3, <2>8, <2>9, <3>1
    <3>3. Values(Shown(r), os) = e[r]
      BY <2>5, <2>7, <3>1
    <3> QED BY <3>2, <3>3
  <2>11. Len(answer) <= Len(e) /\ (cursor > Len(ScanRows) => Len(answer) = Len(e))
    BY <2>3, <2>4, <2>6, <2>7, <2>9
  <2>12. IsSeq(e)
    BY <2>6, <2>7
  <2>13. IsPrefix(answer, e) /\ (Len(answer) = Len(e) => answer = e)
    BY <2>9, <2>10, <2>11, <2>12, PrefixOf
  <2> QED BY <2>2, <2>7, <2>8, <2>11, <2>13
<1> QED BY <1>1, SelectInduction, PTL
=============================================================================
