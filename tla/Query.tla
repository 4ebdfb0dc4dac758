------------------------------- MODULE Query -------------------------------
(***************************************************************************)
(* The way of a statement through the checks of src/binder/binder.cpp, the *)
(* plan of src/planner/planner.cpp, the operators of                       *)
(* src/executor/operators.h and the driver that pulls from them in         *)
(* src/executor/executor.cpp.                                              *)
(*                                                                         *)
(* A call of Next of the root is a step.  A table is its name, the columns *)
(* the catalog has of it and the bytes of its rows; TableHeap and Catalog  *)
(* tell when an insertion is refused or throws and what restarts do.       *)
(***************************************************************************)
EXTENDS Tuple, FiniteSets

CONSTANTS
  Queries,       \* statements users give
  HeapMayFail,   \* the heap may refuse or throw, and a scan may break off
  MaxRows,       \* bound: INSERT starts with no more rows in all tables
  MaxTables      \* bound: CREATE TABLE starts with fewer tables

\* What the parser makes of the lists of a statement.
IsSeq(s) == s \in Seq(ToSet(s))
AreLiterals(vs) == IsSeq(vs) /\ \A i \in DOMAIN vs : IsLiteral(vs[i])
AreColumns(cs) == IsSeq(cs) /\ \A i \in DOMAIN cs : cs[i].type \in ColumnType

ASSUME QueryAssumption ==
  /\ HeapMayFail \in BOOLEAN /\ MaxRows \in Nat /\ MaxTables \in Nat
  /\ \A q \in Queries :
       /\ q.kind = "insert" => AreLiterals(q.values)
       /\ q.kind = "bulk" => IsSeq(q.sets) /\ \A i \in DOMAIN q.sets : AreLiterals(q.sets[i])
       /\ q.kind = "select" => IsSeq(q.columns)
       /\ q.kind = "create" => q.table # Empty /\ AreColumns(q.columns)

VARIABLES
  tables,     \* the catalog's tables, [name, columns, rows, given];
              \* given is ghost: the literals that were inserted
  query,      \* the statement, or NoQuery
  stage,      \* "idle", "bind", "open", "next" or "close"
  cursor,     \* curr_iterator_ of SeqScan; current_set_ of BulkInsert
  out,        \* OperatorOutput of the driver
  tuple_set,  \* rows collected so far
  result,     \* what the last statement was answered
  before      \* ghost: the tables when the statement started

vars == <<tables, query, stage, cursor, out, tuple_set, result, before>>

NoQuery == [kind |-> "none"]

\* out is uninitialized until an operator sets it.
OutputType == {"TUPLE", "MESSAGE", "other"}
Message(ok) == [type |-> "MESSAGE", ok |-> ok, row |-> <<>>]
TupleOutput(row) == [type |-> "TUPLE", ok |-> TRUE, row |-> row]
Garbage == {Message(TRUE), Message(FALSE), TupleOutput(<<>>),
            [type |-> "other", ok |-> TRUE, row |-> <<>>]}

Success(data) == [success |-> TRUE, data |-> data]
Failure == [success |-> FALSE, data |-> <<>>]

Init ==
  /\ tables = <<>>
  /\ query = NoQuery
  /\ stage = "idle"
  /\ cursor = 1
  /\ out = Message(TRUE)
  /\ tuple_set = <<>>
  /\ result = Success(<<>>)
  /\ before = <<>>

\* A statement begins: nothing of the last one's executor is left.
Begin(q) ==
  /\ stage = "idle"
  /\ q.kind \in {"insert", "bulk"} =>
       FoldLeft(LAMBDA n, t : n + Len(t.rows), 0, tables) <= MaxRows   \* bound
  /\ q.kind = "create" => Len(tables) < MaxTables                     \* bound
  /\ query' = q
  /\ stage' = "bind"
  /\ cursor' = 1
  /\ out' = Message(TRUE)
  /\ tuple_set' = <<>>
  /\ result' = Success(<<>>)
  /\ before' = tables
  /\ UNCHANGED tables

Answer(r) == stage' = "idle" /\ result' = r

-----------------------------------------------------------------------------
(* Binder::Bind and Planner::Plan                                          *)

Named(n) == {i \in DOMAIN tables : tables[i].name = n}
Exists == Named(query.table) # {}
TableRef == CHOOSE i \in Named(query.table) : \A j \in Named(query.table) : i <= j
Columns == tables[TableRef].columns

NameSet(columns) == {columns[i].name : i \in DOMAIN columns}
IndexOf(n) == CHOOSE i \in DOMAIN Columns : Columns[i].name = n

\* The columns of a SELECT; <<>> stands for the asterisk.
Projection ==
  IF query.columns = <<>> THEN [i \in DOMAIN Columns |-> Columns[i].name] ELSE query.columns

\* As many values as columns, each a literal of its column's type.
ValuesFit(vs) ==
  /\ Len(vs) = Len(Columns)
  /\ \A i \in DOMAIN vs : Columns[i].type # "CHAR" => vs[i][Columns[i].type] # Refused

Binds ==
  \/ query.kind = "select" /\ Exists /\ ToSet(Projection) \subseteq NameSet(Columns)
  \/ query.kind = "insert" /\ Exists /\ ValuesFit(query.values)
  \/ /\ query.kind = "bulk" /\ Exists
     /\ query.sets # <<>> /\ \A i \in DOMAIN query.sets : ValuesFit(query.sets[i])
  \/ /\ query.kind = "create" /\ ~Exists
     /\ query.columns # <<>> /\ Cardinality(NameSet(query.columns)) = Len(query.columns)
  \/ query.kind = "drop" /\ Exists
  \/ query.kind = "show"

BindFails ==
  /\ stage = "bind"
  /\ ~Binds
  /\ Answer(Failure)
  /\ UNCHANGED <<tables, query, cursor, out, tuple_set, before>>

\* What is on the stack where the driver declares out.
Bind ==
  /\ stage = "bind"
  /\ Binds
  /\ stage' = "open"
  /\ out' \in Garbage
  /\ UNCHANGED <<tables, query, cursor, tuple_set, result, before>>

-----------------------------------------------------------------------------
(* ExecutePlan: Open                                                       *)

\* Mutation: the first row is left out.
OpenPastFirst ==
  /\ stage = "open"
  /\ stage' = "next"
  /\ cursor' = 2
  /\ UNCHANGED <<tables, query, out, tuple_set, result, before>>

Open ==
  /\ stage = "open"
  /\ stage' = "next"
  /\ cursor' = 1
  /\ UNCHANGED <<tables, query, out, tuple_set, result, before>>

\* SeqScan fetches the first page when it is opened.
OpenThrows ==
  /\ stage = "open"
  /\ HeapMayFail /\ query.kind \in {"select", "show"}
  /\ Answer(Failure)
  /\ UNCHANGED <<tables, query, cursor, out, tuple_set, before>>

-----------------------------------------------------------------------------
(* ExecutePlan: one round of the loop around Next                          *)

\* Next returned true, with o in out: a tuple is kept, a message ends the
\* statement, and anything else is passed over.
Take(o) ==
  /\ out' = o
  /\ \/ /\ o.type = "TUPLE"
        /\ tuple_set' = Append(tuple_set, o.row)
        /\ UNCHANGED <<stage, result>>
     \/ /\ o.type = "MESSAGE"
        /\ Answer([success |-> o.ok, data |-> <<>>])
        /\ UNCHANGED tuple_set
     \/ /\ o.type = "other"
        /\ UNCHANGED <<stage, result, tuple_set>>

\* Mutation: the end of the rows is not noticed.
NeverExhausted == UNCHANGED <<stage, out, tuple_set, result>>

\* Next returned false.
Exhausted == stage' = "close" /\ UNCHANGED <<out, tuple_set, result>>

NextThrows ==
  /\ Answer(Failure)
  /\ UNCHANGED <<cursor, out, tuple_set>>

InNext(kind) == stage = "next" /\ query.kind = kind

\* The columns of master_tables that SHOW TABLES steps over and reads; the
\* others lie behind them.  A name is taken for one character.
MasterTables == <<[name |-> "table_id", type |-> "INT"], [name |-> "table_name", type |-> "CHAR"]>>
ShownColumns == <<[name |-> "table_name", type |-> "CHAR"]>>
NameValue(n) == [CHAR |-> <<n>>]
MasterRow(n) == FromLiterals(<<[INT |-> "id"], NameValue(n)>>, MasterTables)
MasterNames == <<"master_tables", "master_columns">> \o [i \in DOMAIN tables |-> tables[i].name]

\* What SeqScan goes through, and what Projection or ShowTables makes of a row.
ScanRows ==
  IF query.kind = "select" THEN tables[TableRef].rows
  ELSE [i \in DOMAIN MasterNames |-> MasterRow(MasterNames[i])]

OutputSchema ==
  IF query.kind = "select"
  THEN [k \in DOMAIN Projection |-> Columns[IndexOf(Projection[k])]]
  ELSE ShownColumns

Project(row) ==
  LET values == IF query.kind = "select"
                THEN [k \in DOMAIN Projection |-> GetValue(row, IndexOf(Projection[k]), Columns)]
                ELSE <<GetValue(row, 2, MasterTables)>>
  IN  Serialize(values, OutputSchema)

\* A schema takes no name twice.
AddsColumns == query.kind = "select" => IsInjective(Projection)

InScan == InNext("select") \/ InNext("show")

NextRow ==
  /\ InScan
  /\ \/ /\ cursor <= Len(ScanRows) /\ AddsColumns
        /\ \E row \in {ScanRows[cursor]} : \E o \in {TupleOutput(Project(row))} : Take(o)
        /\ cursor' = cursor + 1
     \/ /\ cursor > Len(ScanRows) \/ HeapMayFail
        /\ Exhausted
        /\ UNCHANGED cursor
  /\ UNCHANGED <<tables, query, before>>

\* The projection's schema takes no column twice; a fetch may throw.
NextRowThrows ==
  /\ InScan
  /\ cursor <= Len(ScanRows)
  /\ HeapMayFail \/ ~AddsColumns
  /\ NextThrows
  /\ UNCHANGED <<tables, query, before>>

InsertTuple(vs) ==
  LET t == tables[TableRef]
  IN  tables' = [tables EXCEPT ![TableRef] =
                   [t EXCEPT !.rows = Append(t.rows, FromLiterals(vs, Columns)),
                             !.given = Append(t.given, vs)]]

NextInsert ==
  /\ InNext("insert")
  /\ \/ InsertTuple(query.values) /\ Take(Message(TRUE))
     \/ HeapMayFail /\ UNCHANGED tables /\ Take(Message(FALSE))
  /\ UNCHANGED <<query, cursor, before>>

\* Mutation: a row the heap refuses is passed over.
NextBulkSkips ==
  /\ InNext("bulk")
  /\ \/ /\ cursor <= Len(query.sets)
        /\ \/ InsertTuple(query.sets[cursor])
           \/ HeapMayFail /\ UNCHANGED tables
        /\ cursor' = cursor + 1
        /\ Take(out)
     \/ /\ cursor > Len(query.sets)
        /\ Take(Message(TRUE))
        /\ cursor' = cursor + 1
        /\ UNCHANGED tables
  /\ UNCHANGED <<query, before>>

\* A row is inserted and Next returns true without setting out, so that the
\* driver looks at what was there; behind the last row comes the message.
NextBulk ==
  /\ InNext("bulk")
  /\ \/ /\ cursor <= Len(query.sets)
        /\ InsertTuple(query.sets[cursor])
        /\ cursor' = cursor + 1
        /\ Take(out)
     \/ /\ cursor <= Len(query.sets) /\ HeapMayFail
        /\ Take(Message(FALSE))
        /\ UNCHANGED <<tables, cursor>>
     \/ /\ cursor > Len(query.sets)
        /\ Take(Message(TRUE))
        /\ cursor' = cursor + 1
        /\ UNCHANGED tables
  /\ UNCHANGED <<query, before>>

NextInsertThrows ==
  /\ stage = "next" /\ query.kind \in {"insert", "bulk"}
  /\ query.kind = "bulk" => cursor <= Len(query.sets)
  /\ HeapMayFail
  /\ NextThrows
  /\ UNCHANGED <<tables, query, before>>

-----------------------------------------------------------------------------
(* CREATE TABLE, DROP TABLE and the catalog                                *)

\* The columns of the statement that are among those of stored.
StoredColumns(stored) ==
  FlattenSeq([i \in DOMAIN query.columns |->
                IF query.columns[i] \in stored THEN <<query.columns[i]>> ELSE <<>>])

\* The rows in master_tables and master_columns of a table, of which the
\* heap took those of the columns in stored, and the table's own if named.
StoreTable(named, stored) ==
  tables' = IF named
            THEN Append(tables, [name |-> query.table, rows |-> <<>>, given |-> <<>>,
                                 columns |-> StoredColumns(stored)])
            ELSE tables

Stored == IF HeapMayFail THEN SUBSET ToSet(query.columns) ELSE {ToSet(query.columns)}

\* Mutation: no status is looked at.
StatusIgnored(stored) == TRUE

\* status is overwritten by each insertion: the last one's decides.
Status(stored) == Last(query.columns) \in stored

\* The executor sets a message and returns false, so that the loop ends.
NextCreate ==
  /\ InNext("create")
  /\ \E named \in {TRUE, ~HeapMayFail}, stored \in Stored :
       Status(stored) /\ StoreTable(named, stored)
  /\ out' = Message(TRUE)
  /\ stage' = "close"
  /\ UNCHANGED <<query, cursor, tuple_set, result, before>>

NextCreateThrows ==
  /\ InNext("create") /\ HeapMayFail
  /\ \E named \in BOOLEAN, stored \in Stored : ~Status(stored) /\ StoreTable(named, stored)
  /\ NextThrows
  /\ UNCHANGED <<query, before>>

NextDrop ==
  /\ InNext("drop")
  /\ \/ tables' = RemoveAt(tables, TableRef) /\ Take(Message(TRUE))
     \/ HeapMayFail /\ UNCHANGED tables /\ Take(Message(FALSE))
  /\ UNCHANGED <<query, cursor, before>>

\* The table's row is deleted first, and then the search for its columns
\* may throw.
NextDropThrows ==
  /\ InNext("drop") /\ HeapMayFail
  /\ tables' \in {tables, RemoveAt(tables, TableRef)}
  /\ NextThrows
  /\ UNCHANGED <<query, before>>

-----------------------------------------------------------------------------
(* ExecutePlan: Close                                                      *)

Close ==
  /\ stage = "close"
  /\ Answer(Success(tuple_set))
  /\ UNCHANGED <<tables, query, cursor, out, tuple_set, before>>

-----------------------------------------------------------------------------
Step ==
  \/ BindFails
  \/ Bind
  \/ Open
  \/ OpenThrows
  \/ NextRow
  \/ NextRowThrows
  \/ NextInsert
  \/ NextBulk
  \/ NextInsertThrows
  \/ NextCreate
  \/ NextCreateThrows
  \/ NextDrop
  \/ NextDropThrows
  \/ Close

Next == (\E q \in Queries : Begin(q)) \/ Step

Spec == Init /\ [][Next]_vars

\* ExecutePlan is a loop of one function.
FairSpec == Spec /\ WF_vars(Step)

-----------------------------------------------------------------------------
(* Properties                                                              *)

Answered(kind) == stage = "idle" /\ query.kind = kind

\* The type invariant: the rows of a table have its columns' size, and there
\* is one for each row that was given.
TypeOK ==
  /\ \A i \in DOMAIN tables : LET t == tables[i] IN
       /\ Len(t.rows) = Len(t.given)
       /\ \A k \in DOMAIN t.rows : Len(t.rows[k]) = TotalSize(t.columns)
  /\ query \in Queries \cup {NoQuery}
  /\ stage \in {"idle", "bind", "open", "next", "close"}
  /\ cursor \in Nat \ {0}
  /\ out.type \in OutputType /\ out.ok \in BOOLEAN
  /\ result.success \in BOOLEAN

\* What a scan is to answer: for each row that was given, what the columns
\* asked for keep of its literals; for SHOW TABLES, each table's name.
Expected ==
  IF query.kind = "select"
  THEN LET given == tables[TableRef].given
       IN  [r \in DOMAIN given |-> [k \in DOMAIN Projection |->
              Keep(given[r][IndexOf(Projection[k])], OutputSchema[k].type)]]
  ELSE [i \in DOMAIN MasterNames |-> <<Keep(NameValue(MasterNames[i]), "CHAR")>>]

\* A SELECT or SHOW TABLES that is answered with data gives, read back from
\* its bytes, what was inserted, each row once and in order; if the scan broke
\* off it gives the first of them.
SelectIsTable ==
  (Answered("select") \/ Answered("show")) /\ result.success =>
    LET answer == [r \in DOMAIN result.data |-> Values(result.data[r], OutputSchema)]
    IN  /\ IsPrefix(answer, Expected)
        /\ cursor > Len(ScanRows) => answer = Expected

\* However a bulk INSERT ends - a refused row, an exception, a stray message -
\* what it leaves is the table before and the first of its rows, in order.
BulkIsPrefix ==
  Answered("bulk") /\ Exists =>
    LET old == before[TableRef].given
        new == tables[TableRef].given
    IN  /\ IsPrefix(old, new)
        /\ IsPrefix(SubSeq(new, Len(old) + 1, Len(new)), query.sets)

\* The rows of a bulk INSERT answered with success are all there, if what was
\* in the driver's variable did not look like a message.
BulkInsertsAll ==
  [][InNext("bulk") /\ stage' = "idle" /\ result'.success /\ out.type # "MESSAGE"
       => tables'[TableRef].given = before[TableRef].given \o query.sets]_vars

\* A CREATE TABLE answered with success, whatever was refused on the way, has
\* left no table or one that ends with the last column given; one answered
\* with a failure has not left the whole table.
CreateTellsLast ==
  Answered("create") =>
    \A i \in DOMAIN tables \ DOMAIN before :
      IF result.success THEN Last(tables[i].columns) = Last(query.columns)
      ELSE tables[i].columns # query.columns

\* Every statement is answered.
QueriesReturn == stage # "idle" ~> stage = "idle"

\* test_suite.cpp:123 expects a bulk INSERT of good rows to be answered with
\* success.
BulkInsertSucceeds == Answered("bulk") /\ Binds => result.success
=============================================================================
