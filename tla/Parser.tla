------------------------------- MODULE Parser -------------------------------
(***************************************************************************)
(* src/parser/parser.cpp: Parser::Parse, from the text of one statement to *)
(* its tokens, as Tokenizer has it, and from these to its syntax tree.     *)
(*                                                                         *)
(* A step is a check of the current token and what follows from it.  The   *)
(* tree has the positions of its names and literals instead of their       *)
(* values.                                                                 *)
(***************************************************************************)
EXTENDS Tokenizer

CONSTANT Statements   \* statements as the reference grammar below writes them

VARIABLES
  current_token,  \* index of the token that is looked at
  ast             \* the tree as far as it is built
                  \* at: the rule that looks; "returned" or "refused"

vars == <<text, pos, tokens, current_token, at, ast>>

\* `name' is 0 in a tree that names no database or table; a column list that
\* is `*' is empty; `sets' are the rows of values.
Tree(type) == [type |-> type, name |-> 0, columns |-> <<>>, sets |-> <<>>]

Init ==
  /\ TokenizeInit
  /\ current_token = 1
  /\ ast = Tree("NONE")

read == <<text, pos, tokens>>

IsAtEnd == current_token > Len(tokens)
Check(type) == ~IsAtEnd /\ tokens[current_token].type = type

Advance == current_token' = current_token + 1 /\ UNCHANGED read
Stay == UNCHANGED <<read, current_token>>

\* The token a rule asks for is there.
Take(rule, type, next) ==
  at = rule /\ Check(type) /\ Advance /\ at' = next

\* A token that may be there and is passed over when it is not.
Skip(rule, type, next) ==
  at = rule /\ ~Check(type) /\ Stay /\ at' = next

-----------------------------------------------------------------------------
(* The first token, and statements without lists.                          *)

\* A rule has the name of the keyword that begins it.
Keyword ==
  {"show", "use", "drop", "create", "select", "insert", "help", "exit"}

First ==
  /\ at = "first" /\ ~IsAtEnd
  /\ tokens[current_token].type \in Keyword
  /\ Advance
  /\ at' = tokens[current_token].type
  /\ UNCHANGED ast

\* Any other word begins a tree that the binder refuses.
InvalidNode ==
  /\ at = "first" /\ ~IsAtEnd
  /\ tokens[current_token].type \notin Keyword
  /\ current_token' = Len(tokens) + 1
  /\ at' = "returned"
  /\ ast' = Tree("INVALID_NODE")
  /\ UNCHANGED read

Show ==
  \/ Take("show", "databases", "returned") /\ ast' = Tree("SHOW_DATABASES")
  \/ Take("show", "tables", "returned") /\ ast' = Tree("SHOW_TABLES")

DatabaseOrTable ==
  /\ \/ Take("drop", "database", "dropDatabase")
     \/ Take("drop", "table", "dropTable")
     \/ Take("create", "database", "createDatabase")
     \/ Take("create", "table", "createTable")
  /\ UNCHANGED ast

\* Rules that end with a name.
TypeOf ==
  [use |-> "USE_DATABASE", dropDatabase |-> "DROP_DATABASE",
   dropTable |-> "DROP_TABLE", createDatabase |-> "CREATE_DATABASE"]

Name ==
  /\ at \in DOMAIN TypeOf
  /\ Take(at, "identifier", "returned")
  /\ ast' = [Tree(TypeOf[at]) EXCEPT !.name = current_token]

\* A semicolon is allowed; only these two rules look at what follows.
HelpOrExit ==
  /\ at \in {"help", "exit"}
  /\ IF Check(";") THEN Advance ELSE Stay
  /\ at' = "end"
  /\ ast' = Tree(IF at = "help" THEN "HELP" ELSE "EXIT")

End ==
  /\ at = "end" /\ IsAtEnd
  /\ at' = "returned"
  /\ UNCHANGED <<read, current_token, ast>>

-----------------------------------------------------------------------------
(* CREATE TABLE                                                            *)

CreateTable ==
  \/ /\ Take("createTable", "identifier", "createParen")
     /\ ast' = [Tree("CREATE_TABLE") EXCEPT !.name = current_token]
  \/ Take("createParen", "(", "columns") /\ UNCHANGED ast

\* The head of the loop.  A token that begins no column is left where it is.
Columns ==
  \/ Take("columns", "identifier", "type") /\ UNCHANGED ast
  \/ Take("columns", ")", "returned") /\ UNCHANGED ast
  \/ /\ at = "columns" /\ ~IsAtEnd
     /\ ~Check("identifier") /\ ~Check(")")
     /\ at' = "separator"
     /\ Stay
     /\ UNCHANGED ast

AddColumn(type, primary) ==
  ast' = [ast EXCEPT !.columns =
            Append(@, [name |-> type - 1, type |-> type, primary |-> primary])]

\* Mutation: PRIMARY alone makes a key.
ColumnDefWithoutKey ==
  \/ Take("type", "type", "constraint") /\ UNCHANGED ast
  \/ Take("constraint", "primary", "separator") /\ AddColumn(current_token - 1, TRUE)
  \/ Skip("constraint", "primary", "separator") /\ AddColumn(current_token - 1, FALSE)

ColumnDef ==
  \/ Take("type", "type", "constraint") /\ UNCHANGED ast
  \/ Take("constraint", "primary", "key") /\ UNCHANGED ast
  \/ Take("key", "key", "separator") /\ AddColumn(current_token - 2, TRUE)
  \/ Skip("constraint", "primary", "separator") /\ AddColumn(current_token - 1, FALSE)

\* Mutation: the comma is looked at and not taken.
CommaLeft ==
  /\ at = "separator"
  /\ at' = "columns"
  /\ Stay
  /\ UNCHANGED ast

Comma ==
  /\ \/ Take("separator", ",", "columns")
     \/ Skip("separator", ",", "columns")
  /\ UNCHANGED ast

-----------------------------------------------------------------------------
(* SELECT                                                                  *)

\* A comma before FROM is passed over.
Select ==
  \/ Take("select", "*", "from") /\ ast' = Tree("SELECT")
  \/ /\ at = "select"
     /\ Take("select", "identifier", "nextColumn")
     /\ ast' = [Tree("SELECT") EXCEPT !.columns = <<current_token>>]
  \/ Take("nextColumn", ",", "column") /\ UNCHANGED ast
  \/ Skip("nextColumn", ",", "from") /\ UNCHANGED ast
  \/ /\ Take("column", "identifier", "nextColumn")
     /\ ast' = [ast EXCEPT !.columns = Append(@, current_token)]
  \/ Skip("column", "identifier", "from") /\ UNCHANGED ast

From ==
  \/ Take("from", "from", "fromTable") /\ UNCHANGED ast
  \/ /\ Take("fromTable", "identifier", "returned")
     /\ ast' = [ast EXCEPT !.name = current_token]

-----------------------------------------------------------------------------
(* INSERT                                                                  *)

Insert ==
  \/ Take("insert", "into", "into") /\ UNCHANGED ast
  \/ /\ Take("into", "identifier", "values")
     /\ ast' = [Tree("INSERT") EXCEPT !.name = current_token]
  \/ Take("values", "values", "set") /\ UNCHANGED ast

\* A row of values; commas between them are optional.
ValueSet ==
  \/ /\ Take("set", "(", "literals")
     /\ ast' = [ast EXCEPT !.sets = Append(@, <<>>)]
  \/ /\ Take("literals", "literal", "literalComma")
     /\ ast' = [ast EXCEPT !.sets[Len(ast.sets)] = Append(@, current_token)]
  \/ Take("literalComma", ",", "literals") /\ UNCHANGED ast
  \/ Skip("literalComma", ",", "literals") /\ UNCHANGED ast
  \/ Take("literals", ")", "nextSet") /\ UNCHANGED ast

\* Mutation: a second row makes no bulk INSERT.
EndInsertPlain ==
  \/ Take("nextSet", ",", "set") /\ UNCHANGED ast
  \/ Skip("nextSet", ",", "returned") /\ UNCHANGED ast

EndInsert ==
  \/ Take("nextSet", ",", "set") /\ UNCHANGED ast
  \/ /\ Skip("nextSet", ",", "returned")
     /\ ast' = [ast EXCEPT !.type =
                  IF Len(ast.sets) = 1 THEN "INSERT" ELSE "INSERT_BULK"]

-----------------------------------------------------------------------------
(* What a rule cannot do without; invalidToken and consume throw.          *)

Needed ==
  [show |-> {"databases", "tables"}, use |-> {"identifier"},
   drop |-> {"database", "table"}, create |-> {"database", "table"},
   dropDatabase |-> {"identifier"}, dropTable |-> {"identifier"},
   createDatabase |-> {"identifier"}, createTable |-> {"identifier"},
   createParen |-> {"("}, type |-> {"type"}, key |-> {"key"},
   select |-> {"*", "identifier"}, from |-> {"from"},
   fromTable |-> {"identifier"}, insert |-> {"into"}, into |-> {"identifier"},
   values |-> {"values"}, set |-> {"("}, literals |-> {"literal", ")"}]

Refuse ==
  /\ \/ at = "first" /\ IsAtEnd
     \/ at = "columns" /\ IsAtEnd
     \/ at = "end" /\ ~IsAtEnd
     \/ at \in DOMAIN Needed /\ \A type \in Needed[at] : ~Check(type)
  /\ at' = "refused"
  /\ UNCHANGED <<read, current_token, ast>>

Next ==
  \/ Tokenize /\ UNCHANGED <<current_token, ast>>
  \/ First
  \/ InvalidNode
  \/ Show
  \/ DatabaseOrTable
  \/ Name
  \/ HelpOrExit
  \/ End
  \/ CreateTable
  \/ Columns
  \/ ColumnDef
  \/ Comma
  \/ Select
  \/ From
  \/ Insert
  \/ ValueSet
  \/ EndInsert
  \/ Refuse

Spec == Init /\ [][Next]_vars

\* Parse is a loop of one function.
FairSpec == Spec /\ WF_vars(Next)

-----------------------------------------------------------------------------
(* The grammar that the README's statements follow, as the way a statement *)
(* is written down.  A statement is the shape of its tree.                 *)

Types(ts) == [k \in DOMAIN ts |-> ts[k].type]

Shape(tree) ==
  [type |-> tree.type, named |-> tree.name # 0,
   columns |-> IF tree.type = "CREATE_TABLE"
               THEN [i \in DOMAIN tree.columns |-> tree.columns[i].primary]
               ELSE [i \in DOMAIN tree.columns |-> FALSE],
   sets |-> [i \in DOMAIN tree.sets |-> Len(tree.sets[i])]]

Listed(parts) ==
  FlattenSeq([i \in DOMAIN parts |->
                IF i = 1 THEN parts[1] ELSE <<",">> \o parts[i]])
InParens(parts) == <<"(">> \o Listed(parts) \o <<")">>

ColumnText(primary) ==
  <<"identifier", "type">> \o IF primary THEN <<"primary", "key">> ELSE <<>>
SetText(n) == InParens([i \in 1 .. n |-> <<"literal">>])

Opening ==
  [SHOW_DATABASES |-> <<"show", "databases">>, SHOW_TABLES |-> <<"show", "tables">>,
   USE_DATABASE |-> <<"use">>, DROP_DATABASE |-> <<"drop", "database">>,
   DROP_TABLE |-> <<"drop", "table">>, CREATE_DATABASE |-> <<"create", "database">>,
   CREATE_TABLE |-> <<"create", "table">>, SELECT |-> <<"select">>,
   INSERT |-> <<"insert", "into">>, INSERT_BULK |-> <<"insert", "into">>,
   HELP |-> <<"help">>, EXIT |-> <<"exit">>]

Written(s) ==
  Opening[s.type] \o
    CASE s.type = "SELECT" ->
           (IF s.columns = <<>> THEN <<"*">>
            ELSE Listed([i \in DOMAIN s.columns |-> <<"identifier">>]))
           \o <<"from", "identifier">>
      [] s.type = "CREATE_TABLE" ->
           <<"identifier">>
           \o InParens([i \in DOMAIN s.columns |-> ColumnText(s.columns[i])])
      [] s.type \in {"INSERT", "INSERT_BULK"} ->
           <<"identifier", "values">>
           \o Listed([i \in DOMAIN s.sets |-> SetText(s.sets[i])])
      [] OTHER -> IF s.named THEN <<"identifier">> ELSE <<>>

\* What a statement of the grammar is: its lists are as long as one likes, and
\* a bulk INSERT has more than one row.
IsStatement(s) ==
  /\ s \in [type : DOMAIN Opening, named : BOOLEAN, columns : Seq(BOOLEAN), sets : Seq(Nat)]
  /\ s.named <=> s.type \notin {"SHOW_DATABASES", "SHOW_TABLES", "HELP", "EXIT"}
  /\ s.columns # <<>> => s.type \in {"CREATE_TABLE", "SELECT"}
  /\ s.type = "SELECT" => \A i \in DOMAIN s.columns : ~s.columns[i]
  /\ CASE s.type = "INSERT" -> Len(s.sets) = 1
       [] s.type = "INSERT_BULK" -> Len(s.sets) > 1
       [] OTHER -> s.sets = <<>>

ASSUME StatementsAssumption == \A s \in Statements : IsStatement(s)

-----------------------------------------------------------------------------
(* Properties                                                              *)

\* A text whose tokens are a statement of the grammar is accepted, and its tree
\* says what it says: the kind of statement, the columns with their keys and
\* the rows with their numbers of values.
UnderstoodAsWritten ==
  at \in {"returned", "refused"} /\ pos > Len(text) =>
    \A s \in Statements :
      Types(tokens) = Written(s) => at = "returned" /\ Shape(ast) = s

Plain(ts) ==
  FlattenSeq([k \in DOMAIN ts |-> IF ts[k] \in {",", ";"} THEN <<>> ELSE <<ts[k]>>])
ColumnNames(tree) ==
  [i \in DOMAIN tree.columns |->
     IF tree.type = "CREATE_TABLE" THEN tree.columns[i].name ELSE tree.columns[i]]
Kept(tree) ==
  IF tree.type = "SELECT" THEN Append(ColumnNames(tree), tree.name)
  ELSE (IF tree.name = 0 THEN <<>> ELSE <<tree.name>>)
         \o ColumnNames(tree) \o FlattenSeq(tree.sets)

\* Whatever else is accepted was, up to the token where Parse stopped, written
\* as the grammar writes it, separators aside; and the tree has the names and
\* literals up to there, all of them and in their order.
AcceptedIsWellFormed ==
  at = "returned" /\ ast.type # "INVALID_NODE" =>
    LET taken == Types(SubSeq(tokens, 1, current_token - 1))
        kept == Kept(ast)
    IN  /\ Plain(taken) = Plain(Written(Shape(ast)))
        /\ \A i \in 2 .. Len(kept) : kept[i - 1] < kept[i]
        /\ ToSet(kept) = {p \in DOMAIN taken : taken[p] \in {"identifier", "literal"}}

\* Parse ends, in a tree or an exception, unless it meets a token inside the
\* parentheses of CREATE TABLE that neither begins nor separates columns.
Stuck ==
  /\ at = "columns" /\ ~IsAtEnd
  /\ tokens[current_token].type \notin {"identifier", ")", ","}
ParsingEnds == <>(at \in {"returned", "refused"} \/ Stuck)
=============================================================================
