------------------------------ MODULE MCParser ------------------------------
(* Instances of Parser for TLC: the texts of statements with up to three   *)
(* columns and up to three rows and of every sequence of tokens that is    *)
(* one token away from one of them, and all short texts.                   *)
EXTENDS Parser

Said(type, named, columns, sets) ==
  [type |-> type, named |-> named, columns |-> columns, sets |-> sets]

StatementsDef ==
  {Said(t, FALSE, <<>>, <<>>) : t \in {"SHOW_DATABASES", "SHOW_TABLES", "HELP", "EXIT"}}
  \cup {Said(t, TRUE, <<>>, <<>>) :
          t \in {"USE_DATABASE", "DROP_DATABASE", "DROP_TABLE", "CREATE_DATABASE"}}
  \cup {Said("CREATE_TABLE", TRUE, cs, <<>>) : cs \in BoundedSeq(BOOLEAN, 3)}
  \cup {Said("SELECT", TRUE, [i \in 1 .. n |-> FALSE], <<>>) : n \in 0 .. 3}
  \cup {Said("INSERT", TRUE, <<>>, <<n>>) : n \in 0 .. 3}
  \cup {Said("INSERT_BULK", TRUE, <<>>, ns) : ns \in {<<1, 1>>, <<2, 1>>, <<0, 2, 1>>}}

TokenType ==
  {"show", "use", "drop", "create", "select", "insert", "help", "exit",
   "database", "databases", "table", "tables", "identifier", "literal",
   "(", ")", ",", ";", "*", "type", "primary", "key",
   "from", "into", "values", "other"}

\* One token is left out, is another, or is put in.
EditsOf(ts) ==
  {RemoveAt(ts, i) : i \in DOMAIN ts}
  \cup {ReplaceAt(ts, i, t) : i \in DOMAIN ts, t \in TokenType}
  \cup {InsertAt(ts, i, t) : i \in 1 .. Len(ts) + 1, t \in TokenType}

Queries == UNION {EditsOf(Written(s)) : s \in Statements}

\* How a token is written here, and where a blank must part two of them.
Spelled(t) ==
  CASE t = "identifier" -> <<"a", "0">>
    [] t = "literal" -> <<"-", "5", ".", "0">>
    [] t = "type" -> <<"int">>
    [] t = "other" -> <<"=">>
    [] OTHER -> <<t>>

TextOf(ts) ==
  FlattenSeq([k \in DOMAIN ts |->
    Spelled(ts[k]) \o
      IF k < Len(ts) /\ {ts[k], ts[k + 1]} \cap (Mark \cup {"other"}) = {} THEN <<" ">> ELSE <<>>])

TextsDef ==
  {TextOf(ts) : ts \in Queries}
  \cup BoundedSeq({"0", ".", "-", "a"}, 6)
  \cup BoundedSeq({" ", "(", "=", "5", ".", "-", "'", "a", "exit", "?"}, 4)
=============================================================================
