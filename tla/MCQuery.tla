------------------------------ MODULE MCQuery ------------------------------
(* Instances of Query for TLC: two table names, two schemas whose columns  *)
(* lie at different places, three literals, and statements that are good   *)
(* or bad in one way each.                                                 *)
EXTENDS Query

Sizes == [INT |-> 2, FLOAT |-> 1, CHAR |-> 3]

\* 3.7, of which INT keeps 3 and CHAR two characters; ab; an empty string.
number == [INT |-> "3", FLOAT |-> "3.7", CHAR |-> <<"3", ".", "7">>]
word == [INT |-> Refused, FLOAT |-> Refused, CHAR |-> <<"a", "b">>]
empty == [INT |-> Refused, FLOAT |-> Refused, CHAR |-> <<>>]

Column(n, t) == [name |-> n, type |-> t]
NumberAndName == <<Column("id", "INT"), Column("name", "CHAR")>>
NameAndSize == <<Column("name", "CHAR"), Column("size", "FLOAT"), Column("id", "INT")>>

Select(n, cs) == [kind |-> "select", table |-> n, columns |-> cs]
Insert(n, vs) == [kind |-> "insert", table |-> n, values |-> vs]
Bulk(n, sets) == [kind |-> "bulk", table |-> n, sets |-> sets]
Create(n, cs) == [kind |-> "create", table |-> n, columns |-> cs]

Statements ==
  {Select("t", cs) : cs \in {<<>>, <<"name", "id">>, <<"id">>, <<"name", "name">>, <<"age">>}}
  \cup {Select("u", cs) : cs \in {<<>>, <<"size", "name">>}}
  \cup {Insert("t", vs) : vs \in {<<number, word>>, <<number, empty>>, <<word, word>>, <<number>>}}
  \cup {Insert("u", <<number, number, number>>)}
  \cup {Bulk("t", sets) : sets \in {<<<<number, word>>, <<number, number>>>>,
                                    <<<<number, word>>, <<word, word>>>>, <<>>}}
  \cup {Create("t", cs) : cs \in {NumberAndName, NumberAndName \o NumberAndName, <<>>}}
  \cup {Create("u", NameAndSize)}
  \cup {[kind |-> "drop", table |-> "t"], [kind |-> "show"]}
=============================================================================
