------------------------------- MODULE Tuple -------------------------------
(***************************************************************************)
(* The bytes of a row: src/storage/tuple.cpp, the columns and schemas of   *)
(* src/catalog/schema.h and the conversion of literals in                  *)
(* src/table/table_heap.cpp.                                               *)
(*                                                                         *)
(* A byte is a pair.  <<c, 0>> is the character c; <<v, k>> is the k-th    *)
(* byte of the number v.  A literal is a record that tells for each type   *)
(* what the conversion makes of it: the characters for CHAR, the number    *)
(* that stoi or stof reads for INT and FLOAT, Refused where they throw.    *)
(***************************************************************************)
EXTENDS Integers, Sequences, SequencesExt

CONSTANTS
  Length,      \* GetLength: the bytes of a column, a function of its type
  HeaderSize   \* the bytes of the size in front of the columns

ColumnType == {"INT", "FLOAT", "CHAR"}

ASSUME TupleAssumption ==
  /\ Length \in [ColumnType -> Nat \ {0}]
  /\ HeaderSize \in Nat

Refused == "refused"
Empty == ""
Nul == <<Empty, 0>>

\* No character of a literal is the zero byte.
IsLiteral(literal) == literal.CHAR \in Seq(ToSet(literal.CHAR) \ {Empty})

\* A CHAR column has room for all but one of its bytes; what is longer is
\* cut.  The number of an INT or FLOAT column fills it.
Keep(literal, type) ==
  IF type = "CHAR"
  THEN [i \in 1..Min({Len(literal.CHAR), Length.CHAR - 1}) |-> <<literal.CHAR[i], 0>>]
  ELSE [k \in 1..Length[type] |-> <<literal[type], k>>]

\* Mutation: the next column begins where the characters end.
NotFilled(bytes, n) == bytes

ZeroFilled(bytes, n) == bytes \o [k \in 1..(n - Len(bytes)) |-> Nul]

\* Behind the last column; end[i] is behind the i-th.
TotalSize(schema) ==
  LET end[i \in 0..Len(schema)] ==
        IF i = 0 THEN HeaderSize ELSE end[i - 1] + Length[schema[i].type]
  IN  end[Len(schema)]

\* The size, then one column behind the other.
Serialize(values, schema) ==
  LET size == TotalSize(schema)
      body == [i \in DOMAIN schema |-> ZeroFilled(values[i], Length[schema[i].type])]
  IN  [k \in 1..HeaderSize |-> <<"size", size>>] \o FlattenSeq(body)

\* Mutation: the size in front of the columns is not skipped.
OffsetWithoutHeader(i, schema) == TotalSize(SubSeq(schema, 1, i - 1)) - HeaderSize

Offset(i, schema) == TotalSize(SubSeq(schema, 1, i - 1))

\* Readers take a CHAR up to its first zero byte and the others whole.
GetValue(bytes, i, schema) ==
  LET rest == SubSeq(bytes, Offset(i, schema) + 1, Len(bytes))
  IN  IF schema[i].type = "CHAR"
      THEN SubSeq(rest, 1, SelectInSeq(Append(rest, Nul), LAMBDA b : b = Nul) - 1)
      ELSE SubSeq(rest, 1, Length[schema[i].type])

Values(bytes, schema) == [i \in DOMAIN schema |-> GetValue(bytes, i, schema)]

\* InsertTuple of a sequence of literals.
FromLiterals(literals, schema) ==
  Serialize([i \in DOMAIN schema |-> Keep(literals[i], schema[i].type)], schema)
=============================================================================
