------------------------------ MODULE Tokenizer ------------------------------
(***************************************************************************)
(* Parser::tokenize of src/parser/parser.cpp: from the text of a statement *)
(* to its tokens, one token or blank a step.                               *)
(*                                                                         *)
(* A text is a sequence of characters.  A keyword, in whatever case, is    *)
(* one of them and counts as a letter, so that it is a keyword where it    *)
(* stands alone and part of an identifier among other letters or digits.   *)
(* The END token is left out: it is what lies behind the last one.         *)
(***************************************************************************)
EXTENDS Integers, Sequences, SequencesExt, FiniteSetsExt

CONSTANT Texts   \* texts that are parsed

ASSUME TextsAssumption == Texts \subseteq Seq(STRING)

VARIABLES
  text,     \* query
  pos,      \* i: index of the character that is looked at
  tokens,   \* result, a sequence of [type, value]
  at        \* "tokenize" until the text is read; then as Parser has it

Digit == {"0", "5"}
Blank == {" "}
Mark == {"(", ")", ",", "*", ";", "=", "<", ">", "+", "/"}

\* The parser asks for some of the keywords; all types are one to it, and a
\* type of token that no rule asks for is as good as "other".
KeywordType ==
  LET asked == {"show", "use", "drop", "create", "select", "insert", "help", "exit", "database",
                "databases", "table", "tables", "primary", "key", "from", "into", "values"}
      types == {"int", "float", "char"}
      others == {"update", "where", "limit"}
  IN  [k \in asked \cup types \cup others |->
         IF k \in types THEN "type" ELSE IF k \in others THEN "other" ELSE k]
MarkType == [m \in Mark |-> IF m \in {"=", "<", ">", "+", "/"} THEN "other" ELSE m]

Letter == {"a", "_"} \cup DOMAIN KeywordType

Is(k, class) == k \in DOMAIN text /\ text[k] \in class

\* The first index from k on that holds nothing of the class.
RunEnd(k, class) == Min({j \in k..(Len(text) + 1) : ~Is(j, class)})

Slice(from, to) == SubSeq(text, from, to - 1)

\* A token is made of what lies before next, where the loop goes on.
Emit(type, value, next) ==
  /\ tokens' = Append(tokens, [type |-> type, value |-> value])
  /\ pos' = next
  /\ UNCHANGED <<text, at>>

Scanning == at = "tokenize" /\ pos <= Len(text)

TokenizeInit ==
  /\ text \in Texts
  /\ pos = 1
  /\ tokens = <<>>
  /\ at = "tokenize"

SkipBlank ==
  /\ Scanning /\ Is(pos, Blank)
  /\ pos' = pos + 1
  /\ UNCHANGED <<text, tokens, at>>

ScanMark ==
  /\ Scanning /\ Is(pos, Mark)
  /\ Emit(MarkType[text[pos]], <<text[pos]>>, pos + 1)

\* .5 is 0.5.
ScanFraction ==
  /\ Scanning /\ Is(pos, {"."}) /\ Is(pos + 1, Digit)
  /\ LET end == RunEnd(pos + 1, Digit)
     IN  Emit("literal", <<"0">> \o Slice(pos, end), end)

\* -5, -5.5, -5. and -.5; a minus before anything else stands alone.
ScanMinus ==
  /\ Scanning /\ Is(pos, {"-"})
  /\ \/ /\ Is(pos + 1, Digit)
        /\ LET dot == RunEnd(pos + 1, Digit)
               end == IF Is(dot, {"."}) THEN RunEnd(dot + 1, Digit) ELSE dot
           IN  Emit("literal", Slice(pos, end), end)
     \/ /\ Is(pos + 1, {"."})
        /\ LET end == RunEnd(pos + 2, Digit) IN Emit("literal", Slice(pos, end), end)
     \/ /\ ~Is(pos + 1, Digit \cup {"."})
        /\ Emit("other", <<"-">>, pos + 1)

ScanQuoted ==
  /\ Scanning /\ Is(pos, {"'"})
  /\ \E end \in (pos + 1)..Len(text) :
       /\ Is(end, {"'"}) /\ \A k \in (pos + 1)..(end - 1) : ~Is(k, {"'"})
       /\ Emit("literal", Slice(pos + 1, end), end + 1)

\* Mutation: a number takes a dot with nothing behind it.
NumberEndWithDot(k) ==
  LET dot == RunEnd(k, Digit)
  IN  IF Is(dot, {"."}) THEN RunEnd(dot + 1, Digit) ELSE dot

\* A dot belongs to a number if a digit follows, and if it is the first.
NumberEnd(k) ==
  LET dot == RunEnd(k, Digit)
  IN  IF Is(dot, {"."}) /\ Is(dot + 1, Digit) THEN RunEnd(dot + 1, Digit) ELSE dot

ScanNumber ==
  /\ Scanning /\ Is(pos, Digit)
  /\ Emit("literal", Slice(pos, NumberEnd(pos)), NumberEnd(pos))

ScanWord ==
  /\ Scanning /\ Is(pos, Letter)
  /\ LET end == RunEnd(pos, Letter \cup Digit)
         value == Slice(pos, end)
     IN  Emit(IF Len(value) = 1 /\ value[1] \in DOMAIN KeywordType
              THEN KeywordType[value[1]] ELSE "identifier", value, end)

\* An unterminated string, a dot that begins no number, or a character that
\* nothing begins with throws.
Unexpected ==
  /\ Scanning
  /\ \/ Is(pos, {"'"}) /\ \A k \in (pos + 1)..Len(text) : ~Is(k, {"'"})
     \/ Is(pos, {"."}) /\ ~Is(pos + 1, Digit)
     \/ ~Is(pos, Blank \cup Mark \cup {".", "-", "'"} \cup Digit \cup Letter)
  /\ at' = "refused"
  /\ UNCHANGED <<text, pos, tokens>>

EndOfText ==
  /\ at = "tokenize" /\ pos > Len(text)
  /\ at' = "first"
  /\ UNCHANGED <<text, pos, tokens>>

Tokenize ==
  \/ SkipBlank
  \/ ScanMark
  \/ ScanFraction
  \/ ScanMinus
  \/ ScanQuoted
  \/ ScanNumber
  \/ ScanWord
  \/ Unexpected
  \/ EndOfText

-----------------------------------------------------------------------------
(* What the tokens of a text are, without a scan: where no blank stands,   *)
(* the longest piece that is a token.                                      *)

AllIn(s, class) == \A k \in DOMAIN s : s[k] \in class
Digits(s) == s # <<>> /\ AllIn(s, Digit)
Decimal(s) ==
  \/ Digits(s)
  \/ \E k \in DOMAIN s : s[k] = "." /\ Digits(SubSeq(s, 1, k - 1)) /\ Digits(SubSeq(s, k + 1, Len(s)))
Fraction(s) == Head(s) = "." /\ Digits(Tail(s))
Negative(s) ==
  /\ Head(s) = "-" /\ Len(s) > 1
  /\ \/ Decimal(Tail(s))
     \/ s[2] = "." /\ AllIn(SubSeq(s, 3, Len(s)), Digit)
     \/ Last(s) = "." /\ Digits(SubSeq(s, 2, Len(s) - 1))
Quoted(s) == Len(s) > 1 /\ {k \in DOMAIN s : s[k] = "'"} = {1, Len(s)}
Word(s) == Head(s) \in Letter /\ AllIn(s, Letter \cup Digit)

TokenAt(k, n) ==
  LET s == Slice(k, n)
  IN  CASE Quoted(s) -> [type |-> "literal", value |-> SubSeq(s, 2, Len(s) - 1)]
        [] Fraction(s) -> [type |-> "literal", value |-> <<"0">> \o s]
        [] Decimal(s) \/ Negative(s) -> [type |-> "literal", value |-> s]
        [] s \in {<<w>> : w \in DOMAIN KeywordType} -> [type |-> KeywordType[s[1]], value |-> s]
        [] s \in {<<m>> : m \in Mark} -> [type |-> MarkType[s[1]], value |-> s]
        [] s = <<"-">> -> [type |-> "other", value |-> s]
        [] OTHER -> [type |-> "identifier", value |-> s]

IsToken(s) ==
  \/ Quoted(s) \/ Fraction(s) \/ Decimal(s) \/ Negative(s) \/ Word(s)
  \/ Len(s) = 1 /\ s[1] \in Mark \cup {"-"}

\* Where the tokens that start at an index end.
EndsFrom(k) == {n \in (k + 1)..(Len(text) + 1) : IsToken(Slice(k, n))}

\* The tokens from an index on; Nothing stands where none starts.
Nothing == [type |-> "nothing", value |-> <<>>]
ReferenceTokens ==
  LET from[k \in 1..(Len(text) + 1)] ==
        LET ends == EndsFrom(k) IN
        IF k > Len(text) THEN <<>>
        ELSE IF Is(k, Blank) THEN from[k + 1]
        ELSE IF ends = {} THEN <<Nothing>>
        ELSE LET end == Max(ends) IN <<TokenAt(k, end)>> \o from[end]
  IN  from[1]

\* A text that is read to its end gave its longest tokens, all of them and in
\* order; tokenize refuses a text where no token starts, and no other.
TokensAreLongest ==
  at \in {"first", "refused"} =>
    IF pos > Len(text) THEN tokens = ReferenceTokens
    ELSE Append(tokens, Nothing) = ReferenceTokens
=============================================================================
