SPECIFICATION FairSpec
CONSTANTS
  Statements <- StatementsDef
  Texts <- TextsDef
INVARIANTS TokensAreLongest UnderstoodAsWritten AcceptedIsWellFormed
PROPERTIES ParsingEnds
CHECK_DEADLOCK FALSE
