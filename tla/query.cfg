SPECIFICATION FairSpec
CONSTANTS
  Length <- Sizes
  HeaderSize = 1
  Queries <- Statements
  HeapMayFail = TRUE
  MaxRows = 1
  MaxTables = 2
INVARIANTS TypeOK SelectIsTable BulkIsPrefix CreateTellsLast
PROPERTIES BulkInsertsAll QueriesReturn
