SPECIFICATION FairSpec
CONSTANTS
  Length <- Sizes
  HeaderSize = 1
  Queries <- Statements
  HeapMayFail = FALSE
  MaxRows = 1
  MaxTables = 2
INVARIANTS BulkInsertSucceeds
