SPECIFICATION Spec
CONSTANTS
  a = a
  b = b
  long = long
  long_cut = long_cut
  master_tables = master_tables
  master_columns = master_columns
  Name = {a, b, long}
  SystemName <- Systems
  Stored <- StoredDef
  NoName = NoName
  ColumnCount = {1, 2}
  SystemColumns <- OneColumnEach
  RowsPerPage = 2
  MaxRows = 5
  LastPage = 6
  Droppable = {a, master_columns}
INVARIANTS TypeOK NextIdsAreNew NamesAreUnique TablesAreFound
PROPERTIES RestartKeepsTables BootIsForGood
