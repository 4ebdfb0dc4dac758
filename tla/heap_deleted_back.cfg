SPECIFICATION Spec
CONSTANTS
  Heap = {h1, h2}
  Tuples <- OneSize
  LastPage = 3
  FIRST_USABLE_PAGE_ID = 0
  NoFrame = NoFrame
  PoolSize = 2
  WriteMayFail = FALSE
  MayModify = TRUE
  MayCrash = FALSE
  PAGE_SIZE = 8
  HEADER_SIZE = 1
  SLOT_SIZE = 1
  Word = 64
INVARIANTS DeletedRowsStayDeleted
