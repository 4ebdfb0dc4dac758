SPECIFICATION FairSpec
CONSTANTS
  Heap = {h1}
  Tuples <- TwoSizes
  LastPage = 2
  FIRST_USABLE_PAGE_ID = 0
  NoFrame = NoFrame
  PoolSize = 1
  WriteMayFail = FALSE
  MayModify = TRUE
  MayCrash = FALSE
  PAGE_SIZE = 5
  HEADER_SIZE = 1
  SLOT_SIZE = 1
  Word = 64
INVARIANTS HeldPagesAreResident RowsAreKept
PROPERTIES CallsReturn
