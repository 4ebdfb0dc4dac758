SPECIFICATION Spec
CONSTANTS
  LastPage = 2
  FIRST_USABLE_PAGE_ID = 1
  ZeroPage <- ZeroPageDef
  Data = {d1, d2}
  Fresh = fresh
  Void = void
  NoFrame = NoFrame
  PoolSize = 2
  WriteMayFail = TRUE
  MayDelete = TRUE
INVARIANTS TypeOK LruIsPages CleanMatchesDisk NewIdsAreUnused
PROPERTIES OnlyNewPageOverfills ImplementsPageStore
SYMMETRY DataSymmetry
