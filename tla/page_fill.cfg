SPECIFICATION Spec
CONSTANTS
  PAGE_SIZE = 4096
  HEADER_SIZE = 28
  SLOT_SIZE = 8
  Word = 65536
  Tuples <- TableRows
INVARIANTS TypeOK LayoutHolds
PROPERTIES SlotsAreStable
CHECK_DEADLOCK FALSE
