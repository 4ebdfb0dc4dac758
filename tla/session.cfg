SPECIFICATION FairSpec
CONSTANTS
  Db = {d1, d2}
  WriteMayFail = TRUE
  MaxChanges = 2
INVARIANTS TypeOK BoundToWhatIsOpen EngineIsThere
PROPERTIES LeavingSaves ExitEnds
