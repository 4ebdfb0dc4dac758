SPECIFICATION FairSpec
CONSTANTS
  Db = {d1, d2}
  WriteMayFail = FALSE
  MaxChanges = 2
PROPERTIES ExitEndsAlways
