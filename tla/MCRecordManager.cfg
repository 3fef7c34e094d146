CONSTANTS
  f = f
  g = g
  v6 = v6
  v10 = v10
  v17 = v17
  noRec = noRec
  PageSize = 22
  DicSize = 1
  MaxPage = 4
  Lens <- MCLens
  FixedRecs = {f, g}
  VarRecs = {v6, v10, v17}
  VarLen <- MCVarLen
  NoRec = noRec
SPECIFICATION Spec
CHECK_DEADLOCK FALSE
INVARIANTS TypeOK PagesTiled FreeListExact KindMatches SlackAssertOnlyIfBadLen
PROPERTIES ImplementsRecordStore InsertAddsRecord
