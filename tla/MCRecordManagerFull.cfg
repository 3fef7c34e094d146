CONSTANTS
  f = f
  g = g
  v6 = v6
  v10 = v10
  v17 = v17
  noRec = noRec
  PageSize = 22
  DicSize = 2
  MaxPage = 5
  Lens <- MCLens
  FixedRecs = {f}
  VarRecs = {v6, v10, v17}
  VarLen <- MCVarLen
  NoRec = noRec
SPECIFICATION Spec
CHECK_DEADLOCK FALSE
INVARIANTS FullMeansFull
