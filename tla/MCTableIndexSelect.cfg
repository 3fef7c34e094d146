CONSTANTS
  Columns = 2
  Vals = {1, 2}
  Null = null
  Junk = junk
  MaleFemale = {1}
  ParentIds = {1}
  NoTable = noTable
  Schemas <- MCSchemas
  Clauses <- MCClauses
  Settings <- MCSettings
  Lists <- MCLists
  MaxLoc = 3
  MaxList = 2
  RowPlace <- MCRowPlace
SPECIFICATION Spec
CHECK_DEADLOCK FALSE
INVARIANTS IndexSelectsAsScan
