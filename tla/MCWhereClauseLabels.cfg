CONSTANTS
  Null = null
  NoName = noName
  ColsOf <- MCColsOf
  EndsWith <- MCEndsWith
  Queries <- MCQueries
SPECIFICATION Spec
CHECK_DEADLOCK FALSE
INVARIANTS LabelsRight
