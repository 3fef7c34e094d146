CONSTANTS
  KeyCount = 5
  Keys <- MCKeys
  Data = {"a"}
  BRankMin = 2
  BRankMax = 3
  MaxLoc = 15
  DataPlace <- MCDataPlace
  NodePlace <- MCNodePlace
SPECIFICATION Spec
CHECK_DEADLOCK FALSE
INVARIANTS TypeOK TraversalIsSearch ParentLinks HeapExact Balanced
