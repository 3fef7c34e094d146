CONSTANTS
  KeyCount = 4
  Keys <- MCKeys
  Data = {a, b}
  BRankMin = 2
  BRankMax = 3
  MaxLoc = 13
  DataPlace <- MCDataPlace
  NodePlace <- MCNodePlace
SYMMETRY DataSymmetry
SPECIFICATION Spec
CHECK_DEADLOCK FALSE
PROPERTIES ImplementsKeyMap
