CONSTANTS
  zero = zero
  a = a
  null = null
  MaxId = 3
  MaxMaxPages = 2
  MaxRefs = 2
  HalfWord = 4
  Contents <- MCContents
  ZeroPage <- zero
  Null <- null
SPECIFICATION Spec
PROPERTIES DirtySavedAtClose
