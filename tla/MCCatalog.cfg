CONSTANTS
  Databases = {"d", "e"}
  NoDb = noDb
  NoDir = noDir
  Tables = {"b", "ab"}
  Columns = 2
  EndsWith <- MCEndsWith
  Schemas <- MCSchemas
SPECIFICATION Spec
INVARIANTS TypeOK MemoryMatchesDisk CurrentWithoutIndexes IndexHasTable
