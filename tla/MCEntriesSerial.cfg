SPECIFICATION Spec
CONSTANTS
  Values <- MCValues
  FieldTypes <- MCTypes
  Clean <- MCClean
  StrOf <- MCStrOf
  TextOf <- MCTextOf
  Null = Null
  Absent = Absent
  Invalid = Invalid
  None = None
  Unborn = Unborn
  Gone = Gone
  FieldKeys = {k1,k2}
  Requests = {r1}
  SchemaIds = {s1}
  EntryIds = {e1,e2}
  FieldRows <- MixedRows
  Bodies <- AllBodies
  Visibilities = {"private", "public"}
  MaxVersions = 2
  Failures = FALSE
SYMMETRY Symmetry
INVARIANTS TypeOK HistoryComplete
PROPERTIES WriteKeepsUnique PatchKeepsOtherFields
