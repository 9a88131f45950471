SPECIFICATION FairSpec
CONSTANTS
  Values <- MCValues
  FieldTypes <- MCTypes
  Clean <- MCClean
  StrOf <- MCStrOf
  TextOf <- MCTextOf
  Null = Null
  Absent = Absent
  Invalid = Invalid
  None = None
  Unborn = Unborn
  Gone = Gone
  FieldKeys = {k1}
  Requests = {r1,r2}
  SchemaIds = {s1}
  EntryIds = {e1,e2}
  FieldRows <- TextRows
  Bodies <- OneText
  Visibilities = {"private", "public"}
  MaxVersions = 2
  Failures = FALSE
INVARIANTS EveryWriteRecordedOnce
PROPERTIES RequestsFinish PromiseKept
