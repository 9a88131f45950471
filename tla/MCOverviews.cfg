SPECIFICATION Spec
CONSTANTS
  None = None
  Unborn = Unborn
  Gone = Gone
  s1 = s1
  s2 = s2
  EntryIds = {1,2,3}
  SchemaIds = {s1,s2}
  SchemaOf <- MCSchemaOf
  Latest = 1
  Limit = 1
  Start <- MCStart
  MaxLog = 2
  MaxWrites <- MCMaxWrites
INVARIANTS TypeOK EverySteadyEntryCounted NothingHiddenCounted TotalsAgree LatestAreTheLatest PagesMissLittle
