SPECIFICATION Spec
CONSTANTS
  None = None
  Unborn = Unborn
  Gone = Gone
  e1 = e1
  e2 = e2
  e3 = e3
  s1 = s1
  s2 = s2
  EntryIds = {e1,e2,e3}
  SchemaIds = {s1,s2}
  SchemaOf <- MCSchemaOf
  RelIds = {x1,x2,x3}
  Root = e1
  InitialRows <- MCRows
  MaxWrites = 2
  Room = 2
SYMMETRY Symmetry
INVARIANTS TypeOK AnswerIsATree NothingMissing NothingHiddenShown FailsOnlyByDeletion
