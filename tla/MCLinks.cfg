SPECIFICATION Spec
CONSTANTS
  None = None
  Unborn = Unborn
  Gone = Gone
  Requests = {r1,r2}
  EntryIds = {e1,e2,e3}
  RelIds = {x1,x2}
  AttIds = {a1,a2}
  Urls = {u1,u2}
  Sums = {s1}
  Together = FALSE
SYMMETRY Symmetry
INVARIANTS TypeOK LinksIntact LinkedOnce
PROPERTIES RelationsChangeAsAsked AttachmentsStayWithTheirEntry
