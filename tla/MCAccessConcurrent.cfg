SPECIFICATION Spec
CONSTANTS
  Requests = {r1,r2}
  UserIds = {u1,u2}
  Roles <- TwoRoles
  EntryIds = {e1,e2}
  GrantIds = {g1, g2}
  Offers <- EditorsEdit
  Patches <- EditOrGive
  Posts <- Public
  Unborn = Unborn
  Gone = Gone
  None = None
SYMMETRY Symmetry
INVARIANTS GrantsIntact WritersWereEntitled
PROPERTIES OnlyGrantsOfTheEntry
