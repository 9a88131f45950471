SPECIFICATION Spec
CONSTANTS
  Requests = {r1}
  UserIds = {u1,u2}
  Roles <- TwoRoles
  EntryIds = {e1}
  GrantIds = {g1,g2}
  Offers <- AllOffers
  Patches <- AllPatches
  Posts <- AnyPost
  Unborn = Unborn
  Gone = Gone
  None = None
SYMMETRY Symmetry
INVARIANTS TypeOK HistoryRulesAgree WritersAreEntitled
