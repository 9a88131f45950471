SPECIFICATION Spec
CONSTANTS
  Requests = {r1}
  UserIds = {u1}
  Roles <- TwoRoles
  EntryIds = {e1}
  GrantIds = {g1}
  Offers <- FewOffers
  Patches <- OnePatch
  Posts <- PublicOrPrivate
  Unborn = Unborn
  Gone = Gone
  None = None
SYMMETRY Symmetry
INVARIANTS GrantsOpenPrivateEntries
