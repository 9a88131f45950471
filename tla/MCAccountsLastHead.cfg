SPECIFICATION Spec
CONSTANTS
  Requests = {r1,r2}
  UserIds = {u1,u2}
  Names = {"root", "ann", "bob"}
  Roles <- MCRoles
  Patches <- FewPatches
  NewUsers <- BobIsHead
  DefaultName = "root"
  Crashes = FALSE
  Unborn = Unborn
  Gone = Gone
  None = None
SYMMETRY Symmetry
INVARIANTS HeadAdminRemains
