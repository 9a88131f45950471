SPECIFICATION Spec
CONSTANTS
  Requests = {r1}
  UserIds = {u1,u2,u3,u4}
  Names = {"root", "ann", "bob"}
  Roles <- MCRoles
  Patches <- AllPatches
  NewUsers <- AllNew
  DefaultName = "root"
  Crashes = TRUE
  Unborn = Unborn
  Gone = Gone
  None = None
SYMMETRY Symmetry
INVARIANTS TypeOK HeadAdminRemains
PROPERTIES OnlyHeadsManageHeads
