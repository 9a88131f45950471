SPECIFICATION Spec
CONSTANTS
  Requests = {r1,r2}
  UserIds = {u1,u2,u3}
  Names = {"root", "ann", "bob"}
  Roles <- MCRoles
  Patches <- FewPatches
  NewUsers <- FewNew
  DefaultName = "root"
  Crashes = TRUE
  Unborn = Unborn
  Gone = Gone
  None = None
SYMMETRY Symmetry
INVARIANTS NamesUnique
PROPERTIES AdminRolesComeFromHeads WritesOnlyWhatWasAsked
