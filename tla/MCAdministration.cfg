SPECIFICATION FairSpec
CONSTANTS
  Records = {"g1", "u1"}
  ResourceOf <- MCResourceOf
  Initially = {"g1"}
  Sections = {"gateways", "users"}
  FirstResource = "gateways"
  FirstSection = "gateways"
  MaxWrites = 2
  MaxCalls = 4
  MaxVisits = 2
  Null = Null
CHECK_DEADLOCK FALSE
INVARIANTS WorkspaceIsFresh EditorIsTold ShownTokenWorks ModuleShowsItsSaves
PROPERTY DialogsRelease
