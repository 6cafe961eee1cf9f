CONSTANTS
  NoData = NoData
  Path <- Paths
  Version = {0, 1}
  CrossFileSystems = FALSE
  Mounts = {}
  MaxFaults = 1
  Flags = {"COMPARE_VALID_PROPS_ONLY", "INVALIDATE_EXTRA_DB_PROPS", "SET_NEW_PROPS"}
  LooseDirProps = {}
  FileSystems <- SomeTrees
  Policies <- SomePolicies
  SamePolicy = FALSE
  Commands = {"check", "list", "policy update"}
  CheckFlags = {"LOOSE_DIR"}
  CheckLooseDirProps = {"a"}
  CheckMounts <- Mounted
  CheckPolicies <- PoliciesToCheck
  CheckTrees <- TreesToCheck
  CheckFaults = 2
  ListTrees <- TreesOfLists
  ListFaults = 1
  ListsToCheck <- SomeLists
SPECIFICATION CheckSpec
INVARIANTS ReportsRight PhantomHasError
  CheckAndListRight DbUnderNewPolicy TakenOverTidily
PROPERTY CommandsEnd
CHECK_DEADLOCK FALSE
