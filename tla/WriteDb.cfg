CONSTANTS
  NoData = NoData
  Undefined = Undefined
  Never = Never
  StatProp = {"SIZE"}
  Hash = {"MD5", "SHA"}
  Value = {1, 2}
  PropPolicies <- SomeProps
  Path <- Paths
  Version = {0, 1}
  Mounts <- Mounted
  CrossFileSystems = FALSE
  MaxFaults = 2
  Flags = {}
  LooseDirProps = {}
  ReplaceProps = FALSE
  FileSystems <- AllTrees
  Policies <- FourPolicies
  UpdateTrees <- SomeTrees
  UpdatePolicies <- ThreePolicies
  Ignorable <- MayIgnore
  SUGGESTED_BLOCK_SIZE = 4
  UnitSize = 2
  HavalUnitSize = 4
  TW_PATH_SIZE = 2
  MaxPathSize = 8
  Lengths = {0, 1, 3, 4, 8, 9}
  MaxLength = 9
  MaxWrites = 1
  Asked <- SomeHashes
  Elsewhere <- OtherText
SPECIFICATION WriteSpec
INVARIANTS GeneratedIsSnapshot EntriesApplied UpdateIsGenerate
  DigestsOfText EntryIsAsMeasured ReferencesOwned ReportReadBack
PROPERTY CommandEnds
CHECK_DEADLOCK FALSE
