SPECIFICATION Spec
CONSTANTS
  Wallets = {"ann", "bob"}
  Personas = {"tuner", "builder"}
  FirstPersona = "tuner"
  Names = {"al", "alice", "---"}
  Valid = {"alice", "---"}
  Labels = {"alice", "empty"}
  SlugOf <- Slug
  EmptyLabel = "empty"
  Earlier <- Before
  Openers = {"ann", Nobody}
  NoName = NoName
  NoIndex = NoIndex
  NoJob = NoJob
  Nobody = Nobody
  Someone = Someone
  MaxSaves = 2
  MaxFaults = 1
  MaxInputs = 2
  MaxHydrates = 1
INVARIANTS
  ProfileTypeOK
  IndexNamesItsBundle
  DoneHasName
  SequentialPostsMerge
PROPERTIES
  TabSettles
CHECK_DEADLOCK FALSE
