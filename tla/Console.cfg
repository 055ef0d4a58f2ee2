SPECIFICATION Spec
CONSTANTS
  Gyms = {"cart", "maze"}
  Stars = {1, 5}
  NoGym = NoGym
  NoLoad = NoLoad
  Published <- OneGym
  Mirrored <- OtherGym
  Budgets <- Mixes
  MaxLost = 2
  Accounts = {"ann", "bob"}
  GymHashes = {"cart"}
  Episodes = {5, 50}
  DefaultEpisodes = 50
  Costs <- EstimateCost
  Providers = {"pool", "node"}
  DefaultProvider = "pool"
  NoGymHash = NoGymHash
  NoSignature = NoSignature
  NoReceipt = NoReceipt
  MaxJobs = 2
  MaxEntries = 5
  MaxRefusals = 1
  TaskList <- TwoTasks
  Mock = "mock"
  NoTask = NoTask
  NoMerge = NoMerge
  MaxPolls = 2
  MaxPresses = 3
  MaxMerges = 2
  MaxOutages = 1
INVARIANTS
  LoadShowsStored
  RatingsBalanced
  JobPaysItsEstimate
PROPERTIES
  MergeEnds
CHECK_DEADLOCK FALSE
