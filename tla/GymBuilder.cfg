SPECIFICATION Spec
CONSTANTS
  NodeIds = {"step", "https", "router", "reward"}
  Conditions = {"c1"}
  KindOf <- Kind
  StoredBundles <- Stored
  EarlierSaved <- Earlier
  Labels = {"cart"}
  EarlierNamed <- Unnamed
  ClassGraph <- Chain
  ChatGraphs <- Drawn
  NoGraph = NoGraph
  NoCode = NoCode
  NoRoot = NoRoot
  NoLabel = NoLabel
  MaxInputs = 3
  MaxEdits = 1
  MaxSaved = 2
INVARIANTS
  BuilderTypeOK
  NoVersionLost
  ListedIsListed
  RecordIsOfNamedGym
  ChatAlternates
  TraversalVisitsReachable
  RecursionUnbounded
PROPERTIES
  PublishEnds
CHECK_DEADLOCK FALSE
