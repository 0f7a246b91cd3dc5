SPECIFICATION PrepareSpec
CONSTANTS
  N = 3
  TargetLists <- MCTargetLists
  EdgeKind <- MCEdgeKind
  EdgeModel <- MCEdgeModel
  Writes <- MCWrites
  Persistent = {"s"}
  MaxPaths = 2
  MaxGuidePaths = 1
  MaxExpansions = 5
  Pous = {1, 2, 3}
  CallGraphs <- MCCallGraphs
  PouFacts <- MCPouFacts
  MaxPrefixes = 4
  Focused = 2
  Shapes <- MCShapes
  FrameFields = {"b", "x"}
  SharedFields = {"x", "c"}
  DefaultOf <- MCDefault
  DomainOf <- MCDomain
  Trimmed <- MCTrimmed
  SpansLines = {"1|2", "2|x"}
  Reread <- MCReread
  Unset = Unset
  PlanTasks = {1, 2}
  Batches <- MCBatches
  AcceptedOf <- MCAccepted
  TextOf <- MCText
  NoPriority = NoPriority
  BoolFields = {"b"}
  Run <- MCRun
  BatchSize = 2
  FewFrames = 2
  ManyFrames = 4
  Rounds = 3
  MaxCalls = 3
  TokenBudget = 2
  MaxTokens = 1
INVARIANTS PlanIsComplete EffectsAreComplete SeedsAreGains
