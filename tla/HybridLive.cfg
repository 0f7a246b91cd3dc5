CONSTANTS
  NTasks = 1
  MaxSeeds = 1
  AttemptLimit <- One
  Exact = {1}
  Reachable = {1}
  FullDuration = TRUE
  Planned = 0
  PrefixLimit = 3
  MaxDistance = 1
  MaxExecutions = 2
  QueryLimit <- One
  MaxQueries = 1
  MaxExtra = 0
SPECIFICATION FairSpec
PROPERTIES QueuedIsDecided SolverFollowsEngine
