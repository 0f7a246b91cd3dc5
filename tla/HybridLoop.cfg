CONSTANTS
  NTasks = 2
  MaxSeeds = 2
  AttemptLimit <- FirstTwo
  Exact = {1}
  Reachable = {1}
  FullDuration = FALSE
  Planned = 0
  PrefixLimit = 3
  MaxDistance = 0
  MaxExecutions = 3
  QueryLimit <- FirstTwo
  MaxQueries = 2
  MaxExtra = 1
SPECIFICATION Spec
INVARIANTS SeedsKeepTheirOrigin NoSeedIsStranded CreditGoesToTheTask SolvingIsBounded ReachesAreKept
