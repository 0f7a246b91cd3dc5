SPECIFICATION FairSpec
CONSTANTS
  None = None
  Targets <- MCTargets
  MaxRuns = 2
  Defects <- MCDefects
  Benchmarks <- MCBenchmarks
  Options <- MCOptions
  MaxStarts = 2
INVARIANTS
  CompletedIsWhole
  SummaryIsTrue
PROPERTIES
  BatchEnds
