SPECIFICATION HSpec
CONSTANTS
  IR <- MCIR
  Optimizations <- MCOptimizations
  Written <- MCWritten
  Limit = 1
  Period = 1
  Shared <- MCShared
  Frames <- MCFrames
  MaxEvents <- MCMaxEvents
INVARIANTS ExecutionsAreCold AbortsAreOwed
