SPECIFICATION Spec
CONSTANTS
  None = None
  FloatUnit = 4
  Seeds <- MCSeeds
  Processes <- MCProcesses
  Baselines <- MCBaselines
  Upper <- MCUpper
  Blanks <- MCBlanks
INVARIANTS StillFails MetadataExplainsSeed
PROPERTIES OneMinimal IsReduction
