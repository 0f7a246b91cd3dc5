SPECIFICATION RSpec
CONSTANTS
  None = None
  Unknown = None
  Expected = {"array_access", "crash", "scan_budget", None}
  Runs <- MCRuns
  SafeKey <- CutKey
  Limit = 2
  Seeds = 1
  MaxReports = 3
INVARIANTS
  ConfirmedStays
  CleanMeansClean
  PackageReplays
PROPERTIES
  RegenerationKeeps
