SPECIFICATION Spec
CONSTANTS
  Frames = {"a", "b"}
  Roots = {r1, r2}
  r1 = r1
  Ids = {"g1", "g2", "n1"}
  Goals = {"g1", "g2"}
  States <- MCStates
  Blobs <- MCBlobs
  Boot <- MCBoot
  Step <- MCStep
  Hits <- MCHits
  Checkpoint <- MCCheckpoint
  Restore <- MCRestore
  Cold <- MCRun
  NoBlob = NoBlob
  Leaky = TRUE
  Enabled = TRUE
  MaxLen = 2
  MaxEntries = 2
  MaxBytes = 3
  NodesPerEntry = 1
  StateBytes = 2
  CheckpointEvery = 1
  ValidateEvery = 2
  MaxExecs = 3
INVARIANTS PrefixIdentity AccountingIsExact NothingOldSurvives
CHECK_DEADLOCK FALSE
