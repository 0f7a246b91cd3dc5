SPECIFICATION Spec
CONSTANTS
  Frames = {"a", "b"}
  Roots = {r1}
  r1 = r1
  Ids = {"g1", "g2", "n1"}
  Goals = {"g1", "g2"}
  States <- MCStates
  Blobs <- MCBlobs
  Boot <- MCBoot
  Step <- MCStep
  Hits <- MCHits
  Checkpoint <- MCCheckpoint
  Restore <- MCRestore
  Cold <- MCRun
  NoBlob = NoBlob
  Leaky = FALSE
  Enabled = TRUE
  MaxLen = 3
  MaxEntries = 2
  MaxBytes = 8
  NodesPerEntry = 3
  StateBytes = 2
  CheckpointEvery = 2
  ValidateEvery = 2
  MaxExecs = 3
INVARIANT ResumeIsCold
CHECK_DEADLOCK FALSE
