SPECIFICATION Spec
CONSTANTS
  Runs = {r1, r2}
  Manifests <- MCManifests
  Digests <- MCDigests
  Blobs <- MCBlobs
  Passed <- MCPassed
  MaxAttempts = 2
  MaxLogs = 2
  MaxUses = 0
  MaxDeletes = 0
  MaxPurges = 1
  MaxCrashes = 0
SYMMETRY MCSymmetry
CHECK_DEADLOCK FALSE
INVARIANT
  ManifestsComplete
