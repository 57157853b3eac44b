SPECIFICATION MCSpec
CONSTANTS
  Runs = {r1, r2}
  Manifests <- MCManifests
  Digests <- MCDigests
  Blobs <- MCBlobs
  Passed <- MCPassed
  MaxAttempts = 2
  MaxLogs = 2
  MaxUses = 1
  MaxDeletes = 1
  MaxPurges = 1
  MaxCrashes = 1
  RunIds = {r1, r2}
  RunNames = {w1, w2}
  Workers = {w1, w2}
  MaxRunTasks = 3
  MaxRunCuts = 1
  Producers = {r1, r2}
  Contents = {"c1", "c2"}
  BlobsOf <- MCBlobsOf
  Requested <- MCRequested
  Threads = {w1, w2}
  MaxCommits = 3
  MaxLinkUses = 1
  MaxRunPurges = 1
  MaxLinkDeletes = 1
  MaxCatalogCuts = 1
  Records = {"metric", "trace1", "trace2", "version"}
  TableOf <- MCTableOf
  Unsuited <- MCUnsuited
  MaxMigrations = 2
  MaxSideWrites = 2
  MaxToolCuts = 1
  LocalBlobs = {"b1", "b2"}
  MaxCopies = 3
  MaxBlobChanges = 2
  MaxCopyFaults = 1
SYMMETRY CatalogsSymmetry
CHECK_DEADLOCK FALSE
INVARIANTS
  TypeOK
  PointersResolve
  LatestIsNewest
  BlobsUnlessExposed
  DorisSound
  MigratedIsThere
PROPERTIES
  AliasesMoveForward
  PurgeSparesConsumers
  WholeRuns
