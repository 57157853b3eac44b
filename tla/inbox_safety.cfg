SPECIFICATION MCSpec
CONSTANTS
  Fragments <- SafetyFragments
  Records <- SafetyRecords
  Content <- SafetyContent
  HasTrace <- SafetyTraces
  Txn <- SafetyTxn
  WithId <- SafetyWithId
  Poison = {}
  Scanner = scanner
  MetricWorkers = {mw}
  TraceWorkers = {tw}
  Syncers = {sync}
  BatchFiles = 2
  MetricSlots = 1
  TraceSlots = 1
  MaxSyncs = 1
  MaxCrashes = 1
  MaxImportFailures = 1
  MaxReadErrors = 1
  SpillEntries = {"m1", "m2", "up", "al"}
  SpillKind <- MCSpillKind
  NoEntry = "none"
  MaxSpillFaults = 1
  Sessions = {"s1", "s2"}
  NoRunId = "none"
  MaxStep = 1
  MaxBatches = 2
  Paths = {1, 2}
  ParentOf <- MCParentOf
  NoPath = 0
  Texts = {0, 1}
  Downloads = {"d1", "d2"}
  MaxVersions = 2
  MaxTime = 3
  MaxEvents = 1
INVARIANTS
  TypeOK
  DeletedOnlyAfterImport
  ClaimedByOne
  RowsPerRecord
  RunsSound
  FilesSound
PROPERTY
  ImplementsJournal
CHECK_DEADLOCK FALSE
