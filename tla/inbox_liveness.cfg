SPECIFICATION FairSpec
CONSTANTS
  Fragments <- LiveFragments
  Records <- SafetyRecords
  Content <- LiveContent
  HasTrace <- LiveTraces
  Txn <- SafetyTxn
  WithId <- SafetyWithId
  Poison = {"t"}
  Scanner = scanner
  MetricWorkers = {mw}
  TraceWorkers = {tw}
  Syncers = {}
  BatchFiles = 2
  MetricSlots = 2
  TraceSlots = 1
  MaxSyncs = 0
  MaxCrashes = 1
  MaxImportFailures = 1
  MaxReadErrors = 0
PROPERTY
  
  NoClaimStranded
