SPECIFICATION Spec
CONSTANTS
  Runs = {"r1", "r2"}
  Syncs = {}
  Entries = {1, 2, 3}
  Owner <- MCOwner
  Kind <- MCKind
  Dest <- MCDest
  Local = "local"
  Spaces = {"A"}
  Threadless = {"r2"}
  MaxSendFailures = 2
  MaxLocalFailures = 1
  MaxCrashes = 1
CHECK_DEADLOCK FALSE
INVARIANTS
  TypeOK
  KeptUntilDelivered
  
  NothingLeftBehind
  NextInitSends
