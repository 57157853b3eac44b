SPECIFICATION Spec
CONSTANTS
  Runs = {"r1", "r2"}
  Syncs = {}
  Entries = {1, 3}
  Owner <- MCOwner
  Kind <- MCKind
  Dest <- MCDest2
  Local = "local"
  Spaces = {"A", "B"}
  Threadless = {}
  MaxSendFailures = 1
  MaxLocalFailures = 0
  MaxCrashes = 0
CHECK_DEADLOCK FALSE
INVARIANT
  RightDestination
