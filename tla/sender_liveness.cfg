SPECIFICATION FairSpec
CONSTANTS
  Runs = {"r1", "l"}
  Syncs = {"s"}
  Entries = {1, 4}
  Owner <- MCOwner
  Kind <- MCKind
  Dest <- MCDest
  Local = "local"
  Spaces = {"A"}
  Threadless = {}
  MaxSendFailures = 2
  MaxLocalFailures = 0
  MaxCrashes = 0
CHECK_DEADLOCK FALSE
PROPERTIES
  DeliveredInTheEnd
