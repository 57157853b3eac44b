SPECIFICATION MCSpec
CONSTANTS
  Producers = {c1, c2}
  ChunkCount = 2
  MaxFaults = 1
  MaxSweeps = 1
  MaxPurges = 1
  Clients = {c1, c2}
  PartCount = 2
  Uploads = {1, 2, 3, 4}
  MaxDirectFaults = 1
  MaxExpiries = 1
  MaxDirectPurges = 1
INVARIANTS
  TypeOK
  
  UploadedIsStored
  DirectSound
PROPERTIES
  AcksKept
  
CHECK_DEADLOCK FALSE
