SPECIFICATION MCSpec
CONSTANTS
  Writes = {1, 2, 3, 4}
  Refused = {3}
  Fatal = {4}
  Flushers = {f1, f2}
  NoThread = none
  MaxRetries = 2
  MaxFaults = 5
  Runs = {"r1", "r2"}
  Names = {"n1", "n2"}
  Projects = {"p1", "p2"}
  Records = {"metric1", "metric2", "trace1", "link2"}
  RunOf <- MCRunOf
  TableOf <- MCTableOf
  TimeOf <- MCTimeOf
  WithMedia = {"metric1", "metric2"}
  Home = "p1"
  NameAt <- MCNameAt
  NoRun = "none"
  Managers = {m1}
  MaxDeliveries = 1
  MaxManaged = 2
  MaxManagedCuts = 1
  Sheets = {"metrics", "configs"}
  Main = {"metrics"}
  OwnerOf <- MCOwnerOf
  HubRows = {"r1", "r2", "r3"}
  SheetOf <- MCSheetOf
  MaxEvents = 3
  Queries = {"q1", "q2", "bulky"}
  Bulky = {"bulky"}
  Readers = {x1, x2}
  MaxCached = 1
  MaxCommits = 2
SYMMETRY MCSymmetry
INVARIANTS
  TypeOK
  PopsWhatItWrote
  AckedUnlessTailgated
  
  

  
CHECK_DEADLOCK FALSE
