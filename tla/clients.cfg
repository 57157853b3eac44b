SPECIFICATION MCSpec
CONSTANTS
  ReadIds = {a1, a2}
  ReadNames = {b1, b2}
  NoId = none
  Versions = {1}
  LastTime = 1
  DayLength = 4
  PageSize = 1
  MaxRows = 3
  MaxErased = 1
  DashProjects = {"p1", "p2"}
  Runs = {"a", "x"}
  RunsOf <- MCRunsOf
  NoProject = "none"
  Views = {"metrics", "traces", "runs", "detail", "artifacts", "tabs"}
  Calls = {a1, a2}
  MaxReturned = 1
  MaxServed = 3
  Entries = {"a", "b", "other", "remote"}
  Remote = {"remote"}
  ProjectOf <- MCProjectOf
  RunNo <- MCRunNo
  RunLabel <- MCRunLabel
  Jobs = {a1, a2}
  Buckets = {1, 2}
  NoBucket = 0
  MaxHubFaults = 1
  MaxPurged = 1
  Editors = {a1, a2}
  Pushers = {b1, b2}
  NoPusher = none
  Cells = {"c0", "c1", "c3"}
  PageOf <- MCPageOf
  LinkOf <- MCLinkOf
  NoLink = "none"
  Dashboards = {"dash"}
  Cloned = {"c0"}
  Noted = {"c3"}
  NoPage = "nopage"
  MaxRewrites = 1
  MaxPushFaults = 1
SYMMETRY MCSymmetry
INVARIANTS
  
  ShowsSelected
  PublishedSound
  
CHECK_DEADLOCK FALSE
