SPECIFICATION FairSpec
CONSTANTS
  None = None
  Clients = {t1}
  Modules = {library}
  Requests = {q1}
  Graces = {0, 1}
  LastEnd = 1
  MaxDay = 3
  MaxEdits = 1
  MaxCrashes = 1
INVARIANTS
  TypeOK
  ClosedMeansEmpty
PROPERTIES
  TaskLeavesContract
  TaskNeverTerminates
  StaleStateExpires
  StatusFollowsDates
