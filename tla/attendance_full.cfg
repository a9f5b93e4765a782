SPECIFICATION AttendanceFairSpec
CONSTANTS
  s1 = s1
  s2 = s2
  x = x
  y = y
  None = None
  Students = {s1, s2}
  Sections = {x, y}
  Movers = {s1}
  SectionOf <- MCSectionOf
  Codes = {c1}
  Periods = {None, 1}
  WeeklyOff = {}
  Sheets <- MCSheets
  Requests = {p1, p2}
  FirstDay = 2
  EarlierRows <- MCEarlierRows
  MaxDay = 2
  MaxPunches = 1
  MaxServed = 2
  MaxCrashes = 1
CHECK_DEADLOCK FALSE
INVARIANTS
  RegisterIsWhole
  ReportsAgree
PROPERTIES
  CorrectedByTheRules
  EveryPunchArrives
