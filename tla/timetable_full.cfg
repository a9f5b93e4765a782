SPECIFICATION Spec
CONSTANTS
  x1 = x1
  x2 = x2
  t1 = t1
  t2 = t2
  t3 = t3
  a4 = a4
  main = main
  junior = junior
  m1 = m1
  m2 = m2
  j1 = j1
  a1 = a1
  a2 = a2
  a3 = a3
  mon = mon
  d1 = d1
  hall = hall
  None = None
  Sections = {x1, x2}
  Teachers = {t1, t2, t3}
  Rooms = {hall}
  Schedules = {main, junior}
  Slots = {m1, m2, j1}
  Assignments = {a1, a2, a3, a4}
  Days = {mon}
  Dates = {d1}
  Requests = {p1, p2}
  Planners = {p1}
  SlotSchedule <- MCSlotSchedule
  SectionOf <- MCSectionOf
  Weekday <- MCWeekday
  Bell <- MCBell
  BellDays <- MCBellDays
  Listed <- MCListed
  Allocated <- MCAllocated
  Granted <- MCGranted
  Times <- MCTimes
  Weeks <- MCWeeks
  Wanted <- MCWanted
  Substitutes = {t3}
  Edited = {m1, x1, a3, t2}
  Allotments = {0, 1}
  Loads = {1, 2}
  DefaultLoad = 1
  MaxEntries = 2
  MaxEdits = 1
INVARIANTS
  TeacherInOnePlace
  LoadsRespected
  NothingBookedTwice
