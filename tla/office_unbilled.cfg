SPECIFICATION Spec
CONSTANTS
  s1 = s1
  s2 = s2
  y1 = y1
  y2 = y2
  g1 = g1
  g2 = g2
  f1 = f1
  f2 = f2
  home = home
  None = None
  Requests = {p1, p2}
  MaxServed = 3
  Students = {s1, s2}
  Years = {y1, y2}
  Programs = {g1, g2}
  Plans = {f1, f2}
  Phones = {home}
  Files <- MCFiles
  Admitted <- MCAdmitted
  FirstPlans <- MCFirstPlans
  FirstYears <- MCFirstYears
  FirstStudents <- MCFirstStudents
  MaxRows = 4
  MaxCrashes = 1
  DueOf <- MCDueOf
  grace_days = 1
  late_fine_amount = 2
  PerDay <- MCPerDay
  LastDay = 4
  Riders = {1, 2}
  Issues = {1, 2}
  Months = {1}
  FirstUnits = 1
  MaxUnits = 2
CHECK_DEADLOCK FALSE
INVARIANTS
  EnrolledIsBilled
