SPECIFICATION Spec
CONSTANTS
  None = None
  Members = {1, 2}
  Leaves = {1, 2}
  Outpasses = {1, 2}
  Visits = {1}
  Requests = {p1, p2}
  FirstRows <- MCFirstRows
  MonthLength = 2
  DUE_DAY = 2
  monthly_charge = 10
  per_day_rate = 6
  rebate_min_days = 2
  rebate_per_day = 3
  Dates = {1, 3}
  Trips <- MCTrips
  LastDay = 5
  MaxServed = 4
CHECK_DEADLOCK FALSE
INVARIANTS
  MessBillsAddUp
  LeaveFollowsOutpass
  PlatesAgree
