SPECIFICATION Spec
CONSTANTS
  None = None
  Books = {b1}
  Members = {m1, m2}
  Requests = {p1, p2}
  IssueDesks = {p1, p2}
  ReturnDesks = {p1, p2}
  Copies = {0, 1}
  Limits = {1}
  Billable = {m1}
  LoanDays = 0
  MaxRenewals = 1
  MaxDay = 1
  MaxRows = 1
  MaxHolds = 2
SYMMETRY Interchangeable
CHECK_DEADLOCK FALSE
INVARIANTS
  TypeOK
PROPERTIES
  OldestHoldFirst
