SPECIFICATION DeskSpec
CONSTANTS
  None = None
  Books = {b1, b2}
  Members = {m1, m2}
  Requests = {p1, p2}
  IssueDesks = {p1, p2}
  ReturnDesks = {p1}
  Copies = {2}
  Limits = {0, 1}
  Billable = {m1, m2}
  LoanDays = 1
  MaxRenewals = 1
  MaxDay = 2
  MaxRows = 2
  MaxHolds = 0
SYMMETRY AnyBookOrMember
CHECK_DEADLOCK FALSE
INVARIANTS
  CopiesAccountedFor
  FinedWhenOverdue
  WaivedOwesNothing
PROPERTIES
  WithinBorrowLimit
