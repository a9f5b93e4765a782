SPECIFICATION RoomsSpec
CONSTANTS
  None = None
  Students = {s1, s2, s3}
  Rooms = {r1}
  Requests = {p1, p2}
  Eligible <- Everyone
  Capacities = {1, 2}
  MaxTickets = 1
  MaxEntries = 2
SYMMETRY Interchangeable
CHECK_DEADLOCK FALSE
PROPERTIES
  AllocatedWithinCapacity
  OldestWaiterFirst
