SPECIFICATION OrderlySpec
CONSTANTS
  s1 = s1
  s2 = s2
  k1 = k1
  inst = inst
  None = None
  NoKey = NoKey
  Requests = {r1, r2}
  Students = {s1, s2}
  Charges = {1, 2, 3}
  Years = {y1}
  Concessions = {k1}
  Pays = {1, 2}
  MaxLines = 2
  MaxReceipts = 2
  Owner <- TwoStudents
  Source <- NoSource
  Amount <- MCAmount
  Grantee <- MCGrantee
  Reduction <- MCReduction
SYMMETRY Interchangeable
CHECK_DEADLOCK FALSE
INVARIANTS
  NoOverCollection
  CancelledNeverPaid
  OldestDuesFirst
