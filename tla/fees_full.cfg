SPECIFICATION Spec
CONSTANTS
  s1 = s1
  s2 = s2
  k1 = k1
  inst = inst
  None = None
  NoKey = NoKey
  Requests = {r1, r2}
  Students = {s1}
  Charges = {1, 2}
  Years = {y1, y2}
  Concessions = {k1}
  Pays = {1, 2}
  MaxLines = 1
  MaxReceipts = 2
  Owner <- OneStudent
  Source <- MCSource
  Amount <- MCAmount
  Grantee <- MCGrantee
  Reduction <- MCReduction
SYMMETRY Interchangeable
INVARIANTS
  TypeOK
  GaplessNumbering
  OneLiveChargePerKey
PROPERTIES
  ReceiptsAreABook
  NoCreditFromConcession
  RefundWithinPaid
CHECK_DEADLOCK FALSE
