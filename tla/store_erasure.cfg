SPECIFICATION Spec
CONSTANTS
  None = None
  t1 = t1
  t2 = t2
  t3 = t3
  t4 = t4
  m1 = m1
  m2 = m2
  u1 = u1
  u2 = u2
  Tx = {t1, t2, t3}
  Message = {m1}
  User = {u1, u2}
  Requests <- ErasureRequests
SYMMETRY TxSymmetry
INVARIANTS
  ErasedWithUser
CHECK_DEADLOCK FALSE
