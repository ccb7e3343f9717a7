SPECIFICATION Spec
CONSTANTS
  None = None
  t1 = t1
  t2 = t2
  t3 = t3
  t4 = t4
  m1 = m1
  m2 = m2
  u1 = u1
  u2 = u2
  Tx = {t1, t2, t3, t4}
  Message = {m1, m2}
  User = {u1, u2}
  Requests <- AllRequests
SYMMETRY TxSymmetry
INVARIANTS
  TypeOK
  LogDense
  RowsMatchLog
  ReplyCountExact
  LocksInOrder
  SetsMatchLog
  ReceiptsInOrder
  NoOrphans
PROPERTIES
  DeletedForGood
  ImplementsChannelLog
CHECK_DEADLOCK FALSE
