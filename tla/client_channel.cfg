SPECIFICATION Spec
CONSTANTS
  Other = {m1}
  Own = {o1}
  Meta = meta
  Read = read
  MaxSeq = 3
  MaxTurns = 2
INVARIANTS
  TypeOK
  Converges
  ShownOnce
CHECK_DEADLOCK FALSE
