SPECIFICATION Spec
CONSTANTS
  Other = {m1}
  Own = {o1}
  Meta = meta
  Read = read
  MaxSeq = 3
  MaxTurns = 1
INVARIANTS
  NothingMissed
CHECK_DEADLOCK FALSE
