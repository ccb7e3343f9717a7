SPECIFICATION Spec
CONSTANTS
  c1 = c1
  c2 = c2
  w1 = w1
  w2 = w2
  Conn = {c1}
  Writer = {w1, w2}
  MaxSeq = 3
  MaxSubs = 2
  LastSeen = {0, 1}
  MaxQueued = 2
SYMMETRY WriterSymmetry
INVARIANTS
  TypeOK
  OrderedOnce
  OnlyAskedFor
CHECK_DEADLOCK FALSE
