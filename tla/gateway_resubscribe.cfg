SPECIFICATION WireSpec
CONSTANTS
  Conn = {c1}
  Writer = {w1}
  MaxSeq = 2
  MaxSubs = 2
  LastSeen = {0}
  MaxQueued = 2
INVARIANTS
  OnceAfterSubscribe
CHECK_DEADLOCK FALSE
