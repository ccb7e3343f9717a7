SPECIFICATION Spec
CONSTANTS
  None = None
  Call = {1, 2, 3}
  Conn = {1, 2, 3}
  Token = {u1, u2}
  Cid = {g1}
  MaxRetries = 1
SYMMETRY UserSymmetry
INVARIANTS
  TypeOK
  FieldsHonest
  PendingIsPursued
  WatchedIsSubscribed
  OpenAsSelf
  UserIsClients
  FacadeFresh
CHECK_DEADLOCK FALSE
