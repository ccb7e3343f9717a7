SPECIFICATION FairSpec
CONSTANTS
  u1 = u1
  c1 = c1
  c2 = c2
  User = {u1}
  Conn = {c1, c2}
  Owner <- TwoDevices
  MaxStarts <- Starts
INVARIANTS
  TypeOK
  PresenceTruth
  NeverStuck
  NotCutShort
PROPERTIES
  IndicatorClears
  GoesOffline
CHECK_DEADLOCK FALSE
