SPECIFICATION FairSpec
CONSTANTS
  Server = {s1, s2}
  Endpoint = {e1}
  ChannelEvent = {c1}
  DirectEvent = {}
  FlagEvent = {f1}
  Backoff = 1
  BatchSize = 1
  MaxQueued = 1
  MaxFailures = 1
  MaxSlow = 1
  MaxReplays = 1
INVARIANTS
  TypeOK
  ClaimedOnce
  DeadAfterLadder
  DeliveredWasAccepted
  RowsHaveCause
PROPERTIES
  DeliveredStays
  QueueDrains
