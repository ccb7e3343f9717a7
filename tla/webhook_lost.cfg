SPECIFICATION PromiseSpec
CONSTANTS
  Server = {s1}
  Endpoint = {e1}
  ChannelEvent = {c1}
  DirectEvent = {}
  FlagEvent = {}
  Backoff = 1
  BatchSize = 1
  MaxQueued = 1
  MaxFailures = 1
  MaxSlow = 0
  MaxReplays = 0
PROPERTIES
  AtLeastOnce
