CONSTANTS
  k1 = k1
  feed = feed
  job = job
  Keys = {k1}
  Feeds = {feed}
  Jobs = {job}
  Ttl = 2
  FailureTtl = 1
  StaleMax = 3
  StoreRetry = 1
  MaxTime = 4
  MaxFaults = 1
SPECIFICATION FairSpec
PROPERTIES
  RefreshKeepsAnswer
  FailureIsRemembered
  StoreMovesForward
  ServedIsFresh
  EventuallyRated
CHECK_DEADLOCK FALSE
