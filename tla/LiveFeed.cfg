SPECIFICATION FeedSpec
CONSTANTS
  nasa = nasa
  usgs = usgs
  c1 = c1
  c2 = c2
  Sources = {nasa, usgs}
  Calls = {c1, c2}
  CacheFor = 2
  Retry = 2
  ColdRetry = 1
  StaleMax = 2
  MaxFetch = 1
  FreshFor = 1
  MaxTime = 4
SYMMETRY Symmetry
INVARIANTS AnswerIsHonest SkeletonHasLoad
PROPERTY SourcesAreSpared
CHECK_DEADLOCK FALSE
