CONSTANTS
  b1 = b1
  n1 = n1
  n2 = n2
  u1 = u1
  w1 = w1
  Backends = {b1}
  NasaEvents = {n1}
  UsgsEvents = {u1}
  ManualEvents = {}
  InsertChunk = 1
  OutboxBatch = 3
  PublishChunk = 1
  MaxFaults = 2
  Wakes = {w1}
  Recent = 2
SPECIFICATION FairRunnerSpec
INVARIANTS
  MarkedIsInTopic
  DuplicatesBounded
  DrainedInOrder
  WakeAnswerIsTrue
PROPERTIES
  ListedIsPublished
CHECK_DEADLOCK FALSE
