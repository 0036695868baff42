CONSTANTS
  b1 = b1
  b2 = b2
  n1 = n1
  q1 = q1
  m1 = m1
  u1 = u1
  u2 = u2
  s1 = s1
  s2 = s2
  c1 = c1
  c2 = c2
  Garbage = garbage
  Nobody = nobody
  NoSub = noSub
  Places <- MCPlaces
  Distance <- MCDistance
  Types <- MCTypes
  EventOf <- MCEventOf
  Rules <- MCRules
  MaxEventAge = 1
  Backends = {b1}
  NasaEvents = {n1}
  UsgsEvents = {}
  ManualEvents = {m1}
  Events = {n1, m1}
  InsertChunk = 1
  OutboxBatch = 2
  PublishChunk = 1
  MaxRunFaults = 1
  Users = {u1}
  Subs = {s1, s2}
  Consumers = {c1, c2}
  MaxTime = 2
  MaxTopic = 9
  MaxFaults = 1
SPECIFICATION FairPipelineSpec
CONSTRAINT OneFailure
PROPERTIES
  ImplementsAlertService
  ListedIsHandled
CHECK_DEADLOCK FALSE
