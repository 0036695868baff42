CONSTANTS
  u1 = u1
  u2 = u2
  s1 = s1
  s2 = s2
  s3 = s3
  c1 = c1
  c2 = c2
  e1 = e1
  e2 = e2
  Garbage = garbage
  Nobody = nobody
  NoSub = noSub
  Places <- MCPlaces
  Distance <- MCDistance
  Types <- MCTypes
  EventOf <- MCEventOf
  Rules <- MCOneRule
  MaxEventAge = 1
  Users = {u1}
  Subs = {s1, s2}
  Consumers = {c1, c2}
  Events = {e1}
  MaxTime = 2
  MaxTopic = 2
  MaxFaults = 1
SPECIFICATION FairSpec
INVARIANTS
  AtMostOnePerUserEvent
  NoMissedAlert
  AlertsAreAnchored
PROPERTIES
  AlertsStay
  EventuallyHandled
CHECK_DEADLOCK FALSE
