CONSTANTS
  i1 = i1
  i2 = i2
  Nobody = nobody
  Users = {1, 2}
  Instances = {i1, i2}
  InitialAccounts <- Anyone
  Erasable = {2}
  DailyLimit = 2
  Lease = 0
  DeliveryMaxAge = 1
  Window = 3
  ConfirmResend = 1
  MaxAttempts = 2
  MaxTime = 4
  MaxNotes = 2
  MaxChanges = 2
  MaxFaults = 1
  LastFault = 9
SPECIFICATION Spec
SYMMETRY Symmetry
CONSTRAINT Scenarios
INVARIANTS
  NeverEmailedTwice
  EmailedWasAccepted
  OneSender
  CountedWithinLimit
  DigestOnlyToConfirmed
CHECK_DEADLOCK FALSE
