CONSTANTS
  i1 = i1
  i2 = i2
  Nobody = nobody
  Users = {1}
  Instances = {i1, i2}
  InitialAccounts <- Subscribed
  Erasable = {}
  DailyLimit = 2
  Lease = 1
  DeliveryMaxAge = 1
  Window = 3
  ConfirmResend = 1
  MaxAttempts = 2
  MaxTime = 4
  MaxNotes = 1
  MaxChanges = 1
  MaxFaults = 1
  LastFault = 9
SPECIFICATION Spec
INVARIANTS
  SkipMeansNoEmail
CHECK_DEADLOCK FALSE
