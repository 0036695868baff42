CONSTANTS
  i1 = i1
  i2 = i2
  Nobody = nobody
  Users = {1}
  Instances = {i1}
  InitialAccounts <- AskingOrSubscribed
  Erasable = {1}
  DailyLimit = 2
  Lease = 1
  DeliveryMaxAge = 0
  Window = 1
  ConfirmResend = 1
  MaxAttempts = 2
  MaxTime = 4
  MaxNotes = 2
  MaxChanges = 1
  MaxFaults = 1
  LastFault = 1
SPECIFICATION TimelySpec
CONSTRAINT OneKindOfChange
INVARIANTS
  OutcomeRecorded
  ErasedStaysEmpty
PROPERTIES
  EventuallySettled
  EventuallyAccounted
CHECK_DEADLOCK FALSE
