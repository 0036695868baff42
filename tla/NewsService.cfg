CONSTANTS
  Stories <- MCStories
  Retention <- MCRetention
  Configurations <- MCConfigurations
  ProviderSet = {"gdelt", "guardian", "gdacs"}
  Interval <- MCInterval
  MaxBackoff <- MCMaxBackoff
  EventList <- MCEventList
  Offers <- MCOffers
  EonetStorms = {}
  GdacsStorms = {}
  Day = 2
  Window = 1
  TopEvents = 2
  MaxQueries = 3
  MaxPass = 1
  MaxTime = 4
  MaxRestarts = 1
SPECIFICATION Spec
INVARIANTS ExpiredIsNeverServed StaleIsHonest
PROPERTY NothingIsLost
CHECK_DEADLOCK FALSE
