SPECIFICATION Spec
CONSTANTS
  None = None
  TimelineMax = 4
  Calls = {c1, c2}
  Sources = {"nasa", "usgs"}
  FreshFor = 1
  Dates = {1, 2}
  Eonet <- MCEonet
  Usgs <- MCUsgs
  Distance <- MCDistance
  Matches <- MCMatches
  Answers <- MCAnswers
  Filters = {"all", "earthquake"}
  Queries = {"australia"}
  Links = {2, 9}
  Phones = {TRUE, FALSE}
  Limit = 5
  MinMag = 450
  Window = 1000
  PageSize = 2
  QuakeCap = 1
  FiresPerCountry = 1
  MaxMarkers = 3
  TodayMax = 2
  MaxMoves = 3
  MaxLinks = 1
  MaxTime = 1
  MaxZoom = 2
  RevealZoom = 1
  ApartFrom <- MCApart
INVARIANTS
  ListenerIsBrief
PROPERTIES
  LinkIsAnswered
  SelectionIsFlownTo
CHECK_DEADLOCK FALSE
