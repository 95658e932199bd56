SPECIFICATION TurnSpec
CONSTANTS
  Off = Off
  Courses <- RawCourses
  MaxCourses = 2
  MaxLater = 2
  MaxRefreshes = 2
INVARIANTS AnswersStand SearchesAgree ServicesAgree  DiscoveryFaithful
PROPERTIES CalendarExact
CHECK_DEADLOCK FALSE
