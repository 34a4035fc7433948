SPECIFICATION Spec
CONSTANTS
  Requests = {r1}
  HoursPerDay = 2
  LastHour = 4
  MaxEvents <- ThreeViews
  Missing = Missing
  Serial = TRUE
  QuietMidnight = TRUE
  ClicksFollowViews = TRUE
  DatabaseFails = FALSE
INVARIANTS TypeOK OneRowPerPeriod DeliveredDayHasRow
PROPERTIES DaysKeepTheLedger HoursKeepTheLedger
CHECK_DEADLOCK FALSE
