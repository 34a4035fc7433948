SPECIFICATION Spec
CONSTANTS
  Requests = {r1, r2}
  HoursPerDay = 2
  LastHour = 2
  MaxEvents <- OnlyViews
  Missing = Missing
  Serial = FALSE
  QuietMidnight = FALSE
  ClicksFollowViews = FALSE
  DatabaseFails = TRUE
INVARIANT NoDoubleCount
CHECK_DEADLOCK FALSE
SYMMETRY Symmetry
