SPECIFICATION Spec
CONSTANTS
  Rows = {5, 6, 15}
  AdIds = {5, 6, 15}
  AdId <- OwnAds
  SuffixOf <- FifteenEndsInFive
  Counts = {0, 2}
  MaxTotal = 6
  Days <- TurnsOfMonths
INVARIANTS TypeOK SumOfTicked RangeIsPicked
CHECK_DEADLOCK FALSE
