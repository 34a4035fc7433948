SPECIFICATION FairSpec
CONSTANTS
  Ads = {a1}
  Users = {u1, u2}
  Contents <- Fixed
  Requests = {h1}
  MaxRows = 2
  MaxSubmits = 1
  NoRow = NoRow
  Unread = Unread
  Ops <- Nightly
  Serial = FALSE
INVARIANTS ServedAfterSomeApproval
PROPERTIES ExpiredAdLeaves
CHECK_DEADLOCK FALSE
