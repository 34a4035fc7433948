SPECIFICATION Spec
CONSTANTS
  Ads = {a1}
  Users = {u1, u2}
  Contents <- Fixed
  Requests = {h1, h2}
  MaxRows = 2
  MaxSubmits = 1
  NoRow = NoRow
  Unread = Unread
  Ops <- Refusing
  Serial = TRUE
INVARIANT RefusedIsNotServing
CHECK_DEADLOCK FALSE
