SPECIFICATION Spec
CONSTANTS
  Ads = {a1}
  Users = {u1, u2}
  Contents <- OneItem
  Requests = {h1, h2}
  MaxRows = 2
  MaxSubmits = 1
  NoRow = NoRow
  Unread = Unread
  Ops <- Overlapping
  Serial = FALSE
INVARIANTS  ServedAfterFullApproval
SYMMETRY Symmetry
CHECK_DEADLOCK FALSE
