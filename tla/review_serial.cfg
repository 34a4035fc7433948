SPECIFICATION SerialSpec
CONSTANTS
  Ads = {a1}
  Users = {u1, u2, u3}
  Contents <- OneItem
  Requests = {h1}
  MaxRows = 6
  MaxSubmits = 2
  NoRow = NoRow
  Unread = Unread
  Ops <- Serially
  Serial = TRUE
INVARIANTS TypeOK ServingIsApproved PendingWaitsForAVote DraftHasNoRows
CHECK_DEADLOCK FALSE
PROPERTIES ImplementsApproval
