SPECIFICATION MCSpec
CONSTANTS
  Materials = {m1, m2}
  ExtField = zero
  Abouts = {x, y}
  Deleted = Deleted
  Codes = {c, d}
  Blank = Blank
  Readers = {r1, r2}
  HasNht = TRUE
  Limit = 2
  MaxEdits = 1
  MaxChanges = 1
  Pages = Pages
  Nht = Nht
  Shown = {m1}
  Seen = x
SYMMETRY MCSymmetry
INVARIANTS MaterialTypeOK CacheIsRows AnswersWereRows CodeIsKept ModeFollowsCount
