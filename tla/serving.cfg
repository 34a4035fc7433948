CONSTANTS
  Ads = {a1, vz}
  Edited = {a1}
  Vizury = vz
  Materials = {m1}
  Runs = {timer, reload}
  Requests = {r1}
  Vacant = Vacant
  NoAd = NoAd
SYMMETRY Symmetry
SPECIFICATION Spec
INVARIANTS TypeOK AnswerWasServable RefreshIsFaithful
CHECK_DEADLOCK FALSE
