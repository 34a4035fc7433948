SPECIFICATION Spec
CONSTANTS
  flat = flat
  flat1 = flat1
  flat2 = flat2
  flat3 = flat3
  deep = deep
  left = left
  left1 = left1
  left2 = left2
  right = right
  right1 = right1
  right2 = right2
  Root = Root
  Nodes = {flat, flat1, flat2, flat3, deep, left, left1, left2, right, right1, right2}
  Parent <- Family
  Headings <- TopNodes
  MaxCopies = 2
INVARIANTS TypeOK TicksReachUp FlatIsSubmitted
CHECK_DEADLOCK FALSE
