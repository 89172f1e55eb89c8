SPECIFICATION Spec
CONSTANTS
  p1 = p1
  p2 = p2
  w1 = w1
  w2 = w2
  None = None
  Proc = {p1, p2}
  Tree = {w1, w2}
  MaxCommits = 6
  MaxRaced = 3
  PushRetries = 2
  MaxFailures = 1
INVARIANTS TypeOK WorkIsKept OneEdit
PROPERTIES WikiOnlyFastForwards SyncLeavesEditsAlone
SYMMETRY Symmetry
CHECK_DEADLOCK FALSE
