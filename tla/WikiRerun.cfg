SPECIFICATION Spec
CONSTANTS
  p1 = p1
  p2 = p2
  w1 = w1
  w2 = w2
  None = None
  Proc = {p1}
  Tree = {w1, w2}
  MaxCommits = 4
  MaxRaced = 0
  PushRetries = 2
  MaxFailures = 1
INVARIANTS RerunCompletes
CHECK_DEADLOCK FALSE
