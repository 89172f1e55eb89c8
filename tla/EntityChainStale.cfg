SPECIFICATION Spec
CONSTANTS
  w1 = w1
  w2 = w2
  f1 = f1
  Writer = {w1}
  Fsck = {f1}
  MaxId = 4
  Skew = FALSE
  PeerIds = {}
  CompactAfter = 1
  Retries = 2
  MaxCheckpoints = 1
SYMMETRY WriterSymmetry
INVARIANTS ReadsAreComplete
CHECK_DEADLOCK FALSE
