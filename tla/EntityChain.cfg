SPECIFICATION Spec
CONSTANTS
  w1 = w1
  w2 = w2
  f1 = f1
  Writer = {w1, w2}
  Fsck = {f1}
  MaxId = 4
  Skew = TRUE
  PeerIds = {1, 3}
  CompactAfter = 2
  Retries = 2
  MaxCheckpoints = 2
SYMMETRY WriterSymmetry
INVARIANTS TypeOK ShortcutIsTransparent TreeMatchesRead AppendedOnce CheckpointsSubsumeMore SinceIsComplete
CHECK_DEADLOCK FALSE
