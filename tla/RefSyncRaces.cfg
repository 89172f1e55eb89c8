SPECIFICATION Spec
CONSTANTS
  c1 = c1
  c2 = c2
  p1 = p1
  p2 = p2
  p3 = p3
  Clone = {c1, c2}
  Proc = {p1, p2, p3}
  CloneOf <- CloneOf3
  MaxEvents = 1
  MaxMerges = 1
  AppendRetries = 2
  SyncRetries = 2
  MaxFailures = 0
  RemoteFaults = {"delete"}
  MaxFaults = 1
INVARIANTS TypeOK Durable SyncedMeansPublished StatusIsSound
PROPERTIES LocalOnlyFastForwards PushOnlyFastForwards ImplementsUnion
SYMMETRY SameClone
