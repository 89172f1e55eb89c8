SPECIFICATION FairSpec
CONSTANTS
  c1 = c1
  c2 = c2
  p1 = p1
  p2 = p2
  p3 = p3
  Clone = {c1, c2}
  Proc = {p1, p2}
  CloneOf <- CloneOf2
  MaxEvents = 1
  MaxMerges = 3
  AppendRetries = 2
  SyncRetries = 2
  MaxFailures = 1
  RemoteFaults = {"overwrite"}
  MaxFaults = 2
PROPERTIES Convergence CommandsEnd
