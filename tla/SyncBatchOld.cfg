SPECIFICATION Spec
CONSTANTS
  Clone = {1, 2}
  Supports <- SecondIsNewer
  NewestEnvelope = 2
  Guarded = {"issue"}
  SyncRetries = 2
  Setups <- Pairs
  MaxEvents <- FirstMakesTwo
  MaxCommits = 3
PROPERTIES NewerSchemaIsRefused
