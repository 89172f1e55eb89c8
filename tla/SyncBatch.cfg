SPECIFICATION FairSpec
CONSTANTS
  Clone = {1, 2}
  Supports <- SecondIsNewer
  NewestEnvelope = 2
  Guarded = {"users"}
  SyncRetries = 2
  Setups <- Pairs
  MaxEvents <- FirstMakesTwo
  MaxCommits = 4
INVARIANTS TypeOK BatchIsIndependent
PROPERTIES TrustRootIsChosen SchemaNeverFalls UpgradedConverge
